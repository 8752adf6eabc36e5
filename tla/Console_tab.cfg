SPECIFICATION FairSpec
CONSTANTS
    Roles = {admin, analyst}
    Analyst = analyst
    Flows = {f1, f2}
    ClassOf <- Classes
    f1 = f1
    f2 = f2
    None = none
    MaxNotes = 2
    MaxRisked = 1
    MaxReads = 2
    MaxTimers = 2
INVARIANTS SessionAgrees NotesAgree
PROPERTIES LabelStands FormsReturn
CHECK_DEADLOCK FALSE
