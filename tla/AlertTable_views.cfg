SPECIFICATION FairSpec
CONSTANTS
    f1 = f1
    f2 = f2
    MaxAlerts = 3
    BufferSize = 2
    PageSize = 1
    Flows = {f1, f2}
    FlowOf <- Flow
    SeverityOf <- Severity
    Near = {1, 2}
    Statuses = {s1, s2}
    New = new
    None = none
    MaxPatches = 2
    MaxFetches = 2
    Failures = TRUE
INVARIANTS HeldUnderMouse ArchiveIsPage StatusAgrees
PROPERTIES StreamHolds Unfreezes
CHECK_DEADLOCK FALSE
