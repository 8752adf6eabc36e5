SPECIFICATION PanelFairSpec
CONSTANTS
    JobIds = {j1, j2}
    NoJob = nojob
    MaxPolls = 2
    MaxRuns = 2
    MaxUploads = 1
    Faults = {"network", "restart"}
INVARIANTS EndIsTrue
PROPERTIES EndIsShown
