SPECIFICATION FairSpec
CONSTANTS
    Jobs = {j1}
    Legacies = {l1}
    mixed = mixed
    flood = flood
    z1 = z1
    z2 = z2
    z3 = z3
    Files = {mixed, flood}
    Capture <- Captures
    Zeek <- ZeekOf
    Every = every
    NoFile = nofile
    Nobody = nobody
    None = none
    Docker = TRUE
    Exceptions = TRUE
    Consumer = TRUE
    MaxPoll = 2
    MaxForeign = 0
    Outages = FALSE
CONSTRAINT SmallBeside
INVARIANTS JobHandlesItsCapture BytesConserved LegacyEnriched
PROPERTIES JobsEnd ImplementsJobStore
CHECK_DEADLOCK FALSE
