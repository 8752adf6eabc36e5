SPECIFICATION FairSpec
CONSTANTS
    Writers = {w1}
    Analysts = {a1, a2}
    Readers = {r1}
    Flows = {f1}
    Statuses = {s1}
    New = new
    None = none
    RingSize = 1
    MaxAlerts = 2
    MaxMutations = 1
    Faults = {"clickhouse", "restart", "clear"}
INVARIANTS StatusSticks
PROPERTIES FallbackEnds
