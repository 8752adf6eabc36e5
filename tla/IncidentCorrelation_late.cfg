SPECIFICATION Spec
CONSTANTS
    Workers = {w1, w2}
    Sources = {s1, s2}
    Anonymous = anonymous
    Classes = {c1, c2}
    Window = 1
    Lags = {0, 2}
    MaxClock = 2
    MaxEvents = 3
SYMMETRY Symmetry
INVARIANTS TypeOK IncidentHasOneSource IncidentsFollowWindow ChainFromOneIncident
CHECK_DEADLOCK FALSE
