SPECIFICATION Spec
CONSTANTS
    Workers = {w1, w2}
    Window = 1
    Lags = {0, 2}
    Backends = {"redis", "memory"}
    Faulty = TRUE
    Clearing = TRUE
    MaxClock = 2
    MaxEvents = 3
SYMMETRY Symmetry
INVARIANTS NothingLost ReadsComplete
CHECK_DEADLOCK FALSE
