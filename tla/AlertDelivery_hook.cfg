SPECIFICATION FairSpec
CONSTANTS
    d1 = d1
    d2 = d2
    Dashboards = {d1}
    Sockets <- TwoSockets
    BufferSize = 2
    PageSize = 1
    ArchiveSize = 1
    MaxAlerts = 1
    MaxEffects = 2
    Faults = {"network", "clear"}
INVARIANTS NoDuplicates OneSocket Delivered
PROPERTIES Reconnects
