SPECIFICATION Spec
CONSTANTS
    d1 = d1
    d2 = d2
    Dashboards = {d1, d2}
    Sockets <- OneEach
    BufferSize = 2
    PageSize = 0
    ArchiveSize = 1
    MaxAlerts = 2
    MaxEffects = 1
    Faults = {"network"}
INVARIANTS Delivered
SYMMETRY Symmetry
