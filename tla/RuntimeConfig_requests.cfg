SPECIFICATION FairSpec
CONSTANTS
    Analysts = {a1, a2}
    Pipeline = pipeline
    Params = {p1}
    Settings = {v1}
    Baseline = baseline
    RuleIds = {r1}
    None = none
    Faults = {"redis", "clear", "crash"}
INVARIANTS TypeOK OverridesMirrored RulesMirrored DeletedStaysDeleted
PROPERTIES Reconverges
