SPECIFICATION Spec
CONSTANTS
    Writer = {w1, w2}
    Reader = {}
    Composer = {}
    CompactAt = 1
    PrefixCap = 1
    SlowHolder = FALSE
    MaxRecords = 3
    MaxCrashes = 1
    MaxFailures = 1
INVARIANTS OneCompactor BlindSpotsOnly
SYMMETRY Symmetry
CHECK_DEADLOCK FALSE
