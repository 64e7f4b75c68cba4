SPECIFICATION Spec
CONSTANTS
    Writer = {w1, w2}
    Reader = {}
    Composer = {w1, w2}
    CompactAt = 9
    PrefixCap = 1
    SlowHolder = FALSE
    MaxRecords = 3
    MaxCrashes = 0
    MaxFailures = 1
INVARIANT OthersOnce
CHECK_DEADLOCK FALSE
