SPECIFICATION Spec
CONSTANTS
    Writer = {w1, w2}
    Reader = {}
    Composer = {}
    CompactAt = 1
    PrefixCap = 1
    SlowHolder = FALSE
    MaxRecords = 4
    MaxCrashes = 0
    MaxFailures = 0
INVARIANT DiskExact
CHECK_DEADLOCK FALSE
