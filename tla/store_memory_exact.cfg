SPECIFICATION Spec
CONSTANTS
    Writer = {w}
    Reader = {}
    Composer = {w}
    CompactAt = 9
    PrefixCap = 1
    SlowHolder = FALSE
    MaxRecords = 2
    MaxCrashes = 0
    MaxFailures = 0
INVARIANT MemoryExact
CHECK_DEADLOCK FALSE
