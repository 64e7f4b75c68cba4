SPECIFICATION FairSpec
CONSTANTS
    Writer = {w}
    Reader = {r}
    Composer = {r}
    CompactAt = 0
    PrefixCap = 1
    SlowHolder = FALSE
    MaxRecords = 2
    MaxCrashes = 1
    MaxFailures = 1
INVARIANT TypeOK
PROPERTIES DiskImplementsLog CommitsAreWritten ReadersConverge
CHECK_DEADLOCK FALSE
