SPECIFICATION Spec
CONSTANTS
    Context = {c1, c2}
    Deferred = FALSE
    MaxKeys = 4
    MaxLen = 1
    MaxClicks = 0
    MaxEnded = 0
    MaxLosses = 0
INVARIANT NoOrphanEver
CHECK_DEADLOCK FALSE
