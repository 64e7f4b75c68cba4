SPECIFICATION Spec
CONSTANTS
    Context = {c1}
    Deferred = TRUE
    MaxKeys = 4
    MaxLen = 2
    MaxClicks = 1
    MaxEnded = 0
    MaxLosses = 0
INVARIANT FinalizedStay
CHECK_DEADLOCK FALSE
