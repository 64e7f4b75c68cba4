SPECIFICATION Spec
CONSTANTS
    Context = {c1, c2}
    Deferred = FALSE
    MaxKeys = 5
    MaxLen = 2
    MaxClicks = 1
    MaxEnded = 1
    MaxLosses = 0
INVARIANTS NoOrphan PopupWhileComposing ReopenedWordsStay FinalizedStay TypedOnce
SYMMETRY Symmetry
CHECK_DEADLOCK FALSE
