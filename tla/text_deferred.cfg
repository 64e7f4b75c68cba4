SPECIFICATION FairSpec
CONSTANTS
    Context = {c1}
    Deferred = TRUE
    MaxKeys = 4
    MaxLen = 2
    MaxClicks = 1
    MaxEnded = 1
    MaxLosses = 1
INVARIANTS ShowsTheWord ArabicWhileComposing LandInOrder CommittedWordsStay Once
PROPERTY Thaws
CHECK_DEADLOCK FALSE
