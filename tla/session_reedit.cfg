SPECIFICATION PartsSpec
CONSTANTS
    LatinKey = {k1, k2, long}
    LongKey = {long}
    Word = {w1, w2, w3}
    MaxChoices = 2
    MaxKeys = 1
    MaxRepeat = 2
    MaxFile = 6
    MaxCalls = 3
    Typed <- MCTyped
    AnySettings <- MCSettings
    Dialect = {"egypt", "levant"}
    OpenedOn <- MCWords
    QuickPicks <- MCPicks
    BareLetter = {"a"}
    VowelMark = {"fatha", "fathatan"}
    Readings <- MCReadings
    Phrases <- MCPhrases
    SacredLetters <- MCSacred
    LaughAt = 2
    MaxCandidates = 4
    MaxBuffer = 2
    MaxRaw = 2
    MaxCommits = 1
    TapKey = {"char", "shift"}
    TapField = {"f1"}
    MaxLost = 1
    WordKey = {"char", "space", "punct", "tab", "backspace"}
    Field = {"f1", "f2", "f3", "f4"}
    FieldContext <- MCContext
    FieldScope <- MCScope
    MaxLetters = 2
    Off = {"f4"}
    SHIFT_TAP = 1
    Wrap = 3
    MaxHeld = 1
    Spot = {"p1", "p2"}
    Elsewhere = "pointer"
    RELAYOUT_BUDGET = 3
    MaxSessions = 2
    MaxInbox = 2
    Hotkey = {"A", "B"}
    Unusable = {"bad"}
    DefaultHotkey = "A"
    Tip = {"t1"}
    SignInChecks = 1
    MaxSaves = 2
    Arabic = {"101"}
    Other = {"us"}
    Owner = {"o1", "o2"}
    Rect <- MCRect
    Work <- MCWork
    PageSize = 2
    EditorSize <- MCEditorSize
    MaxTyped = 2
    LettersUp = 2
    Chips = 1
    Spelling <- MCSpelling
    ToggleName = {"Ctrl+Space", "Shift+Space", "ShiftTap", "Alt+Space"}
    Letter = {"a", "t"}
    MarkLetter = {"a"}
    CtrlTaken = {"a", "t"}
    CtrlShiftTaken = {"t"}
    ModifiersDown = {{}, {"ctrl"}, {"shift"}, {"alt"}, {"altgr"}}
    MaxChanges = 2
    Document = {c1, c2}
    MaxLives = 2
    Parts = {"session"}
INVARIANT ReopensTheChoice
CHECK_DEADLOCK FALSE
