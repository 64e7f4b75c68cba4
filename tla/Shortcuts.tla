----------------------------- MODULE Shortcuts -----------------------------
(***************************************************************************)
(* The user's shortcuts, from config.toml to the key that was pressed: what *)
(* Settings accepts (validate, settings main.rs), what the configuration    *)
(* keeps (Config::parse, is_chord, reserved_shortcut), what the router makes *)
(* of it (Toggle, Chord, KeyMap, classify) and what the companion registers *)
(* (t3a_hotkey::parse, register).                                           *)
(*                                                                         *)
(* A shortcut is spelled as modifier names in some order and a key.  Case  *)
(* and blanks are left out: every reader ignores them.                     *)
(***************************************************************************)
EXTENDS Naturals, Sequences

CONSTANTS
    Spelling,       \* shortcuts a user may write: [mods: names, key]
    ToggleName,     \* values of general.mode_toggle
    Letter,         \* letters and digits
    MarkLetter,     \* those that are commands of the editor
    CtrlTaken,      \* those Windows or the applications use with Ctrl
    CtrlShiftTaken, \* and with Ctrl+Shift
    Modifiers,      \* sets of modifiers pressed together
    MaxChanges      \* bound on the changes of the file

VARIABLES
    file,        \* config.toml: [toggle, latin, tashkeel, harakat, hotkey, enabled]
    byHand,      \* it was edited outside Settings
    conf,        \* State::config and State::keys of a keyboard: as file, parsed
    at,          \* what is on the screen: "idle", "list", "editor"
    registered,  \* the hotkey the companion registered, as a set
    changes

vars == <<file, byHand, conf, at, registered, changes>>

None == [mods |-> <<>>, key |-> "none"]
Spell(m, k) == [mods |-> m, key |-> k]
Names(c) == {c.mods[i] : i \in DOMAIN c.mods}

Default ==
    [toggle |-> "Ctrl+Space", latin |-> Spell(<<"shift">>, "space"), tashkeel |-> Spell(<<>>, "tab"),
     harakat |-> Spell(<<"ctrl">>, "enter"), hotkey |-> Spell(<<"ctrl", "alt">>, "a"), enabled |-> TRUE]

ChordField == {"latin", "tashkeel", "harakat"}

-----------------------------------------------------------------------------
(* What the file may say.                                                  *)

AnyModifier(c) ==   \* mutant: Shift is enough for a letter
    \/ c = None
    \/ /\ Names(c) \subseteq {"ctrl", "alt", "shift"}
       /\ \/ c.key = "tab"
          \/ c.key \in {"space", "enter", "backspace"} \union Letter /\ c.mods # <<>>

\* is_chord: a letter needs Ctrl or Alt, the keys that commit and delete need
\* some modifier, Esc and the function keys are not for shortcuts.
IsChord(c) ==
    \/ c = None
    \/ /\ Names(c) \subseteq {"ctrl", "alt", "shift"}
       /\ \/ c.key = "tab"
          \/ c.key \in {"space", "enter", "backspace"} /\ c.mods # <<>>
          \/ c.key \in Letter /\ Names(c) \intersect {"ctrl", "alt"} # {}

\* The modifiers a list of names stands for.
OneSpelling(names) ==   \* mutant: the other spelling of a modifier is not known
    names \intersect {"ctrl", "alt", "shift", "win"}

Meant(names) ==
    (names \intersect {"ctrl", "alt", "shift", "win"})
        \union (IF "control" \in names THEN {"ctrl"} ELSE {})
        \union (IF "windows" \in names THEN {"win"} ELSE {})

\* reserved_shortcut, of Windows, the applications and Type3arabi's own toggle.
ReservedShortcut(c) ==
    LET m == Meant(Names(c))
    IN  \/ "win" \in m
        \/ "alt" \in m /\ c.key = "tab"
        \/ m = {"alt"} /\ c.key \in {"f4", "space", "enter"}
        \/ m = {"ctrl"} /\ c.key \in CtrlTaken \union {"space", "tab", "backspace"}
        \/ m = {"ctrl", "shift"} /\ c.key \in CtrlShiftTaken \union {"tab"}

\* Config::parse: a chord that cannot be one keeps the default; the toggle and
\* the hotkey are taken as they stand.
Parsed(f) ==
    [x \in DOMAIN f |-> IF x \in ChordField /\ ~IsChord(f[x]) THEN Default[x] ELSE f[x]]

\* t3a_hotkey::parse and vk_of: the chord registered, none for an invalid one.
HotkeySpec(c) ==
    IF /\ Names(c) \subseteq {"ctrl", "control", "alt", "shift", "win", "windows"}
       /\ Names(c) \ {"shift"} # {}
       /\ c.key \in Letter \union {"space", "tab", "enter", "f4"}
    THEN {[mods |-> {IF n = "control" THEN "ctrl" ELSE IF n = "windows" THEN "win" ELSE n : n \in Names(c)},
           key |-> c.key]}
    ELSE {}

\* validate: two actions may not be written alike.
Valid(f) ==
    /\ \A x \in ChordField : IsChord(f[x]) /\ ~ReservedShortcut(f[x])
    /\ f.toggle \in {"Ctrl+Space", "Shift+Space", "Ctrl+Shift+Space", "ShiftTap", "none"}
    /\ f.enabled => HotkeySpec(f.hotkey) # {} /\ ~ReservedShortcut(f.hotkey)
    /\ \A x, y \in ChordField : x # y /\ f[x] = f[y] => f[x] = None

-----------------------------------------------------------------------------
(* What a key does.                                                        *)

\* Chord::parse with KeyMap::from_config: at most one chord for each action.
KeyMap(c) ==
    IF c = None \/ ~(Names(c) \subseteq {"ctrl", "alt", "shift"})
                \/ c.key \notin Letter \union {"space", "enter", "tab", "esc", "backspace"}
    THEN {} ELSE {[mods |-> Names(c), key |-> c.key]}

\* Toggle::parse and Toggle::matches: what is not known is Ctrl+Space.
ToggleMods(name) ==
    CASE name = "Shift+Space"          -> {{"shift"}}
      [] name = "Ctrl+Shift+Space"     -> {{"ctrl", "shift"}}
      [] name \in {"ShiftTap", "none"} -> {}
      [] OTHER                         -> {{"ctrl"}}

\* Mods::command: Ctrl, Alt or Win without AltGr; Ctrl and Alt of AltGr are not
\* reported (read_mods).
IsCommand(m) == "altgr" \notin m /\ m \intersect {"ctrl", "alt", "win"} # {}
Pressed == Letter \union {"punct", "numpad", "space", "enter", "tab", "esc", "backspace", "arrow", "other"}

\* A chord must have the very modifiers; AltGr is not looked at.
Bound(x, k, m) == [mods |-> m \ {"altgr"}, key |-> k] \in KeyMap(conf[x])

\* classify while the editor is open.
EditorKey(k) ==
    CASE k \in MarkLetter          -> "Mark"
      [] k \in Letter \ MarkLetter -> "CommitThenType"
      [] k = "punct"               -> "CommitThenPunctuation"
      [] k = "numpad"              -> "Ignore"
      [] k = "backspace"           -> "ClearOrBack"
      [] k \in {"arrow", "tab"}    -> "Move"
      [] k = "enter"               -> "CommitNoSpace"
      [] k = "space"               -> "CommitSpace"
      [] k = "esc"                 -> "Back"
      [] k = "other"               -> "CommitAndReinject"

InEditor(k, m) ==
    IF Bound("latin", k, m) THEN "CommitRawSpace"
    ELSE IF Bound("tashkeel", k, m) THEN "Back"
    ELSE IF IsCommand(m) /\ k # "enter" THEN "CommitAndReinject"
    ELSE EditorKey(k)

\* classify over the list; the hyphen after an article, which is taken, is left out.
ListKey(k, m) ==
    CASE k \in Letter       -> "AppendChar"
      [] k = "punct"        -> "CommitThenPunctuation"
      [] k = "numpad"       -> "AppendLiteralDigit"
      [] k = "backspace"    -> "Backspace"
      [] k = "space"        -> "CommitSpace"
      [] k = "enter"        -> "CommitNoSpace"
      [] k = "tab"          -> IF "shift" \in m THEN "Move" ELSE "CommitAndReinject"
      [] k = "esc"          -> "CommitRaw"
      [] k = "arrow"        -> "Move"
      [] k = "other"        -> "CommitAndReinject"

InList(k, m) ==
    IF Bound("harakat", k, m) THEN "CommitWithHarakat"
    ELSE IF Bound("latin", k, m) THEN "CommitRawSpace"
    ELSE IF Bound("tashkeel", k, m) THEN "OpenTashkeel"
    ELSE IF IsCommand(m) THEN "CommitAndReinject"
    ELSE ListKey(k, m)

\* classify without a word: shortcuts are for words.
Idle(k, m) ==
    CASE k \in Letter /\ ~IsCommand(m)  -> "AppendChar"
      [] k = "punct" /\ ~IsCommand(m)   -> "InsertPunctuation"
      [] k = "numpad" /\ ~IsCommand(m)  -> "AppendLiteralDigit"
      [] OTHER                          -> "Pass"

\* classify in Arabic mode: the toggle comes first.
Classify(k, m) ==
    IF k = "space" /\ m \intersect {"alt", "win"} = {}
       /\ m \intersect {"ctrl", "shift"} \in ToggleMods(conf.toggle)
    THEN "Toggle"
    ELSE CASE at = "editor" -> InEditor(k, m)
           [] at = "list"   -> InList(k, m)
           [] at = "idle"   -> Idle(k, m)

-----------------------------------------------------------------------------
(* Actions.                                                                *)

Changed(x, v) == [Parsed(file) EXCEPT ![x] = v]
ValuesOf(x) == IF x = "toggle" THEN ToggleName ELSE IF x = "enabled" THEN BOOLEAN ELSE Spelling

\* save_settings: one value is changed in the window, which shows what Config
\* parsed; problems block the save.
Save ==
    /\ changes < MaxChanges
    /\ \E x \in DOMAIN file : \E v \in ValuesOf(x) :
          /\ Valid(Changed(x, v))
          /\ file' = Changed(x, v)
    /\ changes' = changes + 1 /\ UNCHANGED <<byHand, conf, at, registered>>

\* The user edits config.toml.
EditFile ==
    /\ changes < MaxChanges
    /\ \E x \in DOMAIN file : \E v \in ValuesOf(x) : file' = [file EXCEPT ![x] = v]
    /\ byHand' = TRUE
    /\ changes' = changes + 1 /\ UNCHANGED <<conf, at, registered>>

\* begin_composition_config: the keyboard reads the file between words.
ReadConfig ==
    /\ at = "idle" /\ conf' = Parsed(file)
    /\ UNCHANGED <<file, byHand, at, registered, changes>>

\* register: off, reserved, invalid and taken leave no hotkey.
Register ==
    /\ registered' \in
          IF Parsed(file).enabled /\ ~ReservedShortcut(file.hotkey)
          THEN {{}, HotkeySpec(file.hotkey)} ELSE {{}}
    /\ UNCHANGED <<file, byHand, conf, at, changes>>

\* OnKeyDown: what a key leaves on the screen.
Press ==
    /\ \E k \in Pressed, m \in Modifiers :
          LET a == Classify(k, m)
          IN  at' \in CASE a \in {"AppendChar", "AppendLiteralDigit", "CommitThenType"} -> {"list"}
                        [] a = "Backspace"                         -> {"list", "idle"}
                        [] a = "OpenTashkeel"                      -> {"editor", "list"}
                        [] a = "Back"                              -> {"list"}
                        [] a = "ClearOrBack"                       -> {"editor", "list"}
                        [] a \in {"Move", "Mark", "Ignore", "Pass"} -> {at}
                        [] OTHER                                   -> {"idle"}
    /\ UNCHANGED <<file, byHand, conf, registered, changes>>

Init ==
    /\ file = Default /\ byHand = FALSE /\ conf = Default
    /\ at = "idle" /\ registered = {} /\ changes = 0

Next == Save \/ EditFile \/ ReadConfig \/ Register \/ Press

Spec == Init /\ [][Next]_vars

-----------------------------------------------------------------------------
(* Properties.                                                             *)

\* What the keys of normal typing do where they are pressed.
TypingActions ==
    CASE at = "idle"   -> {"AppendChar", "InsertPunctuation", "AppendLiteralDigit"}
      [] at = "list"   -> {"AppendChar", "CommitThenPunctuation", "AppendLiteralDigit"}
      [] at = "editor" -> {"Mark", "CommitThenType", "CommitThenPunctuation", "Ignore"}

\* "Rejected because they would break normal typing" (is_chord, config.rs): with
\* whatever shortcuts in the file, a character still types, with Shift and AltGr
\* too, and Space, Enter, Backspace and Esc still end or shorten the word.
TypingGoesOn ==
    /\ \A k \in Letter \union {"punct", "numpad"}, m \in SUBSET {"shift", "altgr"} : Classify(k, m) \in TypingActions
    /\ at # "idle" =>
          /\ Classify("space", {}) = "CommitSpace" /\ Classify("enter", {}) = "CommitNoSpace"
          /\ Classify("backspace", {}) \in {"Backspace", "ClearOrBack"}
          /\ Classify("esc", {}) \in {"CommitRaw", "Back"}

\* The chords of others as they are pressed, whatever their spelling: all with the
\* Windows key, Alt+Tab with anything added, and the ones each has of its own.
WithModifier(x) == {m \in SUBSET {"ctrl", "alt", "shift", "win"} : x \in m}
ChordKey == Letter \union {"space", "tab", "enter", "backspace", "esc", "f4"}
Taken ==
    [mods : WithModifier("win"), key : ChordKey]
        \union [mods : WithModifier("alt"), key : {"tab"}]
        \union [mods : {{"alt"}}, key : {"f4", "space", "enter"}]
        \union [mods : {{"ctrl"}}, key : CtrlTaken \union {"space", "tab", "backspace"}]
        \union [mods : {{"ctrl", "shift"}}, key : CtrlShiftTaken \union {"tab"}]

\* "A copy of Ctrl+C would break copying everywhere" (reserved_shortcut): no
\* chord of others is ever registered system-wide, however it is spelled, and
\* none is a typing shortcut unless the file was edited by hand.
ReservedStayFree ==
    /\ registered \intersect Taken = {}
    /\ byHand \/ \A x \in ChordField : KeyMap(file[x]) \intersect Taken = {}

=============================================================================
