------------------------------ MODULE MC_Parts ------------------------------
(***************************************************************************)
(* The machines that share no state, side by side: a behaviour belongs to  *)
(* one of them, part, and leaves the variables of the others alone.  Each  *)
(* machine is instantiated over its own variables, renamed where two       *)
(* modules use the same name.  The cfg has the constants of the user model *)
(* and of the machines that Parts_proofs has theorems about, the others    *)
(* have theirs here.                                                       *)
(***************************************************************************)
EXTENDS UserModel, TLC

CONSTANT Parts    \* the machines a run looks at

VARIABLE part

-----------------------------------------------------------------------------
(* The user model: two keys and one too long to be learned.                 *)

\* The last choice for every key is pinned in memory, and the disk pins it too
\* for the keys a compaction keeps; while nothing was lost, the disk gives back
\* the very model in memory.
MemoryRemembers == part = "user" => MemoryRecalls
DiskRemembers == part = "user" => DiskRecalls
MemoryIsOnDisk == part = "user" => ReloadChangesNothing

-----------------------------------------------------------------------------
(* Harakat from the typed vowels: articles of every kind in mappings.tsv   *)
(* (al, with the doubled letter, lam alone, with a hamza), consonants, waw  *)
(* among them, short and long vowels, vowels on a carrier of their own, and *)
(* the endings; some alignments spell a sacred word.                        *)

VARIABLES steps, full, tanween, allah_form

vocalVars == <<steps, full, tanween, allah_form>>

Chunk(letters, flags, mark, at) ==
    [letters |-> letters, vowel |-> "vowel" \in flags, gem |-> "gem" \in flags,
     tanween |-> "tanween" \in flags, article |-> "article" \in flags,
     mark |-> mark, first |-> mark, at |-> at]
MCSteps ==
    {Chunk(<<"a", "l">>, {"article"}, "none", "start"),
     Chunk(<<"a", "l", "d">>, {"article", "gem"}, "none", "start"),
     Chunk(<<"l">>, {"article"}, "none", "start"), Chunk(<<"hamza", "l">>, {"article"}, "none", "start"),
     Chunk(<<"hamza">>, {"vowel"}, "fatha", "start"), Chunk(<<"ain", "a">>, {"vowel"}, "fatha", "start"),
     Chunk(<<"hamza", "w">>, {"vowel"}, "damma", "start"), Chunk(<<"w">>, {}, "none", "any"),
     Chunk(<<"l">>, {}, "none", "any"), Chunk(<<"h">>, {"gem"}, "none", "any"),
     Chunk(<<"h">>, {}, "none", "any"), Chunk(<<>>, {"vowel"}, "kasra", "any"),
     Chunk(<<"a">>, {"vowel"}, "fatha", "any"), Chunk(<<"w">>, {"vowel"}, "damma", "any"),
     Chunk(<<"y">>, {"vowel"}, "kasra", "any"),
     Chunk(<<"ta">>, {"vowel"}, "fatha", "end"), Chunk(<<"maqsura">>, {"vowel"}, "fatha", "end"),
     Chunk(<<"a">>, {"tanween"}, "none", "end")}

Harakat == INSTANCE Vocalisation WITH
    Steps <- MCSteps, Variants <- <<<<"b", "a", "dagger", "d">>, <<"d">>>>, MaxSteps <- 3,
    Sacred <- [letters |-> <<"a", "l", "l", "h">>, lam |-> 3]

-----------------------------------------------------------------------------
(* The diacritics editor, on a word with every kind of mark and on one that *)
(* begins with a mark; its picks are the vocalisations of a reading, longer *)
(* and shorter.                                                             *)

CONSTANTS OpenedOn, QuickPicks, BareLetter, VowelMark

VARIABLES open, slots, focusedLetter, selectedLetters, highlighted

editorVars == <<open, slots, focusedLetter, selectedLetters, highlighted>>

MCWords == {<<"b", "shadda", "fatha", "a", "d">>, <<"fatha">>}
MCPicks ==
    Harakat!Vocalizations(<<Chunk(<<"b">>, {"gem"}, "none", "any"),
                            Chunk(<<"a">>, {"tanween"}, "none", "end")>>, FALSE, "before_alif", <<>>)

Editor == INSTANCE TashkeelEditor WITH
    Bare <- BareLetter, Vowel <- VowelMark, Words <- OpenedOn, Picks <- QuickPicks,
    focused <- focusedLetter, selected <- selectedLetters

\* Words are letters and marks; the place of no letter is no mark.
ASSUME EditorData ==
    /\ OpenedOn \subseteq Seq(STRING) /\ QuickPicks \in Seq(Seq(STRING))
    /\ Editor!Mark \union {"blank"} \subseteq STRING
    /\ VowelMark \intersect {"none", "shadda", "dagger", "blank"} = {}

CommitsWhatItShows == part = "editor" => Editor!CommitsWhatItShows

\* The same editor, reading vocalisations of every kind.
Reader == INSTANCE TashkeelEditor WITH
    Bare <- {"a"}, Vowel <- {"fatha", "damma", "kasra", "sukun", "fathatan"}, Words <- {}, Picks <- <<>>,
    focused <- focusedLetter, selected <- selectedLetters

\* A vocalisation derived from the typed vowels is the reading with marks and
\* nothing else, and the editor opens it as it stands.  Alif, alif maqsura, ta
\* marbuta, the letters of long vowels and the article's alif and lam carry no
\* mark but the fathatan of the ending; an article written otherwise (lam alone,
\* or with a hamza) is vocalised like any consonants, which docs/03 10.6 denies.
VocalisesTheReading ==
    LET word == Reader!SlotsOf(Harakat!Shown)
        letters == Harakat!LettersIn(steps)
    IN  part = "vocal" /\ letters # <<>> =>
        /\ [i \in DOMAIN word |-> word[i].base] = letters
        /\ Reader!Render(word) = Harakat!Shown
        /\ \A i \in Harakat!Spared :
               /\ ~word[i].shadda /\ ~word[i].dagger
               /\ \/ word[i].vowel = "none"
                  \/ word[i].vowel = "fathatan" /\ Last(steps).tanween /\ i >= Len(letters) - 1

-----------------------------------------------------------------------------
(* The typing session: a letter, the letter that laughs, an emphatic one, a *)
(* digit and a digit of the numeric keypad; a word with a hamza that the    *)
(* relaxed setting makes equal to another reading, a sacred word, a phrase  *)
(* the user must ask for and one he need not, both with tanween.            *)

VARIABLES buf, list, selected, page, editing, settings, pi, learned, anchor, reopened, commits

sessionVars == <<buf, list, selected, page, editing, settings, pi, learned, anchor, reopened, commits>>

Input(ch, lower, class, upper, literal) ==
    [ch |-> ch, lower |-> lower, class |-> class, upper |-> upper, literal |-> literal]
MCTyped ==
    {Input("w", "w", "letter", FALSE, FALSE), Input("h", "h", "letter", FALSE, FALSE),
     Input("H", "h", "emphatic", TRUE, FALSE), Input("5", "5", "digit", FALSE, FALSE),
     Input("5", "5", "digit", FALSE, TRUE)}

Set(sticky, relaxed, styled, joining, eastern, fixed) ==
    [sticky |-> sticky, relaxed |-> relaxed, styled |-> styled, joining |-> joining,
     eastern |-> eastern, fixed |-> fixed]
MCSacred == {<<"allah">>}
MCSettings ==
    {Set(TRUE, FALSE, TRUE, TRUE, FALSE, "auto"), Set(TRUE, TRUE, TRUE, FALSE, TRUE, "levant"),
     Set(FALSE, TRUE, FALSE, TRUE, FALSE, "auto")}

W(l, hamza, marks) == [letters |-> <<l>>, hamza |-> hamza, marks |-> marks]
Reading(text, kind, lexical) ==
    [text |-> text, base |-> [text EXCEPT !.marks = "none"], kind |-> kind, lexical |-> lexical]
MCReadings(syms, d) ==
    LET ahmad == Reading(W("ahmad", TRUE, "none"), "Word", TRUE)
        bare  == Reading(W("ahmad", FALSE, "none"), "Oov", FALSE)
        allah == Reading(W("allah", FALSE, "tanween"), "Word", TRUE)
    IN  CASE syms[1].lower = "w"                -> <<allah, bare>>
          [] Len(syms) > 1 /\ syms[2].emph      -> <<allah>>
          [] syms[1].lower = "h" /\ d = "levant" -> <<bare, ahmad>>
          [] OTHER                              -> <<ahmad, bare>>

Phrase(l, marks, default) == [text |-> W(l, FALSE, marks), default |-> default]
MCPhrases(key, d) ==
    CASE key = <<"h", "h">> -> <<Phrase("salam", "tanween", FALSE)>>
      [] key = <<"h">>      -> <<Phrase("haha", "tanween", TRUE)>>
      [] OTHER              -> <<>>

CONSTANTS
    Typed, AnySettings, Dialect, Readings(_, _), Phrases(_, _), SacredLetters,
    LaughAt, MaxCandidates, PageSize, MaxBuffer, MaxRaw, MaxCommits

Typing == INSTANCE Session WITH Settings <- AnySettings

\* What is typed, and what a re-opened word was typed with.
Entered == Typed \union {[c EXCEPT !.literal = FALSE] : c \in Typed}
IsText(t) == t = Typing!Text(t.letters, t.hamza, t.marks)
IsItem(c) ==
    c = Typing!Candidate(c.text, c.base, c.kind, c.lexical) /\ IsText(c.text) /\ IsText(c.base)

\* A marked phrase of the key that the user must ask for, up to hamza: the only
\* word that is learned with its marks.
LateOf(key, w) ==
    \E d \in Dialect : \E p \in Typing!ToSet(Phrases(key, d)) :
        p.default = FALSE /\ p.text.marks # "none" /\ Typing!RelaxHamza(p.text) = Typing!RelaxHamza(w)

\* A reading's base is its text without marks, and no reading or phrase writes
\* what a marked phrase of the key that must be asked for writes.
ASSUME WordData ==
    /\ MaxCandidates \in Nat \ {0, 1} /\ PageSize \in Nat \ {0} /\ MaxRaw \in Nat
    /\ AnySettings # {} /\ Dialect # {}
    /\ \A set \in AnySettings : set.fixed = "auto" \/ set.fixed \in Dialect
    /\ \A n \in 1..MaxRaw : \A s \in [1..n -> Entered] : \A d \in Dialect :
          LET readings == Readings(Typing!Syms(s), d)
              phrases == Phrases(Typing!Key(s), d)
          IN  /\ readings \in Seq(Typing!ToSet(readings)) /\ phrases \in Seq(Typing!ToSet(phrases))
              /\ \A c \in Typing!ToSet(readings) :
                    /\ IsItem(c) /\ c.kind # "RawLatin" /\ c.base = Typing!StripMarks(c.text)
                    /\ c.text.marks # "eastern" /\ ~LateOf(Typing!Key(s), c.text)
              /\ \A p \in Typing!ToSet(phrases) :
                    /\ IsText(p.text) /\ p.default \in BOOLEAN /\ p.text.marks \notin {"sacred", "eastern"}
                    /\ p.default => ~LateOf(Typing!Key(s), p.text)

ChosenComesFirst == part = "session" => Typing!ChosenComesFirst
NoTwins == part = "session" => Typing!NoTwins
ReopensTheChoice == Typing!ReopensTheChoice

-----------------------------------------------------------------------------
(* The keyboard, twice: a few keys and Shift in fields of one kind, whose   *)
(* key-ups may be lost; and the keys that begin, end and re-open words, in  *)
(* fields of every scope, two of them in one context.                       *)

CONSTANTS
    TapKey, TapField, MaxLost,                             \* of the first
    WordKey, Field, FieldContext, FieldScope, MaxLetters,  \* of the second
    Off, SHIFT_TAP, Wrap, MaxHeld                          \* of both

VARIABLES arabic, focused, letters, editor, compCtx, anchored, scope, eaten, shiftToggles,
          shiftDown, now, held, lost, sinceShift, otherKey, wordScope

keyboardVars == <<arabic, focused, letters, editor, compCtx, anchored, scope, eaten, shiftToggles,
                  shiftDown, now, held, lost, sinceShift, otherKey, wordScope>>

Keyed == INSTANCE Keyboard WITH
    Pressed <- TapKey, Field <- TapField, Context <- [f \in TapField |-> "c1"],
    Scope <- [f \in TapField |-> "Normal"], MaxLetters <- 1, anchor <- anchored

\* A normal field, one without learning in the same context, a Latin field and one
\* without input method in another.
MCContext == [f \in Field |-> IF f \in {"f1", "f2"} THEN "c1" ELSE "c2"]
MCScope == [f \in Field |->
               CASE f = "f2" -> "NoLearning" [] f = "f3" -> "Latin" [] OTHER -> "Normal"]

Fields == INSTANCE Keyboard WITH
    Pressed <- WordKey, Context <- FieldContext, Scope <- FieldScope, MaxLost <- 0,
    anchor <- anchored

UpsMatchDowns == part = "keys" => Keyed!UpsMatchDowns
OnlyTapsToggle == part = "keys" => Keyed!OnlyTapsToggle
ScopesRespected == part = "fields" => Fields!ScopesRespected

-----------------------------------------------------------------------------
(* Following the word.                                                      *)

CONSTANTS
    Spot,                        \* where the application can put the word
    Elsewhere, RELAYOUT_BUDGET,
    MaxSessions,                 \* bound on the queued edit sessions
    MaxInbox

VARIABLES pos, shown, known, composing, started, editorOpen, visible, queue, queued, settled, budget,
          note, inbox, idleReads, blind

relayoutVars == <<pos, shown, known, composing, started, editorOpen, visible, queue, queued, settled,
                  budget, note, inbox, idleReads, blind>>

Follow == INSTANCE Relayout WITH
    Place <- Spot, MaxQueue <- MaxSessions, editor <- editorOpen

EchoesEnd == part = "relayout" => Follow!EchoesEnd
FollowsTheWord == part = "relayout" => Follow!FollowsTheWord

-----------------------------------------------------------------------------
(* The configuration file, replaced time and again, and its readers.        *)

CONSTANTS Hotkey, Unusable, DefaultHotkey, Tip, SignInChecks, MaxSaves

VARIABLES config, stamp, saving, tmp, tipPc, tipConfig, tipStamp, wordStamp, tipFailed,
          companion, reloads, quitting, registered, status, timer, checks, stranded

settingsVars == <<config, stamp, saving, tmp, tipPc, tipConfig, tipStamp, wordStamp, tipFailed,
                  companion, reloads, quitting, registered, status, timer, checks, stranded>>

Saved == INSTANCE Settings WITH file <- config

SavedBeforeTheWord == part = "settings" => Saved!SavedBeforeTheWord
CompanionCatchesUp == part = "settings" => Saved!CompanionCatchesUp

-----------------------------------------------------------------------------
(* The keyboards of the user and of the session.                            *)

CONSTANTS Arabic, Other

VARIABLES saved, hasArabic, loaded, seen, pc, keep, listed, todo, failed, chosen, crossed, since

layoutVars == <<saved, hasArabic, loaded, seen, pc, keep, listed, todo, failed, chosen, crossed, since>>

Tidy == INSTANCE Layouts

ChosenStay == part = "layouts" => Tidy!ChosenStay
SkippedChecksMissNothing == part = "layouts" => Tidy!SkippedChecksMissNothing

-----------------------------------------------------------------------------
(* The popup, for a word in the upper left corner and for one at the right  *)
(* edge that leaves room for a list above it only and for the editor nowhere. *)

CONSTANTS Owner, Rect, Work, EditorSize, MaxTyped, LettersUp, Chips   \* and PageSize

VARIABLES typing, typed, pageShown, editorUp, asked, owner, due, alive, windowOwner, model, targets,
          drag, at, dirty, capture, pressed, taken

popupVars == <<typing, typed, pageShown, editorUp, asked, owner, due, alive, windowOwner, model, targets,
               drag, at, dirty, capture, pressed, taken>>

WordAt(top, right, bottom) == [top |-> top, right |-> right, bottom |-> bottom]
MCRect == {WordAt(1, 1, 2), WordAt(4, 9, 7)}
MCWork == [left |-> 0, top |-> 0, right |-> 8, bottom |-> 9]
MCEditorSize == [w |-> 6, h |-> 4]

Window == INSTANCE Popup WITH
    Letters <- LettersUp, composing <- typing, page <- pageShown, editor <- editorUp

HiddenLetsGo == part = "popup" => Window!HiddenLetsGo
PlacedWell == part = "popup" => Window!PlacedWell
ClicksTakeWhatTheyShow == part = "popup" => Window!ClicksTakeWhatTheyShow

-----------------------------------------------------------------------------
(* The shortcuts, spelled rightly and wrongly.                              *)

CONSTANTS
    Spelling, ToggleName, Letter, MarkLetter, CtrlTaken, CtrlShiftTaken,
    ModifiersDown,   \* sets of modifiers pressed together
    MaxChanges

\* Letters and digits are none of the other keys; reserved_shortcut names letters only.
ASSUME ShortcutKeys ==
    /\ \A c \in Spelling : c.mods \in Seq(STRING)
    /\ Letter \intersect {"none", "punct", "numpad", "space", "enter", "tab", "esc", "backspace", "arrow",
                          "other", "f4"} = {}
    /\ MarkLetter \union CtrlTaken \union CtrlShiftTaken \subseteq Letter

VARIABLES written, byHand, conf, screen, hotkeys, changes

shortcutVars == <<written, byHand, conf, screen, hotkeys, changes>>

MCSpelling ==
    {[mods |-> mods, key |-> "a"] : mods \in {<<"ctrl">>, <<"shift">>, <<"windows">>}}
    \union {[mods |-> <<"control", "shift">>, key |-> "t"], [mods |-> <<"control", "shift">>, key |-> "tab"],
            [mods |-> <<"ctrl", "alt">>, key |-> "tab"], [mods |-> <<"alt">>, key |-> "t"],
            [mods |-> <<>>, key |-> "none"], [mods |-> <<>>, key |-> "space"]}

Keymap == INSTANCE Shortcuts WITH
    Modifiers <- ModifiersDown, file <- written, at <- screen, registered <- hotkeys

TypingGoesOn == part = "shortcuts" => Keymap!TypingGoesOn
ReservedStayFree == part = "shortcuts" => Keymap!ReservedStayFree

-----------------------------------------------------------------------------
(* A text service, activated time and again, in several documents.          *)

CONSTANTS
    Document,   \* documents of the application
    MaxLives    \* bound on the activations

VARIABLES object, lives, active, advised, cookies, watched, begun, composition, popup, sessions,
          disabled, cleanedUp, count

lifeVars == <<object, lives, active, advised, cookies, watched, begun, composition, popup, sessions,
              disabled, cleanedUp, count>>

Life == INSTANCE Lifecycle WITH
    Context <- Document, MaxQueue <- MaxSessions, composing <- begun, queue <- sessions

NothingLeftBehind == part = "life" => Life!NothingLeftBehind

-----------------------------------------------------------------------------
PartsInit ==
    /\ part \in Parts
    /\ Init /\ Harakat!Init /\ Editor!Init /\ Typing!Init /\ Follow!Init /\ Saved!Init /\ Tidy!Init /\ Window!Init
    /\ Keymap!Init /\ Life!Init
    /\ IF part = "fields" THEN Fields!Init ELSE Keyed!Init
    /\ shiftToggles => part = "keys"
    /\ part = "vocal" \/ <<full, tanween, allah_form>> = <<FALSE, "off", <<>>>>

PartsNext ==
    \/ /\ part = "user" /\ Next
       /\ UNCHANGED <<part, vocalVars, editorVars, sessionVars, keyboardVars, relayoutVars, settingsVars, layoutVars, popupVars, shortcutVars, lifeVars>>
    \/ /\ part = "vocal" /\ Harakat!Next
       /\ UNCHANGED <<part, vars, editorVars, sessionVars, keyboardVars, relayoutVars, settingsVars, layoutVars, popupVars, shortcutVars, lifeVars>>
    \/ /\ part = "editor" /\ Editor!Next
       /\ UNCHANGED <<part, vars, vocalVars, sessionVars, keyboardVars, relayoutVars, settingsVars, layoutVars, popupVars, shortcutVars, lifeVars>>
    \/ /\ part = "session" /\ Typing!Next
       /\ UNCHANGED <<part, vars, vocalVars, editorVars, keyboardVars, relayoutVars, settingsVars, layoutVars, popupVars, shortcutVars, lifeVars>>
    \/ /\ part = "keys" /\ Keyed!Next
       /\ UNCHANGED <<part, vars, vocalVars, editorVars, sessionVars, relayoutVars, settingsVars, layoutVars, popupVars, shortcutVars, lifeVars>>
    \/ /\ part = "fields" /\ Fields!Next
       /\ UNCHANGED <<part, vars, vocalVars, editorVars, sessionVars, relayoutVars, settingsVars, layoutVars, popupVars, shortcutVars, lifeVars>>
    \/ /\ part = "relayout" /\ Follow!Next
       /\ UNCHANGED <<part, vars, vocalVars, editorVars, sessionVars, keyboardVars, settingsVars, layoutVars, popupVars, shortcutVars, lifeVars>>
    \/ /\ part = "settings" /\ Saved!Next
       /\ UNCHANGED <<part, vars, vocalVars, editorVars, sessionVars, keyboardVars, relayoutVars, layoutVars, popupVars, shortcutVars, lifeVars>>
    \/ /\ part = "layouts" /\ Tidy!Next
       /\ UNCHANGED <<part, vars, vocalVars, editorVars, sessionVars, keyboardVars, relayoutVars, settingsVars, popupVars, shortcutVars, lifeVars>>
    \/ /\ part = "popup" /\ Window!Next
       /\ UNCHANGED <<part, vars, vocalVars, editorVars, sessionVars, keyboardVars, relayoutVars, settingsVars, layoutVars, shortcutVars, lifeVars>>
    \/ /\ part = "shortcuts" /\ Keymap!Next
       /\ UNCHANGED <<part, vars, vocalVars, editorVars, sessionVars, keyboardVars, relayoutVars, settingsVars, layoutVars, popupVars, lifeVars>>
    \/ /\ part = "life" /\ Life!Next
       /\ UNCHANGED <<part, vars, vocalVars, editorVars, sessionVars, keyboardVars, relayoutVars, settingsVars, layoutVars, popupVars,
                      shortcutVars>>

partsVars ==
    <<part, vars, vocalVars, editorVars, sessionVars, keyboardVars, relayoutVars, settingsVars, layoutVars,
      popupVars, shortcutVars, lifeVars>>

PartsSpec == PartsInit /\ [][PartsNext]_partsVars
=============================================================================
