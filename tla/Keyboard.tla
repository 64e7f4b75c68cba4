------------------------------ MODULE Keyboard ------------------------------
(***************************************************************************)
(* From key events to actions: the routing table (classify, keyrouter.rs), *)
(* the key event sink around it (OnTestKeyDown .. OnKeyUp, decide,         *)
(* service.rs), the Shift tap and the input scope of the field.            *)
(*                                                                         *)
(* OnTestKeyDown and the OnKeyDown that follows see the same key and the   *)
(* same state, so they are one action.  Auto-repeat is that action again   *)
(* for the key pressed last.  The composition is the number of its         *)
(* letters; documents and lists are in TextService and Session.            *)
(***************************************************************************)
EXTENDS Integers, FiniteSets

CONSTANTS
    Pressed,        \* the keys that exist, of AllKeys
    Field,       \* text fields
    Context,     \* the TSF context of each field: a page's fields share one
    Scope,       \* what the input scopes of each field say (classify_scopes)
    Off,         \* fields that take no input method (evaluate_context_mode)
    SHIFT_TAP,   \* the longest tap, in ticks
    Wrap,        \* GetMessageTime counts modulo this
    MaxLetters,  \* bound on the letters of a word
    MaxHeld,     \* bound on the keys held down at once, Shift apart
    MaxLost      \* bound on the keys whose key-up was lost

ScopeClass == {"Normal", "Latin", "NoLearning"}
AllKeys == {"char", "mark", "punct", "hyphen", "numpad", "backspace", "space", "enter", "tab",
            "esc", "updown", "page", "arrow", "delete", "other", "shift", "modifier"}
Mods == {"none", "shift", "command"}   \* command: Ctrl, Alt or Win

VARIABLES
    arabic,      \* State::arabic_mode
    focused,     \* the field with the focus
    letters,     \* letters of the word being typed, 0 outside one
    editor,      \* the diacritics editor is open
    compCtx,     \* context of the composition
    anchor,      \* State::anchor: "none", "space" (trailing space left), "word"
    scope,       \* State::scope: the context read last and its class
    eaten,       \* State::eaten, as the set of its keys
    shiftDown,   \* State::shift_down, -1 for None
    shiftToggles,\* mode_toggle is ShiftTap; otherwise it is Ctrl+Space
    now,         \* GetMessageTime, looked at while Shift is armed only
    held,        \* for each key: "up", or what became of its key-downs so far
    lost,        \* the keys whose last key-up never came
    sinceShift,  \* ticks since shift_down was set
    otherKey,    \* a key other than Shift went down since then
    wordScope    \* class of the field the last word was begun in, "refused" when it was not read

word == <<letters, editor, compCtx, wordScope>>
keyUps == <<eaten, held, lost>>
tap == <<shiftToggles, now, shiftDown, sinceShift, otherKey>>
vars == <<arabic, focused, word, anchor, scope, keyUps, tap>>

-----------------------------------------------------------------------------
(* classify.                                                               *)

Chars == {"char", "mark", "punct", "hyphen", "numpad"}
Modifiers == {"shift", "modifier"}

InEditor(k, m) ==
    CASE k = "space" /\ m = "shift"           -> "CommitRaw"
      [] k = "tab" /\ m = "none"              -> "EditorBack"
      [] m = "command" /\ k # "enter"         -> "CommitAndReinject"
      [] k = "char"                           -> "CommitThenType"
      [] k \in {"punct", "hyphen"}            -> "CommitThenPunctuation"
      [] k \in {"enter", "space"}             -> "Commit"
      [] k = "esc"                            -> "EditorBack"
      [] k = "backspace"                      -> "ClearOrBack"
      [] k = "other"                          -> "CommitAndReinject"
      [] OTHER                                -> "EditorCommand"

\* article: the letters typed are an article.
InWord(k, m, article) ==
    CASE k = "enter" /\ m = "command"         -> "Commit"
      [] k = "space" /\ m = "shift"           -> "CommitRaw"
      [] k = "tab" /\ m = "none"              -> "OpenTashkeel"
      [] m = "command"                        -> "CommitAndReinject"
      [] k = "hyphen" /\ article              -> "ArticleHyphen"
      [] k \in {"char", "mark", "numpad"}     -> "Append"
      [] k \in {"punct", "hyphen"}            -> "CommitThenPunctuation"
      [] k = "backspace"                      -> "Backspace"
      [] k \in {"space", "enter"}             -> "Commit"
      [] k \in {"tab", "updown", "page"}      -> "Navigate"
      [] k = "esc"                            -> "CommitRaw"
      [] OTHER                                -> "CommitAndReinject"

Idle(k, m) ==
    CASE m # "command" /\ k \in {"char", "mark", "numpad"} -> "Append"
      [] m # "command" /\ k \in {"punct", "hyphen"}        -> "Insert"
      [] k = "backspace" /\ anchor # "none" /\ m # "command" -> "ReEdit"
      [] OTHER                                             -> "Pass"

InLatin(k, m) == IF k \in Chars /\ m # "command" THEN "Insert" ELSE "Pass"

\* drop_dead_state: a key from another context ends the word.
Composing == letters > 0 /\ compCtx = Context[focused]

Classify(k, m, latin, article) ==
    CASE focused \in Off \/ k \in Modifiers   -> "Pass"
      [] ~shiftToggles /\ k = "space" /\ m = "command" -> "Toggle"
      [] latin                                -> InLatin(k, m)
      [] Composing /\ editor                  -> InEditor(k, m)
      [] Composing                            -> InWord(k, m, article)
      [] OTHER                                -> Idle(k, m)

\* An eaten key that the host gets as well.
Handed(action) == action = "CommitAndReinject" \/ (action = "ReEdit" /\ anchor = "space")

-----------------------------------------------------------------------------
(* The scope of the field.                                                 *)

ScopeKept(k, read) == scope   \* mutant: the scope of the field read first stays

\* decide reads it when a word may start; a refused read is the normal field's.
ScopeRead(k, read) ==
    IF focused \notin Off /\ k \in Chars /\ ~Composing
    THEN [ctx |-> Context[focused], class |-> IF read THEN Scope[focused] ELSE "Normal"]
    ELSE scope

Latin(sc) == ~arabic \/ (sc.ctx = Context[focused] /\ sc.class = "Latin")

-----------------------------------------------------------------------------
(* execute.                                                                *)

EndWord == letters' = 0 /\ editor' = FALSE

\* commit; the anchor is none after punctuation.
Commits(anchors) == EndWord /\ anchor' \in anchors /\ UNCHANGED <<compCtx, wordScope>>

\* What commit asks before it learns (R9), beside the settings.
Learns == scope.class = "Normal"

\* The keys that take the anchor away: all but modifiers, and Backspace for it.
KeepsAnchor(k) == anchor' = (IF k \in Modifiers THEN anchor ELSE "none")

Leaves(k) == KeepsAnchor(k) /\ UNCHANGED <<compCtx, wordScope>>
Alive == letters' = (IF Composing THEN letters ELSE 0) /\ editor' = (editor /\ Composing)

Execute(action, k, read) ==
    \/ /\ action = "Append" /\ Composing /\ letters < MaxLetters
       /\ letters' = letters + 1 /\ UNCHANGED editor /\ Leaves(k)
    \/ /\ action = "Append" /\ ~Composing
       /\ letters' = 1 /\ editor' = FALSE /\ compCtx' = Context[focused]
       /\ wordScope' = (IF read THEN Scope[focused] ELSE "refused")
       /\ KeepsAnchor(k)
    \/ action = "Backspace" /\ letters' = letters - 1 /\ UNCHANGED editor /\ Leaves(k)
    \/ action = "ReEdit" /\ anchor = "space" /\ anchor' = "word" /\ UNCHANGED <<word>>
    \/ /\ action = "ReEdit" /\ anchor = "word" /\ anchor' = "none"
       /\ letters' \in 0..MaxLetters                \* 0: other text stands before the caret
       /\ editor' = FALSE /\ compCtx' = Context[focused] /\ UNCHANGED <<wordScope>>
    \/ action \in {"Commit", "CommitRaw"} /\ Commits({"space", "word"})
    \/ action = "CommitAndReinject" /\ Commits({"word"})
    \/ action = "CommitThenPunctuation" /\ Commits({"none"})
    \/ /\ action = "CommitThenType" /\ letters' = 1 /\ editor' = FALSE
       /\ anchor' = "none" /\ UNCHANGED <<compCtx, wordScope>>
    \/ action = "Toggle" /\ Composing /\ Commits({"word"})
    \/ action = "OpenTashkeel" /\ editor' \in BOOLEAN /\ UNCHANGED letters /\ Leaves(k)
    \/ action = "EditorBack" /\ editor' = FALSE /\ UNCHANGED letters /\ Leaves(k)
    \/ action = "ClearOrBack" /\ editor' \in BOOLEAN /\ UNCHANGED letters /\ Leaves(k)
    \/ action \in {"EditorCommand", "ArticleHyphen", "Navigate"} /\ UNCHANGED <<letters, editor>> /\ Leaves(k)
    \/ (action \in {"Insert", "Pass"} \/ (action = "Toggle" /\ ~Composing)) /\ Alive /\ Leaves(k)

-----------------------------------------------------------------------------
(* Key events.                                                             *)

RearmOnRepeat(k) ==   \* mutant: auto-repeat starts the tap again
    IF k = "shift"
    THEN /\ IF shiftDown = -1 THEN now' \in 0..(Wrap - 1) /\ sinceShift' = 0 ELSE UNCHANGED <<now, sinceShift>>
         /\ shiftDown' = now' /\ otherKey' = FALSE
    ELSE shiftDown' = -1 /\ now' = 0 /\ sinceShift' = 0 /\ otherKey' = (shiftDown' # -1)

\* track_shift_tap of a key-down: auto-repeat keeps the first press, any other
\* key ends the tap.
ShiftTapDown(k) ==
    IF k = "shift"
    THEN IF shiftDown = -1
         THEN now' \in 0..(Wrap - 1) /\ shiftDown' = now' /\ sinceShift' = 0 /\ otherKey' = FALSE
         ELSE UNCHANGED <<shiftDown, now, sinceShift, otherKey>>
    ELSE shiftDown' = -1 /\ now' = 0 /\ sinceShift' = 0 /\ otherKey' = (shiftDown' # -1)

EatenKept(k, outcome) ==   \* mutant: only eaten presses touch the table
    IF outcome = "eaten" THEN eaten \union {k} ELSE eaten

\* OnKeyDown: a press that is not eaten takes a leftover flag away, one that
\* the host gets as well leaves the table alone.
EatenAfter(k, outcome) ==
    CASE outcome = "eaten"   -> eaten \union {k}
      [] outcome = "refused" -> eaten \ {k}
      [] OTHER               -> eaten

\* What became of all key-downs of a press: unheard ones were refused by
\* OnTestKeyDown and OnKeyDown never came.
DownsOf(k, outcome) ==
    CASE outcome = "eaten"              -> "eaten"
      [] held[k] \in {"up", outcome} /\ outcome # "handed" -> outcome
      [] OTHER                          -> "mixed"

CanGoDown(k) == held[k] # "up" \/ k = "shift" \/ Cardinality({j \in Pressed \ {"shift"} : held[j] # "up"}) < MaxHeld

\* A refused key may never reach OnKeyDown.
Outcome(action, called) ==
    IF action = "Pass" THEN IF called THEN "refused" ELSE "unheard"
    ELSE IF Handed(action) THEN "handed" ELSE "eaten"

Records(k, outcome) ==
    /\ eaten' = EatenAfter(k, outcome)
    /\ held' = [held EXCEPT ![k] = DownsOf(k, outcome)]
    /\ lost' = IF outcome = "unheard" THEN lost ELSE lost \ {k}

\* OnTestKeyDown, then OnKeyDown: some hosts leave it out for a refused key.
Press(k, m) ==
    /\ CanGoDown(k)
    /\ \E read, called, article \in BOOLEAN :
        LET action == Classify(k, m, Latin(ScopeRead(k, read)), article)
        IN  /\ article => k = "hyphen"
            /\ scope' = ScopeRead(k, read) /\ Execute(action, k, read)
            /\ arabic' = (IF action = "Toggle" THEN ~arabic ELSE arabic)
            /\ Records(k, Outcome(action, called))
    /\ ShiftTapDown(k)
    /\ UNCHANGED <<focused, shiftToggles>>

\* shift_tap of a key-up, on a clock that wraps around.
ShiftTapUp(k) ==
    k = "shift" /\ shiftToggles /\ shiftDown # -1 /\ (now - shiftDown) % Wrap <= SHIFT_TAP

\* The toggle outside the routing table commits first, too.
Toggled == arabic' = ~arabic /\ IF letters > 0 THEN Commits({"word"}) ELSE UNCHANGED <<word, anchor>>

\* OnTestKeyUp, then OnKeyUp, which takes the flag.
Swallowed(k) == k \in eaten

Release(k) ==
    /\ held[k] # "up" /\ held' = [held EXCEPT ![k] = "up"]
    /\ eaten' = eaten \ {k} /\ lost' = lost \ {k}
    /\ IF ShiftTapUp(k) THEN Toggled ELSE UNCHANGED <<arabic, word, anchor>>
    /\ IF k = "shift" THEN shiftDown' = -1 /\ now' = 0 /\ sinceShift' = 0
       ELSE UNCHANGED <<shiftDown, now, sinceShift>>
    /\ UNCHANGED <<focused, scope, shiftToggles, otherKey>>

\* A key released where no key sink sees it.
LoseUp(k) ==
    /\ held[k] # "up" /\ held' = [held EXCEPT ![k] = "up"]
    /\ Cardinality(lost \union {k}) <= MaxLost /\ lost' = lost \union {k}
    /\ UNCHANGED <<arabic, focused, word, anchor, scope, eaten, tap>>

\* OnPreservedKey: the toggle chord when TSF delivers it.
PreservedKey == Toggled /\ UNCHANGED <<focused, scope, keyUps, tap>>

\* A click on a row of the list.
ClickRow ==
    /\ letters > 0 /\ ~editor /\ Commits({"space", "word"})
    /\ UNCHANGED <<arabic, focused, scope, keyUps, tap>>

Forget == eaten' = {} /\ held' = [k \in Pressed |-> IF held[k] = "eaten" THEN "mixed" ELSE held[k]]

\* Another field of the same context: OnEndEdit ends the word.
ClickWithin(f) ==
    /\ f # focused /\ Context[f] = Context[focused] /\ focused' = f /\ EndWord
    /\ UNCHANGED <<arabic, compCtx, wordScope, anchor, scope, keyUps, tap>>

\* A field of another document: OnSetFocus.
SetFocus(f) ==
    /\ Context[f] # Context[focused] /\ focused' = f /\ EndWord /\ anchor' = "none" /\ Forget
    /\ UNCHANGED <<arabic, compCtx, wordScope, scope, lost, tap>>

\* A field of another context of the same document: nobody is told.
SlipTo(f) ==
    /\ Context[f] # Context[focused] /\ focused' = f
    /\ UNCHANGED <<arabic, word, anchor, scope, keyUps, tap>>

KillThreadFocus == Forget /\ UNCHANGED <<arabic, focused, word, anchor, scope, lost, tap>>

\* Time goes by; Shift is not armed for a whole turn of the clock (49 days).
Tick ==
    /\ shiftDown # -1 /\ sinceShift < Wrap - 1
    /\ now' = (now + 1) % Wrap /\ sinceShift' = sinceShift + 1
    /\ UNCHANGED <<arabic, focused, word, anchor, scope, keyUps, shiftToggles, shiftDown, otherKey>>

Init ==
    /\ arabic = TRUE /\ focused = (CHOOSE f \in Field : TRUE) /\ letters = 0 /\ editor = FALSE
    /\ compCtx = Context[focused] /\ wordScope = "none"
    /\ anchor = "none" /\ scope = [ctx |-> "none", class |-> "Normal"]
    /\ eaten = {} /\ held = [k \in Pressed |-> "up"] /\ lost = {}
    /\ shiftToggles \in BOOLEAN /\ now = 0 /\ shiftDown = -1 /\ sinceShift = 0 /\ otherKey = FALSE

Next ==
    \/ \E k \in Pressed : Release(k) \/ LoseUp(k) \/ \E m \in {"none", "shift", "command"} : Press(k, m)
    \/ PreservedKey \/ ClickRow \/ KillThreadFocus \/ Tick
    \/ \E f \in Field : ClickWithin(f) \/ SetFocus(f) \/ SlipTo(f)

Spec == Init /\ [][Next]_vars

-----------------------------------------------------------------------------
(* Properties.                                                             *)

\* A key-up goes where its key-downs went ("eat the matching key-up; pass all
\* other key-ups", docs/02-tsf-integration.md 5.1): it is swallowed when the
\* last key-down was eaten, and passed when all of them were refused, although
\* an earlier key-up may have been lost, fields change and keys repeat.  Hosts
\* that leave OnKeyDown out for a refused key get this unless one was lost.
UpsMatchDowns ==
    \A k \in Pressed :
        /\ held[k] = "eaten" => Swallowed(k)
        /\ held[k] = "refused" \/ (held[k] = "unheard" /\ k \notin lost) => ~Swallowed(k)

\* Shift toggles only when tapped: with no other key since and within the
\* limit, through auto-repeat, lost key-ups and a clock that wraps.
OnlyTapsToggle ==
    ShiftTapUp("shift") => sinceShift <= SHIFT_TAP /\ ~otherKey

\* A word is composed and learned only where the field it was begun in allows
\* it, whichever field was read before and wherever the focus slipped since; a
\* field whose scopes could not be read counts as a normal one.
ScopesRespected ==
    letters > 0 => /\ wordScope # "Latin"
                   /\ Learns => wordScope \in {"Normal", "refused"}

=============================================================================
