-------------------------- MODULE Keyboard_proofs --------------------------
(***************************************************************************)
(* Theorems about Keyboard: key-ups go where their key-downs went, and a   *)
(* word is typed and learned only where its field allows it, for any keys, *)
(* fields and contexts; only a tap of Shift toggles, for any clock.        *)
(***************************************************************************)
EXTENDS Keyboard, TLAPS

-----------------------------------------------------------------------------
(* The table of eaten keys.                                                *)

\* The table has a flag for a released key only when a key-up was lost.
EatenInv ==
    /\ held \in [Pressed -> {"up", "eaten", "refused", "unheard", "mixed"}]
    /\ UpsMatchDowns
    /\ \A k \in Pressed : held[k] = "up" /\ k \notin lost => ~Swallowed(k)

\* What a key-down leaves of a press is one of the outcomes.
LEMMA DownsType ==
    ASSUME NEW k \in Pressed, NEW outcome \in {"eaten", "refused", "unheard", "handed"}
    PROVE  DownsOf(k, outcome) \in {"eaten", "refused", "unheard", "mixed"}
BY DEF DownsOf

\* A key-down, eaten or not, leaves the table and the history in step.
LEMMA PressKeeps ==
    ASSUME EatenInv, NEW k \in Pressed, NEW m, Press(k, m)
    PROVE  EatenInv'
<1>1. PICK outcome \in {"eaten", "refused", "unheard", "handed"} : Records(k, outcome)
  <2>1. \E action : \E called \in BOOLEAN : Records(k, Outcome(action, called))
    BY DEF Press
  <2>p. PICK action : \E called \in BOOLEAN : Records(k, Outcome(action, called))
    BY <2>1
  <2>2. \A called \in BOOLEAN : Outcome(action, called) \in {"eaten", "refused", "unheard", "handed"}
    BY DEF Outcome
  <2> QED BY <2>p, <2>2
<1>a. /\ eaten' = EatenAfter(k, outcome)
      /\ held' = [held EXCEPT ![k] = DownsOf(k, outcome)]
      /\ lost' = IF outcome = "unheard" THEN lost ELSE lost \ {k}
  BY <1>1 DEF Records
<1>2. held' \in [Pressed -> {"up", "eaten", "refused", "unheard", "mixed"}]
  BY <1>a, DownsType DEF EatenInv
<1>3. ASSUME NEW j \in Pressed \ {k} PROVE held'[j] = held[j] /\ (j \in eaten' <=> j \in eaten) /\ (j \in lost' <=> j \in lost)
  BY <1>a DEF EatenInv, EatenAfter
<1>4. /\ held'[k] = "eaten" => k \in eaten'
      /\ held'[k] = "refused" \/ (held'[k] = "unheard" /\ k \notin lost') => k \notin eaten'
      /\ held'[k] # "up"
  BY <1>a DEF EatenInv, UpsMatchDowns, Swallowed, EatenAfter, DownsOf
<1> QED BY <1>2, <1>3, <1>4 DEF EatenInv, UpsMatchDowns, Swallowed

\* ... and so does every other step.
LEMMA EatenStep == EatenInv /\ [Next]_vars => EatenInv'
<1> SUFFICES ASSUME EatenInv, [Next]_vars PROVE EatenInv'
  OBVIOUS
<1> USE DEF EatenInv, UpsMatchDowns, Swallowed
<1>1. ASSUME NEW k \in Pressed, Release(k) PROVE EatenInv'
  BY <1>1 DEF Release
<1>2. ASSUME NEW k \in Pressed, LoseUp(k) PROVE EatenInv'
  BY <1>2 DEF LoseUp
<1>3. ASSUME NEW k \in Pressed, NEW m, Press(k, m) PROVE EatenInv'
  BY <1>3, PressKeeps
<1>4. CASE PreservedKey \/ ClickRow \/ Tick \/ UNCHANGED vars
  BY <1>4 DEF PreservedKey, ClickRow, Tick, vars, keyUps
<1>5. CASE KillThreadFocus
  BY <1>5 DEF KillThreadFocus, Forget
<1>6. ASSUME NEW f \in Field, ClickWithin(f) \/ SlipTo(f) PROVE EatenInv'
  BY <1>6 DEF ClickWithin, SlipTo, keyUps
<1>7. ASSUME NEW f \in Field, SetFocus(f) PROVE EatenInv'
  BY <1>7 DEF SetFocus, Forget
<1> QED BY <1>1, <1>2, <1>3, <1>4, <1>5, <1>6, <1>7 DEF Next

\* A key-up is swallowed when the last key-down was, and passed when all were,
\* whatever keys repeat, whichever fields change and however many key-ups are
\* lost (the flags of `eaten`, OnKeyDown and OnKeyUp).
THEOREM UpsFollowDowns == Spec => []UpsMatchDowns
<1>1. Init => EatenInv
  BY DEF Init, EatenInv, UpsMatchDowns, Swallowed
<1>2. EatenInv => UpsMatchDowns
  BY DEF EatenInv
<1> QED BY <1>1, <1>2, EatenStep, PTL DEF Spec

-----------------------------------------------------------------------------
(* Scopes.                                                                 *)

\* The scope read last is never more lenient than the one of the word, nor than
\* that of the committed word which Backspace would open again.
ScopeInv ==
    letters # 0 \/ anchor # "none" =>
        /\ wordScope # "Latin"
        /\ Learns => wordScope \in {"Normal", "refused"}

\* Outside a word a key begins one only where the mode is Arabic, and Backspace
\* opens one again only for an anchor.
LEMMA IdleRoutes ==
    ASSUME ~Composing, NEW k, NEW m, NEW latin \in BOOLEAN, NEW article \in BOOLEAN
    PROVE  /\ Classify(k, m, latin, article) \in {"Append", "Insert", "ReEdit", "Pass", "Toggle"}
           /\ Classify(k, m, latin, article) = "Append" => k \in Chars /\ ~latin /\ focused \notin Off
           /\ Classify(k, m, latin, article) = "ReEdit" => k = "backspace" /\ anchor # "none"
<1>1. /\ Idle(k, m) \in {"Append", "Insert", "ReEdit", "Pass"}
      /\ Idle(k, m) = "Append" => k \in Chars
      /\ Idle(k, m) = "ReEdit" => k = "backspace" /\ anchor # "none"
  BY DEF Idle, Chars
<1>2. InLatin(k, m) \in {"Insert", "Pass"}
  BY DEF InLatin
<1> QED BY <1>1, <1>2 DEF Classify

\* A key-down keeps it: a word can only begin with a key that reads the scope.
LEMMA PressKeepsScope ==
    ASSUME ScopeInv, NEW k, NEW m, Press(k, m)
    PROVE  ScopeInv'
<1>1. PICK read \in BOOLEAN, article \in BOOLEAN :
          /\ scope' = ScopeRead(k, read)
          /\ Execute(Classify(k, m, Latin(ScopeRead(k, read)), article), k, read)
  BY DEF Press
<1> DEFINE sc == ScopeRead(k, read)
           action == Classify(k, m, Latin(sc), article)
<1>a. Execute(action, k, read) /\ scope' = sc
  BY <1>1
<1>b. Latin(sc) \in BOOLEAN
  BY DEF Latin
<1>2. CASE Composing
  <2>1. scope' = scope /\ letters # 0
    BY <1>a, <1>2 DEF ScopeRead, Composing
  <2> HIDE DEF action
  <2>2. wordScope' = wordScope
    BY <1>a, <1>2 DEF Execute, Commits, Leaves, word
  <2> QED BY <2>1, <2>2 DEF ScopeInv, Learns
<1>3. CASE ~Composing
  <2>r. /\ action \in {"Append", "Insert", "ReEdit", "Pass", "Toggle"}
        /\ action = "Append" => k \in Chars /\ ~Latin(sc) /\ focused \notin Off
        /\ action = "ReEdit" => k = "backspace" /\ anchor # "none"
    BY <1>3, <1>b, IdleRoutes
  <2> HIDE DEF action
  <2>1. CASE action = "Append"
    <3>1. scope' = [ctx |-> Context[focused], class |-> IF read THEN Scope[focused] ELSE "Normal"]
      BY <1>a, <1>3, <2>1, <2>r DEF ScopeRead
    <3>2. scope'.class # "Latin"
      BY <1>a, <2>1, <2>r, <3>1 DEF Latin
    <3>3. wordScope' = IF read THEN Scope[focused] ELSE "refused"
      BY <1>a, <1>3, <2>1 DEF Execute
    <3> QED BY <3>1, <3>2, <3>3 DEF ScopeInv, Learns
  <2>2. CASE action = "ReEdit"
    <3>1. k = "backspace" /\ anchor # "none" /\ scope' = scope
      BY <1>a, <2>2, <2>r DEF ScopeRead, Chars
    <3>2. wordScope' = wordScope
      BY <1>a, <2>2 DEF Execute, word
    <3> QED BY <3>1, <3>2 DEF ScopeInv, Learns
  <2>3. CASE action \in {"Insert", "Pass", "Toggle"}
    <3>1. letters' = 0 /\ wordScope' = wordScope /\ anchor' = (IF k \in Modifiers THEN anchor ELSE "none")
      BY <1>a, <1>3, <2>3 DEF Execute, Alive, Leaves, KeepsAnchor
    <3>2. k \in Modifiers => scope' = scope
      BY <1>a DEF ScopeRead, Modifiers, Chars
    <3> QED BY <3>1, <3>2 DEF ScopeInv, Learns
  <2> QED BY <2>r, <2>1, <2>2, <2>3
<1> QED BY <1>2, <1>3

\* ... and so does every other step.
LEMMA ScopeStep == ScopeInv /\ [Next]_vars => ScopeInv'
<1> SUFFICES ASSUME ScopeInv, [Next]_vars PROVE ScopeInv'
  OBVIOUS
<1> USE DEF ScopeInv, Learns
<1>1. ASSUME NEW k \in Pressed, NEW m \in Mods, Press(k, m) PROVE ScopeInv'
  BY <1>1, PressKeepsScope
<1>2. ASSUME NEW k \in Pressed, Release(k) PROVE ScopeInv'
  BY <1>2 DEF Release, Toggled, Commits, EndWord, word
<1>3. ASSUME NEW k \in Pressed, LoseUp(k) PROVE ScopeInv'
  BY <1>3 DEF LoseUp, word
<1>4. CASE PreservedKey
  BY <1>4 DEF PreservedKey, Toggled, Commits, EndWord, word
<1>5. CASE ClickRow
  BY <1>5 DEF ClickRow, Commits, EndWord
<1>6. CASE KillThreadFocus \/ Tick \/ UNCHANGED vars
  BY <1>6 DEF KillThreadFocus, Tick, vars, word
<1>7. ASSUME NEW f \in Field, ClickWithin(f) \/ SetFocus(f) \/ SlipTo(f) PROVE ScopeInv'
  BY <1>7 DEF ClickWithin, SetFocus, SlipTo, EndWord, word
<1> QED BY <1>1, <1>2, <1>3, <1>4, <1>5, <1>6, <1>7 DEF Next, Mods

\* A word is composed and learned only where the field it was begun in allows
\* it, for any fields and contexts, wherever the focus slips without notice and
\* whichever word Backspace opens again (`decide`, `commit`).
THEOREM WordsRespectScopes == Spec => []ScopesRespected
<1>1. Init => ScopeInv
  BY DEF Init, ScopeInv
<1>2. ScopeInv => ScopesRespected
  BY DEF ScopeInv, ScopesRespected
<1> QED BY <1>1, <1>2, ScopeStep, PTL DEF Spec

-----------------------------------------------------------------------------
(* Shift taps.                                                             *)

\* The clock is ahead of the time in shift_down by the ticks since, once around
\* the clock or not, and no other key came while Shift is armed.
TapInv ==
    shiftDown # -1 =>
        /\ shiftDown \in 0..(Wrap - 1) /\ sinceShift \in 0..(Wrap - 1)
        /\ now \in 0..(Wrap - 1)
        /\ now = shiftDown + sinceShift \/ now = shiftDown + sinceShift - Wrap
        /\ otherKey = FALSE

\* What % yields just inside, at and just below the clock's turn.
LEMMA ModWrap ==
    ASSUME Wrap \in Nat \ {0}, NEW a \in 0..(Wrap - 1)
    PROVE  a % Wrap = a /\ (a - Wrap) % Wrap = a /\ Wrap % Wrap = 0
<1>1. a % Wrap = a
  OBVIOUS
<1>2. (a - Wrap) % Wrap = a
  OBVIOUS
<1>3. Wrap % Wrap = 0
  OBVIOUS
<1> QED BY <1>1, <1>2, <1>3

\* Every step keeps the clock and the tap together.
LEMMA TapStep ==
    ASSUME Wrap \in Nat \ {0}
    PROVE  TapInv /\ [Next]_vars => TapInv'
<1> SUFFICES ASSUME TapInv, [Next]_vars PROVE TapInv'
  OBVIOUS
<1> USE DEF TapInv
<1>1. CASE UNCHANGED tap
  BY <1>1 DEF tap
<1>2. ASSUME NEW k \in Pressed, NEW m, Press(k, m) PROVE TapInv'
  <2>1. ShiftTapDown(k)
    BY <1>2 DEF Press
  <2>2. CASE k = "shift" /\ shiftDown = -1
    BY <2>1, <2>2 DEF ShiftTapDown
  <2>3. CASE ~(k = "shift" /\ shiftDown = -1)
    BY <2>1, <2>3 DEF ShiftTapDown
  <2> QED BY <2>2, <2>3
<1>3. ASSUME NEW k \in Pressed, Release(k) PROVE TapInv'
  BY <1>3 DEF Release
<1>4. CASE Tick
  <2>1. /\ shiftDown # -1 /\ shiftDown' = shiftDown /\ otherKey' = otherKey
        /\ now' = (now + 1) % Wrap /\ sinceShift' = sinceShift + 1 /\ sinceShift < Wrap - 1
    BY <1>4 DEF Tick
  <2>2. CASE now + 1 < Wrap
    <3>1. now' = now + 1
      BY <2>1, <2>2, ModWrap
    <3> QED BY <2>1, <3>1
  <2>3. CASE now + 1 = Wrap
    <3>1. now' = 0
      BY <2>1, <2>3, ModWrap
    <3> QED BY <2>1, <2>3, <3>1
  <2> QED BY <2>1, <2>2, <2>3
<1>5. ASSUME NEW k \in Pressed, LoseUp(k) PROVE UNCHANGED tap
  BY <1>5 DEF LoseUp
<1>6. PreservedKey \/ ClickRow \/ KillThreadFocus \/ UNCHANGED vars => UNCHANGED tap
  BY DEF PreservedKey, ClickRow, KillThreadFocus, vars
<1>7. ASSUME NEW f \in Field, ClickWithin(f) \/ SetFocus(f) \/ SlipTo(f) PROVE UNCHANGED tap
  BY <1>7 DEF ClickWithin, SetFocus, SlipTo
<1> QED BY <1>1, <1>2, <1>3, <1>4, <1>5, <1>6, <1>7 DEF Next

\* Shift toggles only when tapped within the limit and with no other key since,
\* for any limit and any clock, wherever it wraps (track_shift_tap, shift_tap),
\* while Shift is armed for less than a turn of it.
THEOREM ShiftTogglesWhenTapped ==
    ASSUME Wrap \in Nat \ {0}
    PROVE  Spec => []OnlyTapsToggle
<1>1. Init => TapInv
  BY DEF Init, TapInv
<1>2. TapInv => OnlyTapsToggle
  <2> SUFFICES ASSUME TapInv, ShiftTapUp("shift") PROVE sinceShift <= SHIFT_TAP /\ ~otherKey
    BY DEF OnlyTapsToggle
  <2>1. shiftDown # -1 /\ (now - shiftDown) % Wrap <= SHIFT_TAP
    BY DEF ShiftTapUp
  <2>2. (now - shiftDown) % Wrap = sinceShift
    <3>1. now - shiftDown = sinceShift \/ now - shiftDown = sinceShift - Wrap
      BY <2>1 DEF TapInv
    <3> QED BY <2>1, <3>1, ModWrap DEF TapInv
  <2> QED BY <2>1, <2>2 DEF TapInv
<1> QED BY <1>1, <1>2, TapStep, PTL DEF Spec
=============================================================================
