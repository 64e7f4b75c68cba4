---------------------------- MODULE Parts_proofs ----------------------------
(***************************************************************************)
(* Theorems about the machines of MC_Parts.  A behaviour belongs to one of *)
(* them and is a behaviour of that machine, so it has what the machine's   *)
(* own theorems promise for every value of its constants (Keyboard_proofs, *)
(* Relayout_proofs, Settings_proofs, Layouts_proofs, Popup_proofs).  The   *)
(* shortcuts, the service's life and the typing session are proved here,   *)
(* for any spellings, documents, activations, readings and phrases.        *)
(***************************************************************************)
EXTENDS MC_Parts, WellFoundedInduction, TLAPS

KeyedP == INSTANCE Keyboard_proofs WITH
    Pressed <- TapKey, Field <- TapField, Context <- [f \in TapField |-> "c1"],
    Scope <- [f \in TapField |-> "Normal"], MaxLetters <- 1, anchor <- anchored

FieldsP == INSTANCE Keyboard_proofs WITH
    Pressed <- WordKey, Context <- FieldContext, Scope <- FieldScope, MaxLost <- 0,
    anchor <- anchored

FollowP == INSTANCE Relayout_proofs WITH
    Place <- Spot, MaxQueue <- MaxSessions, editor <- editorOpen

SavedP == INSTANCE Settings_proofs WITH file <- config

TidyP == INSTANCE Layouts_proofs

WindowP == INSTANCE Popup_proofs WITH
    Letters <- LettersUp, composing <- typing, page <- pageShown, editor <- editorUp

\* A behaviour of one machine stays one.
LEMMA PartStays ==
    ASSUME [PartsNext]_partsVars
    PROVE  part' = part
BY DEF PartsNext, partsVars

-----------------------------------------------------------------------------
(* A letter and Shift: the press of a key first, then the machine.         *)

\* classify ...
LEMMA KeyedClass ==
    ASSUME NEW k, NEW m, NEW l, NEW a
    PROVE Keyed!Classify(k, m, l, a) = KeyedP!Classify(k, m, l, a)
<1>1. Keyed!InEditor(k, m) = KeyedP!InEditor(k, m)
  BY DEF Keyed!InEditor, KeyedP!InEditor
<1>2. Keyed!InWord(k, m, a) = KeyedP!InWord(k, m, a)
  BY DEF Keyed!InWord, KeyedP!InWord
<1>3. Keyed!Idle(k, m) = KeyedP!Idle(k, m)
  BY DEF Keyed!Idle, KeyedP!Idle
<1> QED BY <1>1, <1>2, <1>3 DEF
       Keyed!Chars, Keyed!Modifiers, Keyed!InLatin, Keyed!Composing, Keyed!Classify, KeyedP!Chars,
       KeyedP!Modifiers, KeyedP!InLatin, KeyedP!Composing, KeyedP!Classify

\* ... the scope that decide reads ...
LEMMA KeyedScope ==
    ASSUME NEW k, NEW read
    PROVE Keyed!ScopeRead(k, read) = KeyedP!ScopeRead(k, read)
BY DEF
       Keyed!Chars, Keyed!Composing, Keyed!ScopeRead, KeyedP!Chars, KeyedP!Composing,
       KeyedP!ScopeRead

\* ... and whether it is a Latin one ...
LEMMA KeyedLatin ==
    ASSUME NEW sc
    PROVE Keyed!Latin(sc) <=> KeyedP!Latin(sc)
BY DEF Keyed!Latin, KeyedP!Latin

\* ... execute ...
LEMMA KeyedExecute ==
    ASSUME NEW a, NEW k, NEW r
    PROVE Keyed!Execute(a, k, r) <=> KeyedP!Execute(a, k, r)
BY DEF
       Keyed!word, Keyed!Modifiers, Keyed!Composing, Keyed!EndWord, Keyed!Commits,
       Keyed!KeepsAnchor, Keyed!Leaves, Keyed!Alive, Keyed!Execute, KeyedP!word, KeyedP!Modifiers,
       KeyedP!Composing, KeyedP!EndWord, KeyedP!Commits, KeyedP!KeepsAnchor, KeyedP!Leaves,
       KeyedP!Alive, KeyedP!Execute

\* ... and what is recorded of the press are the same: so is the key event.
LEMMA KeyedRecords ==
    ASSUME NEW a, NEW c, NEW k
    PROVE Keyed!Records(k, Keyed!Outcome(a, c)) <=> KeyedP!Records(k, KeyedP!Outcome(a, c))
BY DEF
       Keyed!Handed, Keyed!EatenAfter, Keyed!DownsOf, Keyed!Outcome, Keyed!Records, KeyedP!Handed,
       KeyedP!EatenAfter, KeyedP!DownsOf, KeyedP!Outcome, KeyedP!Records

\* A press of a key in this part is one of Keyboard.
LEMMA KeyedPress ==
    ASSUME NEW k, NEW m, Keyed!Press(k, m)
    PROVE KeyedP!Press(k, m)
<1>1. Keyed!CanGoDown(k) <=> KeyedP!CanGoDown(k)
  BY DEF Keyed!CanGoDown, KeyedP!CanGoDown, Keyed!Cardinality, KeyedP!Cardinality
<1>2. Keyed!ShiftTapDown(k) <=> KeyedP!ShiftTapDown(k)
  BY DEF Keyed!ShiftTapDown, KeyedP!ShiftTapDown
<1>3. PICK read, called, article \in BOOLEAN :
        LET action == Keyed!Classify(k, m, Keyed!Latin(Keyed!ScopeRead(k, read)), article)
        IN  /\ article => k = "hyphen"
            /\ scope' = Keyed!ScopeRead(k, read) /\ Keyed!Execute(action, k, read)
            /\ arabic' = (IF action = "Toggle" THEN ~arabic ELSE arabic)
            /\ Keyed!Records(k, Keyed!Outcome(action, called))
  BY DEF Keyed!Press
<1> DEFINE action == Keyed!Classify(k, m, Keyed!Latin(Keyed!ScopeRead(k, read)), article)
<1>4. action = KeyedP!Classify(k, m, KeyedP!Latin(KeyedP!ScopeRead(k, read)), article)
  <2>1. Keyed!ScopeRead(k, read) = KeyedP!ScopeRead(k, read)
    BY KeyedScope
  <2>2. Keyed!Latin(KeyedP!ScopeRead(k, read)) = KeyedP!Latin(KeyedP!ScopeRead(k, read))
    BY DEF Keyed!Latin, KeyedP!Latin
  <2>3. action = KeyedP!Classify(k, m, Keyed!Latin(Keyed!ScopeRead(k, read)), article)
    BY KeyedClass
  <2> QED BY <2>1, <2>2, <2>3
<1>5. /\ article => k = "hyphen"
      /\ scope' = Keyed!ScopeRead(k, read) /\ Keyed!Execute(action, k, read)
      /\ arabic' = (IF action = "Toggle" THEN ~arabic ELSE arabic)
      /\ Keyed!Records(k, Keyed!Outcome(action, called))
  BY <1>3
<1> HIDE DEF action
<1>6. /\ scope' = KeyedP!ScopeRead(k, read) /\ KeyedP!Execute(action, k, read)
      /\ KeyedP!Records(k, KeyedP!Outcome(action, called))
  BY <1>5, KeyedScope, KeyedExecute, KeyedRecords
<1>7. Keyed!CanGoDown(k) /\ Keyed!ShiftTapDown(k) /\ UNCHANGED <<focused, shiftToggles>>
  BY DEF Keyed!Press
<1> QED BY <1>1, <1>2, <1>4, <1>5, <1>6, <1>7 DEF KeyedP!Press

\* The part "keys" begins as Keyboard does ...
LEMMA KeyedInit == PartsInit /\ part = "keys" => KeyedP!Init
BY DEF PartsInit,
       Keyed!Init, KeyedP!Init

\* ... steps as Keyboard does ...
LEMMA KeyedStep ==
    ASSUME [PartsNext]_partsVars, part = "keys"
    PROVE  [KeyedP!Next]_KeyedP!vars
<1>1. Keyed!Next \/ UNCHANGED keyboardVars
  BY DEF PartsNext, partsVars
<1>2. Keyed!Next => KeyedP!Next
  BY KeyedPress DEF
       Keyed!word, Keyed!keyUps, Keyed!tap, Keyed!EndWord, Keyed!Commits, Keyed!ShiftTapUp,
       Keyed!Toggled, Keyed!Release, Keyed!LoseUp, Keyed!PreservedKey, Keyed!ClickRow,
       Keyed!Forget, Keyed!ClickWithin, Keyed!SetFocus, Keyed!SlipTo, Keyed!KillThreadFocus,
       Keyed!Tick, Keyed!Next, KeyedP!word, KeyedP!keyUps, KeyedP!tap, KeyedP!EndWord,
       KeyedP!Commits, KeyedP!ShiftTapUp, KeyedP!Toggled, KeyedP!Release, KeyedP!LoseUp,
       KeyedP!PreservedKey, KeyedP!ClickRow, KeyedP!Forget, KeyedP!ClickWithin, KeyedP!SetFocus,
       KeyedP!SlipTo, KeyedP!KillThreadFocus, KeyedP!Tick, KeyedP!Next, Keyed!Cardinality,
       KeyedP!Cardinality
<1>3. UNCHANGED keyboardVars => UNCHANGED KeyedP!vars
  BY DEF keyboardVars,
       KeyedP!word, KeyedP!keyUps, KeyedP!tap, KeyedP!vars
<1> QED BY <1>1, <1>2, <1>3

\* ... and so behaves as Keyboard, in every behaviour that belongs to it.
LEMMA KeyedBehaves == PartsSpec => []~(part = "keys") \/ KeyedP!Spec
<1>1. PartsInit /\ part = "keys" => KeyedP!Init
  BY KeyedInit
<1>2. part = "keys" /\ [PartsNext]_partsVars => [KeyedP!Next]_KeyedP!vars
  BY KeyedStep
<1>3. part = "keys" /\ [PartsNext]_partsVars => (part = "keys")'
  BY PartStays
<1>4. ~(part = "keys") /\ [PartsNext]_partsVars => (~(part = "keys"))'
  BY PartStays
<1> QED BY <1>1, <1>2, <1>3, <1>4, PTL DEF PartsSpec, KeyedP!Spec

\* A key-up is swallowed when the last key-down was and passed when all were, through
\* repeats, lost key-ups and focus changes (OnTestKeyUp, OnKeyUp).
THEOREM KeyUpsFollow == PartsSpec => []UpsMatchDowns
<1>1. KeyedP!Spec => []KeyedP!UpsMatchDowns
  BY KeyedP!UpsFollowDowns
<1>2. KeyedP!UpsMatchDowns => UpsMatchDowns
  BY DEF UpsMatchDowns,
       Keyed!Swallowed, Keyed!UpsMatchDowns, KeyedP!Swallowed, KeyedP!UpsMatchDowns
<1>3. ~(part = "keys") => UpsMatchDowns
  BY DEF UpsMatchDowns
<1> QED BY <1>1, <1>2, <1>3, KeyedBehaves, PTL

\* Shift toggles within the limit and with no other key since only (shift_tap), also
\* where the clock wraps.
THEOREM OnlyTapsOfShiftToggle ==
    ASSUME Wrap \in Nat \ {0}
    PROVE  PartsSpec => []OnlyTapsToggle
<1>1. KeyedP!Spec => []KeyedP!OnlyTapsToggle
  BY KeyedP!ShiftTogglesWhenTapped
<1>2. KeyedP!OnlyTapsToggle => OnlyTapsToggle
  BY DEF OnlyTapsToggle,
       Keyed!ShiftTapUp, Keyed!OnlyTapsToggle, KeyedP!ShiftTapUp, KeyedP!OnlyTapsToggle
<1>3. ~(part = "keys") => OnlyTapsToggle
  BY DEF OnlyTapsToggle
<1> QED BY <1>1, <1>2, <1>3, KeyedBehaves, PTL

-----------------------------------------------------------------------------
(* The keys that begin, end and re-open words, in fields of every scope.   *)

\* classify ...
LEMMA FieldsClass ==
    ASSUME NEW k, NEW m, NEW l, NEW a
    PROVE Fields!Classify(k, m, l, a) = FieldsP!Classify(k, m, l, a)
<1>1. Fields!InEditor(k, m) = FieldsP!InEditor(k, m)
  BY DEF Fields!InEditor, FieldsP!InEditor
<1>2. Fields!InWord(k, m, a) = FieldsP!InWord(k, m, a)
  BY DEF Fields!InWord, FieldsP!InWord
<1>3. Fields!Idle(k, m) = FieldsP!Idle(k, m)
  BY DEF Fields!Idle, FieldsP!Idle
<1> QED BY <1>1, <1>2, <1>3 DEF
       Fields!Chars, Fields!Modifiers, Fields!InLatin, Fields!Composing, Fields!Classify,
       FieldsP!Chars, FieldsP!Modifiers, FieldsP!InLatin, FieldsP!Composing, FieldsP!Classify

\* ... the scope that decide reads ...
LEMMA FieldsScope ==
    ASSUME NEW k, NEW read
    PROVE Fields!ScopeRead(k, read) = FieldsP!ScopeRead(k, read)
BY DEF
       Fields!Chars, Fields!Composing, Fields!ScopeRead, FieldsP!Chars, FieldsP!Composing,
       FieldsP!ScopeRead

\* ... and whether it is a Latin one ...
LEMMA FieldsLatin ==
    ASSUME NEW sc
    PROVE Fields!Latin(sc) <=> FieldsP!Latin(sc)
BY DEF Fields!Latin, FieldsP!Latin

\* ... execute ...
LEMMA FieldsExecute ==
    ASSUME NEW a, NEW k, NEW r
    PROVE Fields!Execute(a, k, r) <=> FieldsP!Execute(a, k, r)
BY DEF
       Fields!word, Fields!Modifiers, Fields!Composing, Fields!EndWord, Fields!Commits,
       Fields!KeepsAnchor, Fields!Leaves, Fields!Alive, Fields!Execute, FieldsP!word,
       FieldsP!Modifiers, FieldsP!Composing, FieldsP!EndWord, FieldsP!Commits, FieldsP!KeepsAnchor,
       FieldsP!Leaves, FieldsP!Alive, FieldsP!Execute

\* ... and what is recorded of the press are the same: so is the key event.
LEMMA FieldsRecords ==
    ASSUME NEW a, NEW c, NEW k
    PROVE Fields!Records(k, Fields!Outcome(a, c)) <=> FieldsP!Records(k, FieldsP!Outcome(a, c))
BY DEF
       Fields!Handed, Fields!EatenAfter, Fields!DownsOf, Fields!Outcome, Fields!Records,
       FieldsP!Handed, FieldsP!EatenAfter, FieldsP!DownsOf, FieldsP!Outcome, FieldsP!Records

\* A press of a key in this part is one of Keyboard.
LEMMA FieldsPress ==
    ASSUME NEW k, NEW m, Fields!Press(k, m)
    PROVE FieldsP!Press(k, m)
<1>1. Fields!CanGoDown(k) <=> FieldsP!CanGoDown(k)
  BY DEF Fields!CanGoDown, FieldsP!CanGoDown, Fields!Cardinality, FieldsP!Cardinality
<1>2. Fields!ShiftTapDown(k) <=> FieldsP!ShiftTapDown(k)
  BY DEF Fields!ShiftTapDown, FieldsP!ShiftTapDown
<1>3. PICK read, called, article \in BOOLEAN :
        LET action == Fields!Classify(k, m, Fields!Latin(Fields!ScopeRead(k, read)), article)
        IN  /\ article => k = "hyphen"
            /\ scope' = Fields!ScopeRead(k, read) /\ Fields!Execute(action, k, read)
            /\ arabic' = (IF action = "Toggle" THEN ~arabic ELSE arabic)
            /\ Fields!Records(k, Fields!Outcome(action, called))
  BY DEF Fields!Press
<1> DEFINE action == Fields!Classify(k, m, Fields!Latin(Fields!ScopeRead(k, read)), article)
<1>4. action = FieldsP!Classify(k, m, FieldsP!Latin(FieldsP!ScopeRead(k, read)), article)
  <2>1. Fields!ScopeRead(k, read) = FieldsP!ScopeRead(k, read)
    BY FieldsScope
  <2>2. Fields!Latin(FieldsP!ScopeRead(k, read)) = FieldsP!Latin(FieldsP!ScopeRead(k, read))
    BY DEF Fields!Latin, FieldsP!Latin
  <2>3. action = FieldsP!Classify(k, m, Fields!Latin(Fields!ScopeRead(k, read)), article)
    BY FieldsClass
  <2> QED BY <2>1, <2>2, <2>3
<1>5. /\ article => k = "hyphen"
      /\ scope' = Fields!ScopeRead(k, read) /\ Fields!Execute(action, k, read)
      /\ arabic' = (IF action = "Toggle" THEN ~arabic ELSE arabic)
      /\ Fields!Records(k, Fields!Outcome(action, called))
  BY <1>3
<1> HIDE DEF action
<1>6. /\ scope' = FieldsP!ScopeRead(k, read) /\ FieldsP!Execute(action, k, read)
      /\ FieldsP!Records(k, FieldsP!Outcome(action, called))
  BY <1>5, FieldsScope, FieldsExecute, FieldsRecords
<1>7. Fields!CanGoDown(k) /\ Fields!ShiftTapDown(k) /\ UNCHANGED <<focused, shiftToggles>>
  BY DEF Fields!Press
<1> QED BY <1>1, <1>2, <1>4, <1>5, <1>6, <1>7 DEF FieldsP!Press

\* The part "fields" begins as Keyboard does ...
LEMMA FieldsInit == PartsInit /\ part = "fields" => FieldsP!Init
BY DEF PartsInit,
       Fields!Init, FieldsP!Init

\* ... steps as Keyboard does ...
LEMMA FieldsStep ==
    ASSUME [PartsNext]_partsVars, part = "fields"
    PROVE  [FieldsP!Next]_FieldsP!vars
<1>1. Fields!Next \/ UNCHANGED keyboardVars
  BY DEF PartsNext, partsVars
<1>2. Fields!Next => FieldsP!Next
  BY FieldsPress DEF
       Fields!word, Fields!keyUps, Fields!tap, Fields!EndWord, Fields!Commits, Fields!ShiftTapUp,
       Fields!Toggled, Fields!Release, Fields!LoseUp, Fields!PreservedKey, Fields!ClickRow,
       Fields!Forget, Fields!ClickWithin, Fields!SetFocus, Fields!SlipTo, Fields!KillThreadFocus,
       Fields!Tick, Fields!Next, FieldsP!word, FieldsP!keyUps, FieldsP!tap, FieldsP!EndWord,
       FieldsP!Commits, FieldsP!ShiftTapUp, FieldsP!Toggled, FieldsP!Release, FieldsP!LoseUp,
       FieldsP!PreservedKey, FieldsP!ClickRow, FieldsP!Forget, FieldsP!ClickWithin,
       FieldsP!SetFocus, FieldsP!SlipTo, FieldsP!KillThreadFocus, FieldsP!Tick, FieldsP!Next,
       Fields!Cardinality, FieldsP!Cardinality
<1>3. UNCHANGED keyboardVars => UNCHANGED FieldsP!vars
  BY DEF keyboardVars,
       FieldsP!word, FieldsP!keyUps, FieldsP!tap, FieldsP!vars
<1> QED BY <1>1, <1>2, <1>3

\* ... and so behaves as Keyboard, in every behaviour that belongs to it.
LEMMA FieldsBehaves == PartsSpec => []~(part = "fields") \/ FieldsP!Spec
<1>1. PartsInit /\ part = "fields" => FieldsP!Init
  BY FieldsInit
<1>2. part = "fields" /\ [PartsNext]_partsVars => [FieldsP!Next]_FieldsP!vars
  BY FieldsStep
<1>3. part = "fields" /\ [PartsNext]_partsVars => (part = "fields")'
  BY PartStays
<1>4. ~(part = "fields") /\ [PartsNext]_partsVars => (~(part = "fields"))'
  BY PartStays
<1> QED BY <1>1, <1>2, <1>3, <1>4, PTL DEF PartsSpec, FieldsP!Spec

\* A word is composed and learned only where the field it was begun in allows it
\* (decide, commit).
THEOREM FieldsRespectScopes == PartsSpec => []ScopesRespected
<1>1. FieldsP!Spec => []FieldsP!ScopesRespected
  BY FieldsP!WordsRespectScopes
<1>2. FieldsP!ScopesRespected => ScopesRespected
  BY DEF ScopesRespected,
       Fields!Latin, Fields!Learns, Fields!ScopesRespected, FieldsP!Latin, FieldsP!Learns,
       FieldsP!ScopesRespected
<1>3. ~(part = "fields") => ScopesRespected
  BY DEF ScopesRespected
<1> QED BY <1>1, <1>2, <1>3, FieldsBehaves, PTL

-----------------------------------------------------------------------------
(* Following the word.                                                     *)

\* The part "relayout" begins as Relayout does ...
LEMMA FollowInit == PartsInit /\ part = "relayout" => FollowP!Init
BY DEF PartsInit,
       Follow!Init, FollowP!Init

\* ... steps as Relayout does ...
LEMMA FollowStep ==
    ASSUME [PartsNext]_partsVars, part = "relayout"
    PROVE  [FollowP!Next]_FollowP!vars
<1>1. Follow!Next \/ UNCHANGED relayoutVars
  BY DEF PartsNext, partsVars
<1>2. Follow!Next => FollowP!Next
  BY DEF
       Follow!word, Follow!Answers, Follow!Chosen, Follow!Ask, Follow!DontAsk, Follow!Preview,
       Follow!Read, Follow!RunSession, Follow!Discard, Follow!Follows, Follow!OnLayoutChange,
       Follow!Turn, Follow!AppPosts, Follow!AppMoves, Follow!Pumped, Follow!Key, Follow!EndWord,
       Follow!ThreadFocus, Follow!Next, FollowP!word, FollowP!Answers, FollowP!Chosen, FollowP!Ask,
       FollowP!DontAsk, FollowP!Preview, FollowP!Read, FollowP!RunSession, FollowP!Discard,
       FollowP!Follows, FollowP!OnLayoutChange, FollowP!Turn, FollowP!AppPosts, FollowP!AppMoves,
       FollowP!Pumped, FollowP!Key, FollowP!EndWord, FollowP!ThreadFocus, FollowP!Next
<1>3. UNCHANGED relayoutVars => UNCHANGED FollowP!vars
  BY DEF relayoutVars,
       FollowP!word, FollowP!vars
<1> QED BY <1>1, <1>2, <1>3

\* ... and so behaves as Relayout, in every behaviour that belongs to it.
LEMMA FollowBehaves == PartsSpec => []~(part = "relayout") \/ FollowP!Spec
<1>1. PartsInit /\ part = "relayout" => FollowP!Init
  BY FollowInit
<1>2. part = "relayout" /\ [PartsNext]_partsVars => [FollowP!Next]_FollowP!vars
  BY FollowStep
<1>3. part = "relayout" /\ [PartsNext]_partsVars => (part = "relayout")'
  BY PartStays
<1>4. ~(part = "relayout") /\ [PartsNext]_partsVars => (~(part = "relayout"))'
  BY PartStays
<1> QED BY <1>1, <1>2, <1>3, <1>4, PTL DEF PartsSpec, FollowP!Spec

\* The re-reads that a re-read causes come to an end (OnLayoutChange, Relayout, Pumped).
THEOREM EchoesComeToAnEnd == PartsSpec => []EchoesEnd
<1>1. FollowP!Spec => []FollowP!EchoesEnd
  BY FollowP!EchoesNeverFeed
<1>2. FollowP!EchoesEnd => EchoesEnd
  BY DEF EchoesEnd,
       Follow!EchoesEnd, FollowP!EchoesEnd
<1>3. ~(part = "relayout") => EchoesEnd
  BY DEF EchoesEnd
<1> QED BY <1>1, <1>2, <1>3, FollowBehaves, PTL

\* Once nothing is on its way the shown popup stands at the word, unless a move was
\* reported while re-reads were settled.
THEOREM ThePopupFollows ==
    ASSUME RELAYOUT_BUDGET \in Nat
    PROVE  PartsSpec => []FollowsTheWord
<1>1. FollowP!Spec => []FollowP!FollowsTheWord
  BY FollowP!PopupFollowsTheWord
<1>2. FollowP!FollowsTheWord => FollowsTheWord
  BY DEF FollowsTheWord,
       Follow!FollowsTheWord, FollowP!FollowsTheWord
<1>3. ~(part = "relayout") => FollowsTheWord
  BY DEF FollowsTheWord
<1> QED BY <1>1, <1>2, <1>3, FollowBehaves, PTL

-----------------------------------------------------------------------------
(* The configuration and its readers.                                      *)

\* The part "settings" begins as Settings does ...
LEMMA SavedInit == PartsInit /\ part = "settings" => SavedP!Init
BY DEF PartsInit,
       Saved!Defaults, Saved!Init, SavedP!Defaults, SavedP!Init

\* ... steps as Settings does ...
LEMMA SavedStep ==
    ASSUME [PartsNext]_partsVars, part = "settings"
    PROVE  [SavedP!Next]_SavedP!vars
<1>1. Saved!Next \/ UNCHANGED settingsVars
  BY DEF PartsNext, partsVars
<1>2. Saved!Next => SavedP!Next
  BY DEF
       Saved!Config, Saved!Defaults, Saved!fileVars, Saved!tipVars, Saved!companionVars,
       Saved!WriteTmp, Saved!SaveSettings, Saved!ImportSettings, Saved!Rename, Saved!Needed,
       Saved!NotifyCompanion, Saved!GiveUp, Saved!StartWord, Saved!LoadConfig, Saved!Reading,
       Saved!EndWord, Saved!Read, Saved!Misread, Saved!Register, Saved!Start, Saved!Reload,
       Saved!Check, Saved!NextCheck, Saved!ScheduleTidy, Saved!Quit, Saved!Next, SavedP!Config,
       SavedP!Defaults, SavedP!fileVars, SavedP!tipVars, SavedP!companionVars, SavedP!WriteTmp,
       SavedP!SaveSettings, SavedP!ImportSettings, SavedP!Rename, SavedP!Needed,
       SavedP!NotifyCompanion, SavedP!GiveUp, SavedP!StartWord, SavedP!LoadConfig, SavedP!Reading,
       SavedP!EndWord, SavedP!Read, SavedP!Misread, SavedP!Register, SavedP!Start, SavedP!Reload,
       SavedP!Check, SavedP!NextCheck, SavedP!ScheduleTidy, SavedP!Quit, SavedP!Next
<1>3. UNCHANGED settingsVars => UNCHANGED SavedP!vars
  BY DEF settingsVars,
       SavedP!fileVars, SavedP!tipVars, SavedP!companionVars, SavedP!vars
<1> QED BY <1>1, <1>2, <1>3

\* ... and so behaves as Settings, in every behaviour that belongs to it.
LEMMA SavedBehaves == PartsSpec => []~(part = "settings") \/ SavedP!Spec
<1>1. PartsInit /\ part = "settings" => SavedP!Init
  BY SavedInit
<1>2. part = "settings" /\ [PartsNext]_partsVars => [SavedP!Next]_SavedP!vars
  BY SavedStep
<1>3. part = "settings" /\ [PartsNext]_partsVars => (part = "settings")'
  BY PartStays
<1>4. ~(part = "settings") /\ [PartsNext]_partsVars => (~(part = "settings"))'
  BY PartStays
<1> QED BY <1>1, <1>2, <1>3, <1>4, PTL DEF PartsSpec, SavedP!Spec

\* A word is typed with the settings saved before it was begun (load_config).
THEOREM NextWordHasTheSettings == PartsSpec => []SavedBeforeTheWord
<1>1. SavedP!Spec => []SavedP!SavedBeforeTheWord
  BY SavedP!SettingsApplyToTheNextWord
<1>2. SavedP!SavedBeforeTheWord => SavedBeforeTheWord
  BY DEF SavedBeforeTheWord,
       Saved!SavedBeforeTheWord, SavedP!SavedBeforeTheWord
<1>3. ~(part = "settings") => SavedBeforeTheWord
  BY DEF SavedBeforeTheWord
<1> QED BY <1>1, <1>2, <1>3, SavedBehaves, PTL

\* Once its messages are handled the companion has what the file says, or is gone
\* where the file does not need it.
THEOREM TheCompanionFollows ==
    ASSUME SavedP!Hotkeys
    PROVE  PartsSpec => []CompanionCatchesUp
<1>1. SavedP!Spec => []SavedP!CompanionCatchesUp
  BY SavedP!CompanionFollowsTheFile
<1>2. SavedP!CompanionCatchesUp => CompanionCatchesUp
  BY DEF CompanionCatchesUp,
       Saved!Needed, Saved!NextCheck, Saved!CompanionCatchesUp, SavedP!Needed, SavedP!NextCheck,
       SavedP!CompanionCatchesUp
<1>3. ~(part = "settings") => CompanionCatchesUp
  BY DEF CompanionCatchesUp
<1> QED BY <1>1, <1>2, <1>3, SavedBehaves, PTL

-----------------------------------------------------------------------------
(* The keyboards of the user and of the session.                           *)

\* The part "layouts" begins as Layouts does ...
LEMMA TidyInit == PartsInit /\ part = "layouts" => TidyP!Init
BY DEF PartsInit,
       Tidy!Process, Tidy!None, Tidy!Init, TidyP!Process, TidyP!None, TidyP!Init

\* ... steps as Layouts does ...
LEMMA TidyStep ==
    ASSUME [PartsNext]_partsVars, part = "layouts"
    PROVE  [TidyP!Next]_TidyP!vars
<1>1. Tidy!Next \/ UNCHANGED layoutVars
  BY DEF PartsNext, partsVars
<1>2. Tidy!Next => TidyP!Next
  BY DEF
       Tidy!Process, Tidy!TIP, Tidy!None, Tidy!lists, Tidy!work, Tidy!Goto, Tidy!Done, Tidy!Begin,
       Tidy!ListSaved, Tidy!Enumerate, Tidy!Drop, Tidy!Check, Tidy!Remember, Tidy!Enable,
       Tidy!Install, Tidy!Enabled, Tidy!Disable, Tidy!UserAdds, Tidy!UserRemoves,
       Tidy!WindowsLoads, Tidy!Next, TidyP!Process, TidyP!TIP, TidyP!None, TidyP!lists, TidyP!work,
       TidyP!Goto, TidyP!Done, TidyP!Begin, TidyP!ListSaved, TidyP!Enumerate, TidyP!Drop,
       TidyP!Check, TidyP!Remember, TidyP!Enable, TidyP!Install, TidyP!Enabled, TidyP!Disable,
       TidyP!UserAdds, TidyP!UserRemoves, TidyP!WindowsLoads, TidyP!Next
<1>3. UNCHANGED layoutVars => UNCHANGED TidyP!vars
  BY DEF layoutVars,
       TidyP!lists, TidyP!work, TidyP!vars
<1> QED BY <1>1, <1>2, <1>3

\* ... and so behaves as Layouts, in every behaviour that belongs to it.
LEMMA TidyBehaves == PartsSpec => []~(part = "layouts") \/ TidyP!Spec
<1>1. PartsInit /\ part = "layouts" => TidyP!Init
  BY TidyInit
<1>2. part = "layouts" /\ [PartsNext]_partsVars => [TidyP!Next]_TidyP!vars
  BY TidyStep
<1>3. part = "layouts" /\ [PartsNext]_partsVars => (part = "layouts")'
  BY PartStays
<1>4. ~(part = "layouts") /\ [PartsNext]_partsVars => (~(part = "layouts"))'
  BY PartStays
<1> QED BY <1>1, <1>2, <1>3, <1>4, PTL DEF PartsSpec, TidyP!Spec

\* Enabling and tidying take no keyboard the user chose out of the list.
THEOREM ChosenKeyboardsStay ==
    ASSUME Tidy!TIP \notin Arabic
    PROVE  PartsSpec => []ChosenStay
<1>1. TidyP!Spec => []TidyP!ChosenStay
  BY TidyP!ChosenNeverDropped DEF Tidy!TIP, TidyP!TIP
<1>2. TidyP!ChosenStay => ChosenStay
  BY DEF ChosenStay,
       Tidy!ChosenStay, TidyP!ChosenStay
<1>3. ~(part = "layouts") => ChosenStay
  BY DEF ChosenStay
<1> QED BY <1>1, <1>2, <1>3, TidyBehaves, PTL

\* A tidy check that is skipped because nothing changed leaves no stray keyboard.
THEOREM NothingIsMissed ==
    ASSUME "none" \notin Arabic \union Other
    PROVE  PartsSpec => []SkippedChecksMissNothing
<1>1. TidyP!Spec => []TidyP!SkippedChecksMissNothing
  BY TidyP!SkippedChecksAreDone
<1>2. TidyP!SkippedChecksMissNothing => SkippedChecksMissNothing
  BY DEF SkippedChecksMissNothing,
       Tidy!SkippedChecksMissNothing, TidyP!SkippedChecksMissNothing
<1>3. ~(part = "layouts") => SkippedChecksMissNothing
  BY DEF SkippedChecksMissNothing
<1> QED BY <1>1, <1>2, <1>3, TidyBehaves, PTL

-----------------------------------------------------------------------------
(* The popup.                                                              *)

\* The part "popup" begins as Popup does ...
LEMMA WindowInit == PartsInit /\ part = "popup" => WindowP!Init
BY DEF PartsInit,
       Window!Hidden, Window!Init, WindowP!Hidden, WindowP!Init

\* ... steps as Popup does ...
LEMMA WindowStep ==
    ASSUME [PartsNext]_partsVars, part = "popup"
    PROVE  [WindowP!Next]_WindowP!vars
<1>1. Window!Next \/ UNCHANGED popupVars
  BY DEF PartsNext, partsVars
<1>2. Window!Next => WindowP!Next
  BY DEF
       Window!service, Window!window, Window!Hidden, Window!Items, Window!PagesOf, Window!MinOf,
       Window!PopupModel, Window!Size, Window!Gap, Window!Placed, Window!Show, Window!Hide,
       Window!Quiet, Window!Later, Window!EndWord, Window!Type, Window!Turn, Window!SwitchEditor,
       Window!RunSession, Window!End, Window!ThreadFocus, Window!Cell, Window!ListHits,
       Window!ChipHits, Window!LetterHits, Window!PaletteHits, Window!Hits, Window!Paint,
       Window!OwnerGone, Window!CaptureTaken, Window!Command, Window!ItemOf, Window!ClickRow,
       Window!ClickLetter, Window!ClickOther, Window!ButtonDown, Window!MouseMove, Window!ButtonUp,
       Window!Next, WindowP!service, WindowP!window, WindowP!Hidden, WindowP!Items,
       WindowP!PagesOf, WindowP!MinOf, WindowP!PopupModel, WindowP!Size, WindowP!Gap,
       WindowP!Placed, WindowP!Show, WindowP!Hide, WindowP!Quiet, WindowP!Later, WindowP!EndWord,
       WindowP!Type, WindowP!Turn, WindowP!SwitchEditor, WindowP!RunSession, WindowP!End,
       WindowP!ThreadFocus, WindowP!Cell, WindowP!ListHits, WindowP!ChipHits, WindowP!LetterHits,
       WindowP!PaletteHits, WindowP!Hits, WindowP!Paint, WindowP!OwnerGone, WindowP!CaptureTaken,
       WindowP!Command, WindowP!ItemOf, WindowP!ClickRow, WindowP!ClickLetter, WindowP!ClickOther,
       WindowP!ButtonDown, WindowP!MouseMove, WindowP!ButtonUp, WindowP!Next
<1>3. UNCHANGED popupVars => UNCHANGED WindowP!vars
  BY DEF popupVars,
       WindowP!service, WindowP!window, WindowP!vars
<1> QED BY <1>1, <1>2, <1>3

\* ... and so behaves as Popup, in every behaviour that belongs to it.
LEMMA WindowBehaves == PartsSpec => []~(part = "popup") \/ WindowP!Spec
<1>1. PartsInit /\ part = "popup" => WindowP!Init
  BY WindowInit
<1>2. part = "popup" /\ [PartsNext]_partsVars => [WindowP!Next]_WindowP!vars
  BY WindowStep
<1>3. part = "popup" /\ [PartsNext]_partsVars => (part = "popup")'
  BY PartStays
<1>4. ~(part = "popup") /\ [PartsNext]_partsVars => (~(part = "popup"))'
  BY PartStays
<1> QED BY <1>1, <1>2, <1>3, <1>4, PTL DEF PartsSpec, WindowP!Spec

\* The mouse is captured only by a window that is shown (hide, end_drag).
THEOREM TheMouseIsLetGo == PartsSpec => []HiddenLetsGo
<1>1. WindowP!Spec => []WindowP!HiddenLetsGo
  BY WindowP!TheMouseIsReleased
<1>2. WindowP!HiddenLetsGo => HiddenLetsGo
  BY DEF HiddenLetsGo,
       Window!Hidden, Window!HiddenLetsGo, WindowP!Hidden, WindowP!HiddenLetsGo
<1>3. ~(part = "popup") => HiddenLetsGo
  BY DEF HiddenLetsGo
<1> QED BY <1>1, <1>2, <1>3, WindowBehaves, PTL

\* A shown popup is on the work area as far as it fits and beside the word where
\* there is room (place).
THEOREM ThePopupStandsWell ==
    ASSUME WindowP!Geometry, Rect # {}
    PROVE  PartsSpec => []PlacedWell
<1>1. WindowP!Spec => []WindowP!PlacedWell
  BY WindowP!PopupStandsWell
<1>2. WindowP!PlacedWell => PlacedWell
  BY DEF PlacedWell,
       Window!Hidden, Window!Size, Window!Gap, Window!PlacedWell, WindowP!Hidden, WindowP!Size,
       WindowP!Gap, WindowP!PlacedWell
<1>3. ~(part = "popup") => PlacedWell
  BY DEF PlacedWell
<1> QED BY <1>1, <1>2, <1>3, WindowBehaves, PTL

\* A click commits the candidate that the row under the mouse shows.
THEOREM ClicksTakeTheRow ==
    ASSUME PageSize \in Nat \ {0}, MaxTyped \in Nat
    PROVE  PartsSpec => []ClicksTakeWhatTheyShow
<1>1. WindowP!Spec => []WindowP!ClicksTakeWhatTheyShow
  BY WindowP!ClicksTakeTheRow
<1>2. WindowP!ClicksTakeWhatTheyShow => ClicksTakeWhatTheyShow
  BY DEF ClicksTakeWhatTheyShow,
       Window!ClicksTakeWhatTheyShow, WindowP!ClicksTakeWhatTheyShow
<1>3. ~(part = "popup") => ClicksTakeWhatTheyShow
  BY DEF ClicksTakeWhatTheyShow
<1> QED BY <1>1, <1>2, <1>3, WindowBehaves, PTL

-----------------------------------------------------------------------------
(* The shortcuts.  What the keyboard runs with are chords, whatever the     *)
(* file says, and without an edit by hand the file has no chord of others.  *)

\* A shortcut as the file has it: no modifier names is an empty list of them.
Listed(c) == DOMAIN c.mods = {} => c.mods = <<>>

KeymapTypes ==
    /\ written = [x \in {"toggle", "latin", "tashkeel", "harakat", "hotkey", "enabled"} |-> written[x]]
    /\ \A x \in Keymap!ChordField : Listed(written[x])
    /\ screen \in {"idle", "list", "editor"}

\* is_chord holds of what a keyboard reads.
KeymapChords == \A x \in Keymap!ChordField : Listed(conf[x]) /\ Keymap!IsChord(conf[x])

KeymapOwn ==
    /\ byHand \/ \A x \in Keymap!ChordField : ~Keymap!ReservedShortcut(written[x])
    /\ hotkeys \intersect Keymap!Taken = {}

KeymapInv == KeymapTypes /\ KeymapChords /\ KeymapOwn

\* A sequence without positions is empty.
LEMMA NoPositions ==
    ASSUME NEW S, NEW s \in Seq(S), DOMAIN s = {}
    PROVE  s = <<>>
<1>1. Len(s) \in Nat /\ DOMAIN s = 1..Len(s)
  OBVIOUS
<1>2. \A n \in Nat : n # 0 => 1 \in 1..n
  OBVIOUS
<1>3. Len(s) = 0
  BY <1>1, <1>2
<1> QED BY <1>3

LEMMA WrittenAreListed == \A c \in Spelling : Listed(c)
BY ShortcutKeys, NoPositions DEF Listed

\* The shortcuts Type3arabi comes with are chords and nobody else's.
LEMMA DefaultsAreChords ==
    ASSUME NEW x \in Keymap!ChordField
    PROVE  /\ Listed(Keymap!Default[x])
           /\ Keymap!IsChord(Keymap!Default[x])
           /\ ~Keymap!ReservedShortcut(Keymap!Default[x])
<1>1. CASE x = "latin"
  <2>1. Keymap!Default[x] = [mods |-> <<"shift">>, key |-> "space"]
    BY <1>1 DEF Keymap!Default, Keymap!Spell
  <2>2. Keymap!Names(Keymap!Default[x]) = {"shift"}
    BY <2>1 DEF Keymap!Names
  <2>3. Keymap!Meant({"shift"}) = {"shift"}
    BY DEF Keymap!Meant
  <2>4. Keymap!Default[x].key = "space" /\ Keymap!Default[x].mods = <<"shift">>
    BY <2>1
  <2>5. Listed(Keymap!Default[x])
    BY <2>4 DEF Listed
  <2>6. Keymap!IsChord(Keymap!Default[x])
    BY <2>2, <2>4 DEF Keymap!IsChord
  <2>7. ~Keymap!ReservedShortcut(Keymap!Default[x])
    BY <2>2, <2>3, <2>4, ShortcutKeys DEF Keymap!ReservedShortcut
  <2> QED BY <2>5, <2>6, <2>7
<1>2. CASE x = "tashkeel"
  <2>1. Keymap!Default[x] = [mods |-> <<>>, key |-> "tab"]
    BY <1>2 DEF Keymap!Default, Keymap!Spell
  <2>2. Keymap!Names(Keymap!Default[x]) = {}
    BY <2>1 DEF Keymap!Names
  <2>3. Keymap!Meant({}) = {}
    BY DEF Keymap!Meant
  <2>4. Keymap!Default[x].key = "tab" /\ Keymap!Default[x].mods = <<>>
    BY <2>1
  <2>5. Listed(Keymap!Default[x])
    BY <2>4 DEF Listed
  <2>6. Keymap!IsChord(Keymap!Default[x])
    BY <2>2, <2>4 DEF Keymap!IsChord
  <2>7. ~Keymap!ReservedShortcut(Keymap!Default[x])
    BY <2>2, <2>3, <2>4, ShortcutKeys DEF Keymap!ReservedShortcut
  <2> QED BY <2>5, <2>6, <2>7
<1>3. CASE x = "harakat"
  <2>1. Keymap!Default[x] = [mods |-> <<"ctrl">>, key |-> "enter"]
    BY <1>3 DEF Keymap!Default, Keymap!Spell
  <2>2. Keymap!Names(Keymap!Default[x]) = {"ctrl"}
    BY <2>1 DEF Keymap!Names
  <2>3. Keymap!Meant({"ctrl"}) = {"ctrl"}
    BY DEF Keymap!Meant
  <2>4. Keymap!Default[x].key = "enter" /\ Keymap!Default[x].mods = <<"ctrl">>
    BY <2>1
  <2>5. Listed(Keymap!Default[x])
    BY <2>4 DEF Listed
  <2>6. Keymap!IsChord(Keymap!Default[x])
    BY <2>2, <2>4 DEF Keymap!IsChord
  <2>7. ~Keymap!ReservedShortcut(Keymap!Default[x])
    BY <2>2, <2>3, <2>4, ShortcutKeys DEF Keymap!ReservedShortcut
  <2> QED BY <2>5, <2>6, <2>7
<1> QED BY <1>1, <1>2, <1>3 DEF Keymap!ChordField

\* Config::parse leaves chords only.
LEMMA ParsedAreChords ==
    ASSUME KeymapTypes, NEW x \in Keymap!ChordField
    PROVE  /\ Listed(Keymap!Parsed(written)[x])
           /\ Keymap!IsChord(Keymap!Parsed(written)[x])
<1>1. x \in DOMAIN written
  BY DEF KeymapTypes, Keymap!ChordField
<1>2. Keymap!Parsed(written)[x] =
          IF ~Keymap!IsChord(written[x]) THEN Keymap!Default[x] ELSE written[x]
  BY <1>1 DEF Keymap!Parsed
<1> QED BY <1>2, DefaultsAreChords DEF KeymapTypes

\* What the companion registers for a hotkey that is not reserved is nobody
\* else's, whichever spelling of a modifier it has.
LEMMA RegisteredAreFree ==
    ASSUME NEW c, ~Keymap!ReservedShortcut(c)
    PROVE  Keymap!HotkeySpec(c) \intersect Keymap!Taken = {}
<1> DEFINE N == Keymap!Names(c)
<1>1. CASE N \subseteq {"ctrl", "control", "alt", "shift", "win", "windows"}
  <2> DEFINE M == {IF n = "control" THEN "ctrl" ELSE IF n = "windows" THEN "win" ELSE n : n \in N}
  <2>1. M = Keymap!Meant(N)
    BY <1>1 DEF Keymap!Meant
  <2>2. Keymap!HotkeySpec(c) \subseteq {[mods |-> M, key |-> c.key]}
    BY DEF Keymap!HotkeySpec
  <2>3. SUFFICES ASSUME [mods |-> M, key |-> c.key] \in Keymap!Taken PROVE FALSE
    BY <2>2
  <2> HIDE DEF M
  <2>4. \/ "win" \in M
        \/ "alt" \in M /\ c.key = "tab"
        \/ M = {"alt"} /\ c.key \in {"f4", "space", "enter"}
        \/ M = {"ctrl"} /\ c.key \in CtrlTaken \union {"space", "tab", "backspace"}
        \/ M = {"ctrl", "shift"} /\ c.key \in CtrlShiftTaken \union {"tab"}
    BY <2>3 DEF Keymap!Taken, Keymap!WithModifier
  <2> QED BY <2>1, <2>4 DEF Keymap!ReservedShortcut
<1>2. CASE ~(N \subseteq {"ctrl", "control", "alt", "shift", "win", "windows"})
  BY <1>2 DEF Keymap!HotkeySpec
<1> QED BY <1>1, <1>2

\* Nor is a typing shortcut that is not reserved.
LEMMA TypedAreFree ==
    ASSUME NEW c, ~Keymap!ReservedShortcut(c)
    PROVE  Keymap!KeyMap(c) \intersect Keymap!Taken = {}
<1> DEFINE N == Keymap!Names(c)
<1>1. CASE N \subseteq {"ctrl", "alt", "shift"}
  <2>1. N = Keymap!Meant(N)
    BY <1>1 DEF Keymap!Meant
  <2>2. Keymap!KeyMap(c) \subseteq {[mods |-> N, key |-> c.key]}
    BY DEF Keymap!KeyMap
  <2>3. SUFFICES ASSUME [mods |-> N, key |-> c.key] \in Keymap!Taken PROVE FALSE
    BY <2>2
  <2>4. \/ "win" \in N
        \/ "alt" \in N /\ c.key = "tab"
        \/ N = {"alt"} /\ c.key \in {"f4", "space", "enter"}
        \/ N = {"ctrl"} /\ c.key \in CtrlTaken \union {"space", "tab", "backspace"}
        \/ N = {"ctrl", "shift"} /\ c.key \in CtrlShiftTaken \union {"tab"}
    BY <2>3 DEF Keymap!Taken, Keymap!WithModifier
  <2> HIDE DEF N
  <2> QED BY <2>1, <2>4 DEF Keymap!ReservedShortcut, N
<1>2. CASE ~(N \subseteq {"ctrl", "alt", "shift"})
  BY <1>2 DEF Keymap!KeyMap
<1> QED BY <1>1, <1>2

LEMMA KeymapInit == Keymap!Init => KeymapInv
<1> SUFFICES ASSUME Keymap!Init PROVE KeymapInv
  OBVIOUS
<1>1. written = Keymap!Default /\ conf = Keymap!Default /\ screen = "idle" /\ hotkeys = {}
  BY DEF Keymap!Init
<1>2. Keymap!Default = [x \in {"toggle", "latin", "tashkeel", "harakat", "hotkey", "enabled"} |->
                           Keymap!Default[x]]
  BY DEF Keymap!Default
<1> QED BY <1>1, <1>2, DefaultsAreChords DEF KeymapInv, KeymapTypes, KeymapChords, KeymapOwn

\* Every step keeps the invariant.
LEMMA KeymapStep == KeymapInv /\ [Keymap!Next]_Keymap!vars => KeymapInv'
<1> SUFFICES ASSUME KeymapInv, [Keymap!Next]_Keymap!vars PROVE KeymapInv'
  OBVIOUS
<1> DEFINE Fields6 == {"toggle", "latin", "tashkeel", "harakat", "hotkey", "enabled"}
<1>a. DOMAIN written = Fields6 /\ Keymap!ChordField \subseteq Fields6
  BY DEF KeymapInv, KeymapTypes, Keymap!ChordField
<1>b. ASSUME NEW x \in Keymap!ChordField, NEW v \in Keymap!ValuesOf(x) PROVE Listed(v)
  <2>1. v \in Spelling
    BY <1>b DEF Keymap!ValuesOf, Keymap!ChordField
  <2> QED BY <2>1, WrittenAreListed
<1>1. CASE Keymap!Save
  <2>0. PICK x \in Fields6 : \E v \in Keymap!ValuesOf(x) :
           Keymap!Valid(Keymap!Changed(x, v)) /\ written' = Keymap!Changed(x, v)
    BY <1>1, <1>a DEF Keymap!Save
  <2>1. PICK v \in Keymap!ValuesOf(x) :
           Keymap!Valid(Keymap!Changed(x, v)) /\ written' = Keymap!Changed(x, v)
    BY <2>0
  <2>2. UNCHANGED <<byHand, conf, screen, hotkeys>>
    BY <1>1 DEF Keymap!Save
  <2>3. \A y \in Fields6 : written'[y] = IF y = x THEN v ELSE Keymap!Parsed(written)[y]
    BY <2>1, <1>a DEF Keymap!Changed, Keymap!Parsed
  <2>4. written' = [y \in Fields6 |-> written'[y]]
    BY <2>1, <1>a DEF Keymap!Changed, Keymap!Parsed
  <2>5. \A y \in Keymap!ChordField : Listed(written'[y])
    BY <2>3, <1>a, <1>b, ParsedAreChords DEF KeymapInv
  <2>6. \A y \in Keymap!ChordField : ~Keymap!ReservedShortcut(written'[y])
    BY <2>1 DEF Keymap!Valid
  <2> QED BY <2>2, <2>4, <2>5, <2>6 DEF KeymapInv, KeymapTypes, KeymapChords, KeymapOwn, Keymap!Taken, Keymap!WithModifier, Keymap!ChordKey
<1>2. CASE Keymap!EditFile
  <2>0. PICK x \in Fields6 : \E v \in Keymap!ValuesOf(x) : written' = [written EXCEPT ![x] = v]
    BY <1>2, <1>a DEF Keymap!EditFile
  <2>1. PICK v \in Keymap!ValuesOf(x) : written' = [written EXCEPT ![x] = v]
    BY <2>0
  <2>2. byHand' = TRUE /\ UNCHANGED <<conf, screen, hotkeys>>
    BY <1>2 DEF Keymap!EditFile
  <2>3. \A y \in Fields6 : written'[y] = IF y = x THEN v ELSE written[y]
    BY <2>1, <1>a
  <2>4. written' = [y \in Fields6 |-> written'[y]]
    BY <2>1, <1>a
  <2>5. \A y \in Keymap!ChordField : Listed(written'[y])
    BY <2>3, <1>a, <1>b DEF KeymapInv, KeymapTypes
  <2> QED BY <2>2, <2>4, <2>5 DEF KeymapInv, KeymapTypes, KeymapChords, KeymapOwn, Keymap!Taken, Keymap!WithModifier, Keymap!ChordKey
<1>3. CASE Keymap!ReadConfig
  <2>1. conf' = Keymap!Parsed(written) /\ UNCHANGED <<written, byHand, screen, hotkeys>>
    BY <1>3 DEF Keymap!ReadConfig
  <2>2. KeymapChords'
    BY <2>1, ParsedAreChords DEF KeymapInv, KeymapChords
  <2> QED BY <2>1, <2>2 DEF KeymapInv, KeymapTypes, KeymapOwn, Keymap!Taken, Keymap!WithModifier, Keymap!ChordKey
<1>4. CASE Keymap!Register
  <2>1. UNCHANGED <<written, byHand, conf, screen>>
    BY <1>4 DEF Keymap!Register
  <2>2. \/ hotkeys' = {}
        \/ ~Keymap!ReservedShortcut(written.hotkey) /\ hotkeys' = Keymap!HotkeySpec(written.hotkey)
    BY <1>4 DEF Keymap!Register
  <2>3. hotkeys' \intersect Keymap!Taken = {}
    BY <2>2, RegisteredAreFree
  <2> QED BY <2>1, <2>3 DEF KeymapInv, KeymapTypes, KeymapChords, KeymapOwn, Keymap!Taken, Keymap!WithModifier, Keymap!ChordKey
<1>5. CASE Keymap!Press
  <2>1. UNCHANGED <<written, byHand, conf, hotkeys>>
    BY <1>5 DEF Keymap!Press
  <2>2. screen' \in {"idle", "list", "editor"}
    BY <1>5 DEF Keymap!Press, KeymapInv, KeymapTypes
  <2> QED BY <2>1, <2>2 DEF KeymapInv, KeymapTypes, KeymapChords, KeymapOwn, Keymap!Taken, Keymap!WithModifier, Keymap!ChordKey
<1>6. CASE UNCHANGED Keymap!vars
  BY <1>6 DEF Keymap!vars, KeymapInv, KeymapTypes, KeymapChords, KeymapOwn, Keymap!Taken, Keymap!WithModifier, Keymap!ChordKey
<1> QED BY <1>1, <1>2, <1>3, <1>4, <1>5, <1>6 DEF Keymap!Next

\* A behaviour of the part "shortcuts" is one of Shortcuts.
LEMMA KeymapBehaves == PartsSpec => [](part = "shortcuts" => KeymapInv)
<1>1. PartsInit => (part = "shortcuts" => KeymapInv)
  BY KeymapInit DEF PartsInit
<1>2. (part = "shortcuts" => KeymapInv) /\ [PartsNext]_partsVars => (part = "shortcuts" => KeymapInv)'
  <2> SUFFICES ASSUME part = "shortcuts" => KeymapInv, [PartsNext]_partsVars, part' = "shortcuts"
               PROVE  KeymapInv'
    OBVIOUS
  <2>1. part = "shortcuts"
    BY PartStays
  <2>2. Keymap!Next \/ UNCHANGED shortcutVars
    BY <2>1 DEF PartsNext, partsVars
  <2>3. UNCHANGED shortcutVars => UNCHANGED Keymap!vars
    BY DEF shortcutVars, Keymap!vars
  <2> QED BY <2>1, <2>2, <2>3, KeymapStep
<1> QED BY <1>1, <1>2, PTL DEF PartsSpec

\* No chord of Windows or the applications is ever registered, however it is
\* spelled, and none is a typing shortcut unless the file was edited by hand
\* (reserved_shortcut, validate, register), for any spellings and changes.
THEOREM ChordsOfOthersStayFree == PartsSpec => []ReservedStayFree
<1>1. (part = "shortcuts" => KeymapInv) => ReservedStayFree
  BY TypedAreFree DEF ReservedStayFree, KeymapInv, KeymapOwn, Keymap!ReservedStayFree
<1> QED BY <1>1, KeymapBehaves, PTL

\* A chord with neither Ctrl nor Alt is no letter's.
LEMMA CharactersAreUnbound ==
    ASSUME KeymapChords, NEW x \in Keymap!ChordField,
           NEW k \in Letter \union {"punct", "numpad"}, NEW m \in SUBSET {"shift", "altgr"}
    PROVE  ~Keymap!Bound(x, k, m)
<1> SUFFICES ASSUME Keymap!Bound(x, k, m) PROVE FALSE
  OBVIOUS
<1> DEFINE c == conf[x]
<1>1. c # Keymap!None /\ c.key = k /\ Keymap!Names(c) = m \ {"altgr"}
      /\ k \in Letter \union {"space", "enter", "tab", "esc", "backspace"}
  BY DEF Keymap!Bound, Keymap!KeyMap
<1>2. k \in Letter /\ k \notin {"space", "enter", "backspace", "tab"}
  BY <1>1, ShortcutKeys
<1>3. Keymap!Names(c) \intersect {"ctrl", "alt"} # {}
  BY <1>1, <1>2 DEF KeymapChords, Keymap!IsChord
<1> QED BY <1>1, <1>3

\* Space, Enter, Backspace and Esc alone are nobody's.
LEMMA BareKeysAreUnbound ==
    ASSUME KeymapChords, NEW x \in Keymap!ChordField, NEW k \in {"space", "enter", "backspace", "esc"}
    PROVE  ~Keymap!Bound(x, k, {})
<1> SUFFICES ASSUME Keymap!Bound(x, k, {}) PROVE FALSE
  OBVIOUS
<1> DEFINE c == conf[x]
<1>1. c # Keymap!None /\ c.key = k /\ Keymap!Names(c) = {}
  BY DEF Keymap!Bound, Keymap!KeyMap
<1>2. c.mods = <<>>
  <2>1. \A i \in DOMAIN c.mods : c.mods[i] \in Keymap!Names(c)
    BY DEF Keymap!Names
  <2> QED BY <1>1, <2>1 DEF KeymapChords, Listed
<1>3. k \notin Letter
  BY ShortcutKeys
<1> QED BY <1>1, <1>2, <1>3 DEF KeymapChords, Keymap!IsChord

\* Whatever the file says, a character still types, with Shift and AltGr too, and
\* Space, Enter, Backspace and Esc still end or shorten the word (is_chord,
\* classify), for any spellings and letters.
THEOREM ShortcutsLeaveTyping == PartsSpec => []TypingGoesOn
<1>1. (part = "shortcuts" => KeymapInv) => TypingGoesOn
  <2> SUFFICES ASSUME KeymapInv PROVE Keymap!TypingGoesOn
    BY DEF TypingGoesOn
  <2> USE DEF KeymapInv
  <2>1. screen \in {"idle", "list", "editor"}
    BY DEF KeymapTypes
  <2>2. ASSUME NEW k \in Letter \union {"punct", "numpad"}, NEW m \in SUBSET {"shift", "altgr"}
        PROVE  Keymap!Classify(k, m) \in Keymap!TypingActions
    <3>1. k # "space" /\ ~Keymap!IsCommand(m)
      BY ShortcutKeys DEF Keymap!IsCommand
    <3>2. ~Keymap!Bound("latin", k, m) /\ ~Keymap!Bound("tashkeel", k, m) /\ ~Keymap!Bound("harakat", k, m)
      BY CharactersAreUnbound DEF Keymap!ChordField
    <3>3. CASE screen = "idle"
      <4>1. Keymap!Classify(k, m) = Keymap!Idle(k, m)
        BY <3>1, <3>3 DEF Keymap!Classify
      <4> QED BY <3>1, <3>3, <4>1, ShortcutKeys DEF Keymap!Idle, Keymap!TypingActions
    <3>4. CASE screen = "list"
      <4>1. Keymap!Classify(k, m) = Keymap!ListKey(k, m)
        BY <3>1, <3>2, <3>4 DEF Keymap!Classify, Keymap!InList
      <4> QED BY <3>4, <4>1, ShortcutKeys DEF Keymap!ListKey, Keymap!TypingActions
    <3>5. CASE screen = "editor"
      <4>1. Keymap!Classify(k, m) = Keymap!EditorKey(k)
        BY <3>1, <3>2, <3>5 DEF Keymap!Classify, Keymap!InEditor
      <4> QED BY <3>5, <4>1, ShortcutKeys DEF Keymap!EditorKey, Keymap!TypingActions
    <3> QED BY <2>1, <3>3, <3>4, <3>5
  <2>3. ASSUME NEW k \in {"space", "enter", "backspace", "esc"}, screen # "idle"
        PROVE  Keymap!Classify(k, {}) = IF screen = "editor" THEN Keymap!EditorKey(k) ELSE Keymap!ListKey(k, {})
    <3>1. {} \notin Keymap!ToggleMods(conf.toggle)
      BY DEF Keymap!ToggleMods
    <3>2. ~Keymap!IsCommand({})
      BY DEF Keymap!IsCommand
    <3>3. ~Keymap!Bound("latin", k, {}) /\ ~Keymap!Bound("tashkeel", k, {}) /\ ~Keymap!Bound("harakat", k, {})
      BY BareKeysAreUnbound DEF Keymap!ChordField
    <3>4. {} \intersect {"ctrl", "shift"} = {}
      OBVIOUS
    <3> QED BY <2>1, <2>3, <3>1, <3>2, <3>3, <3>4 DEF Keymap!Classify, Keymap!InEditor, Keymap!InList
  <2>4. screen # "idle" =>
           /\ Keymap!Classify("space", {}) = "CommitSpace" /\ Keymap!Classify("enter", {}) = "CommitNoSpace"
           /\ Keymap!Classify("backspace", {}) \in {"Backspace", "ClearOrBack"}
           /\ Keymap!Classify("esc", {}) \in {"CommitRaw", "Back"}
    <3> SUFFICES ASSUME screen # "idle"
                 PROVE  /\ Keymap!Classify("space", {}) = "CommitSpace"
                        /\ Keymap!Classify("enter", {}) = "CommitNoSpace"
                        /\ Keymap!Classify("backspace", {}) \in {"Backspace", "ClearOrBack"}
                        /\ Keymap!Classify("esc", {}) \in {"CommitRaw", "Back"}
      OBVIOUS
    <3>1. {"space", "enter", "backspace", "esc"} \intersect (Letter \union MarkLetter) = {}
      BY ShortcutKeys
    <3> QED BY <2>3, <3>1 DEF Keymap!EditorKey, Keymap!ListKey
  <2> QED BY <2>2, <2>4 DEF Keymap!TypingGoesOn
<1> QED BY <1>1, KeymapBehaves, PTL

-----------------------------------------------------------------------------
(* The life of a text service.                                            *)

LifeTypes ==
    /\ object \in {"none", "held", "released"}
    /\ active \in BOOLEAN /\ begun \in BOOLEAN /\ disabled \in BOOLEAN /\ cleanedUp \in BOOLEAN
    /\ count \in {0, 1}

\* The service knows all it is advised on; nothing starts a word or shows the
\* popup without a sink or after the cleanup.
LifeQuiet ==
    /\ advised = cookies
    /\ active => object = "held"
    /\ ~active => advised = {} /\ popup = "none" /\ ~begun
    /\ cleanedUp => disabled /\ popup = "none" /\ ~begun

\* An object that nothing keeps is not counted.
LifeFreed == object = "released" /\ ~Life!KeptAlive(object, advised, composition, popup, sessions) => count = 0

LifeInv == LifeTypes /\ LifeQuiet /\ LifeFreed

\* Counting keeps the last part, whatever the rest of the step is.
LEMMA CountedFrees ==
    ASSUME LifeTypes, Life!Counted
    PROVE  count' \in {0, 1} /\ LifeFreed'
BY DEF LifeTypes, Life!Counted, LifeFreed

\* ensure_edit_sink leaves the service knowing what it is advised on.
LEMMA WatchKeeps ==
    ASSUME advised = cookies, NEW c, Life!Watch(c)
    PROVE  advised' = cookies'
BY DEF Life!Watch, Life!sinks

\* The word's end resets the session.
LEMMA FinalizeResets ==
    ASSUME Life!FinalizeComposition
    PROVE  begun' = FALSE
BY DEF Life!FinalizeComposition

\* A session shows the popup only for a word.
LEMMA RunOpKeeps ==
    ASSUME LifeTypes, LifeQuiet, NEW op, Life!RunOp(op)
    PROVE  /\ advised' = cookies' /\ begun' = begun
           /\ ~begun => advised' = advised /\ popup' = popup
<1>1. CASE op.kind = "preview" /\ begun
  BY <1>1, WatchKeeps DEF Life!RunOp, LifeTypes, LifeQuiet, Life!sinks
<1>2. CASE ~(op.kind = "preview" /\ begun)
  BY <1>2 DEF Life!RunOp, LifeTypes, LifeQuiet, Life!sinks, Life!word
<1> QED BY <1>1, <1>2

\* Every step keeps the invariant.
LEMMA LifeInvStep == LifeInv /\ [Life!Next]_Life!vars => LifeInv'
<1> SUFFICES ASSUME LifeInv, [Life!Next]_Life!vars PROVE LifeInv'
  OBVIOUS
<1>1. CASE Life!Create
  BY <1>1 DEF Life!Create, LifeInv, LifeTypes, LifeQuiet, LifeFreed, Life!KeptAlive, Life!sinks, Life!word
<1>2. CASE Life!ActivateEx
  <2>1. /\ object = "held" /\ active' = TRUE
        /\ UNCHANGED <<object, begun, popup, disabled, cleanedUp, count>>
    BY <1>2 DEF Life!ActivateEx, Life!word
  <2>2. advised' = cookies'
    BY <1>2 DEF Life!ActivateEx, LifeInv, LifeQuiet
  <2> QED BY <2>1, <2>2 DEF LifeInv, LifeTypes, LifeQuiet, LifeFreed, Life!KeptAlive
<1>3. CASE Life!Deactivate
  <2>1. /\ active' = FALSE /\ popup' = "none" /\ advised' = {} /\ cookies' = {} /\ begun' = FALSE
        /\ UNCHANGED <<object, disabled, cleanedUp>> /\ Life!Counted
    BY <1>3, FinalizeResets DEF Life!Deactivate, LifeInv, LifeQuiet
  <2> QED BY <2>1, CountedFrees DEF LifeInv, LifeTypes, LifeQuiet
<1>4. CASE Life!Release
  BY <1>4, CountedFrees DEF Life!Release, LifeInv, LifeTypes, LifeQuiet, Life!sinks, Life!word
<1>5. CASE Life!Gone
  BY <1>5 DEF Life!Gone, LifeInv, LifeTypes, LifeQuiet, LifeFreed, Life!sinks, Life!word
<1>6. ASSUME NEW c \in Document, Life!Key(c) PROVE LifeInv'
  <2>1. /\ ~disabled /\ begun' = TRUE
        /\ UNCHANGED <<object, active, disabled, cleanedUp, count>>
    BY <1>6 DEF Life!Key
  <2>2. active /\ object = "held"
    BY <1>6 DEF Life!Key, Life!Called, LifeInv, LifeTypes, LifeQuiet
  <2>3. advised' = cookies'
    BY <1>6, WatchKeeps DEF Life!Key, LifeInv, LifeQuiet, Life!sinks
  <2> QED BY <2>1, <2>2, <2>3 DEF LifeInv, LifeTypes, LifeQuiet, LifeFreed, Life!KeptAlive
<1>7. CASE Life!Finalize
  <2>1. /\ begun' = FALSE /\ popup' = Life!HiddenOf(popup) /\ UNCHANGED Life!sinks
        /\ UNCHANGED <<object, active, disabled, cleanedUp>> /\ Life!Counted
    BY <1>7, FinalizeResets DEF Life!Finalize
  <2> QED BY <2>1, CountedFrees DEF LifeInv, LifeTypes, LifeQuiet, Life!sinks, Life!HiddenOf
<1>8. CASE Life!Terminated
  <2>1. /\ begun' = FALSE /\ popup' = Life!HiddenOf(popup) /\ UNCHANGED Life!sinks
        /\ UNCHANGED <<object, active, disabled, cleanedUp>> /\ Life!Counted
    BY <1>8 DEF Life!Terminated
  <2> QED BY <2>1, CountedFrees DEF LifeInv, LifeTypes, LifeQuiet, Life!sinks, Life!HiddenOf
<1>9. CASE Life!SetThreadFocus
  <2>1. /\ ~disabled /\ begun /\ UNCHANGED Life!sinks
        /\ UNCHANGED <<object, active, begun, disabled, cleanedUp, count, composition, sessions>>
        /\ popup' = "shown"
    BY <1>9 DEF Life!SetThreadFocus
  <2> QED BY <2>1 DEF LifeInv, LifeTypes, LifeQuiet, LifeFreed, Life!KeptAlive, Life!sinks
<1>10. CASE Life!RunSession
  <2>1. UNCHANGED <<object, active, cleanedUp>> /\ Life!Counted
    BY <1>10 DEF Life!RunSession
  <2>2. /\ advised' = cookies' /\ begun' = begun
        /\ ~begun => advised' = advised /\ popup' = popup
        /\ disabled' = disabled \/ disabled' = TRUE
    BY <1>10, RunOpKeeps DEF Life!RunSession, LifeInv, LifeQuiet, Life!sinks, Life!word
  <2>3. count' \in {0, 1} /\ LifeFreed'
    BY <2>1, CountedFrees DEF LifeInv
  <2>4. LifeTypes'
    BY <2>1, <2>2, <2>3 DEF LifeInv, LifeTypes
  <2>5. LifeQuiet'
    BY <2>1, <2>2 DEF LifeInv, LifeQuiet
  <2> QED BY <2>3, <2>4, <2>5 DEF LifeInv
<1>11. CASE Life!Panic
  BY <1>11 DEF Life!Panic, LifeInv, LifeTypes, LifeQuiet, LifeFreed, Life!KeptAlive, Life!sinks, Life!word
<1>12. CASE Life!CallbackInPassthrough
  <2>1. disabled /\ Life!Cleanup /\ UNCHANGED <<object, active, disabled>> /\ Life!Counted
    BY <1>12 DEF Life!CallbackInPassthrough
  <2>2. \/ cleanedUp' = TRUE /\ popup' = "none" /\ begun' = FALSE /\ UNCHANGED Life!sinks
        \/ UNCHANGED <<Life!sinks, Life!word, cleanedUp>>
    BY <2>1, FinalizeResets DEF Life!Cleanup
  <2>3. count' \in {0, 1} /\ LifeFreed'
    BY <2>1, CountedFrees DEF LifeInv
  <2>4. LifeTypes'
    BY <2>1, <2>2, <2>3 DEF LifeInv, LifeTypes, Life!word
  <2>5. LifeQuiet'
    BY <2>1, <2>2 DEF LifeInv, LifeQuiet, Life!sinks, Life!word
  <2> QED BY <2>3, <2>4, <2>5 DEF LifeInv
<1>13. CASE UNCHANGED Life!vars
  BY <1>13 DEF Life!vars, LifeInv, LifeTypes, LifeQuiet, LifeFreed, Life!KeptAlive, Life!sinks, Life!word
<1> QED BY <1>1, <1>2, <1>3, <1>4, <1>5, <1>6, <1>7, <1>8, <1>9, <1>10, <1>11, <1>12, <1>13 DEF Life!Next


\* A behaviour of the part "life" is one of Lifecycle.
LEMMA LifeBehaves == PartsSpec => [](part = "life" => LifeInv)
<1>1. PartsInit => (part = "life" => LifeInv)
  BY DEF PartsInit, Life!Init, LifeInv, LifeTypes, LifeQuiet, LifeFreed
<1>2. (part = "life" => LifeInv) /\ [PartsNext]_partsVars => (part = "life" => LifeInv)'
  <2> SUFFICES ASSUME part = "life" => LifeInv, [PartsNext]_partsVars, part' = "life"
               PROVE  LifeInv'
    OBVIOUS
  <2>1. part = "life"
    BY PartStays
  <2>2. Life!Next \/ UNCHANGED lifeVars
    BY <2>1 DEF PartsNext, partsVars
  <2>3. UNCHANGED lifeVars => UNCHANGED Life!vars
    BY DEF lifeVars, Life!vars, Life!sinks, Life!word
  <2> QED BY <2>1, <2>2, <2>3, LifeInvStep
<1> QED BY <1>1, <1>2, PTL DEF PartsSpec

\* After Deactivate no sink is advised and no window stands, and once the last
\* reference is gone the DLL can be unloaded, in passthrough too and whatever
\* sessions are still queued, for any documents and number of activations.
THEOREM NothingStaysInTheHost == PartsSpec => []NothingLeftBehind
<1>1. (part = "life" => LifeInv) => NothingLeftBehind
  <2> SUFFICES ASSUME LifeInv PROVE Life!NothingLeftBehind
    BY DEF NothingLeftBehind
  <2>1. object = "released" => ~active
    BY DEF LifeInv, LifeTypes, LifeQuiet
  <2> QED BY <2>1 DEF LifeInv, LifeTypes, LifeQuiet, LifeFreed, Life!KeptAlive, Life!NothingLeftBehind, Life!CanUnload
<1> QED BY <1>1, LifeBehaves, PTL

-----------------------------------------------------------------------------
(* Induction over the numbers, as a fact about sets; what the folds of the  *)
(* session's list return.                                                  *)

LEMMA Induction ==
    ASSUME NEW T, 0 \in T, \A n \in Nat : n \in T => n + 1 \in T
    PROVE  Nat \subseteq T
<1> SUFFICES ASSUME Nat \ T # {} PROVE FALSE
  OBVIOUS
<1>1. PICK x \in Nat \ T : \A y \in Nat \ T : ~(<<y, x>> \in OpToRel(<, Nat))
  BY NatLessThanWellFounded, WFMin
<1>2. x # 0 /\ x - 1 \in Nat /\ (x - 1) + 1 = x
  OBVIOUS
<1>3. <<x - 1, x>> \in OpToRel(<, Nat)
  BY <1>2 DEF OpToRel
<1>4. x - 1 \in T
  BY <1>1, <1>2, <1>3
<1> QED BY <1>2, <1>4

\* The last of 1..n, as FoldLeft finds it in the modules of the session and the editor.
LastOf(u) == CHOOSE x \in u : \A y \in u : x >= y

LEMMA LastNumber ==
    ASSUME NEW n \in Nat \ {0}, NEW u, n \in u, u \subseteq 1..n
    PROVE  LastOf(u) = n
<1>1. \A y \in u : n >= y
  OBVIOUS
<1>2. \A x \in u : (\A y \in u : x >= y) => x = n
  OBVIOUS
<1> QED BY <1>1, <1>2 DEF LastOf

\* What FoldLeft iterates over the sets of positions of s, f being its operator on D.
Folds(g, D, f, base, s) ==
    /\ g \in [SUBSET (1..Len(s)) -> D]
    /\ \A u \in SUBSET (1..Len(s)) :
          /\ u # {} => LastOf(u) \in u
          /\ g[u] = IF u = {} THEN base ELSE f[<<g[u \ {LastOf(u)}], s[LastOf(u)]>>]

\* The iteration over sets of positions that FoldLeft chooses exists ...
LEMMA FoldIterates ==
    ASSUME NEW D, NEW X, NEW f \in [D \X X -> D], NEW base \in D, NEW s \in Seq(X)
    PROVE  \E g : Folds(g, D, f, base, s)
<1> DEFINE Step(g, u) == IF u = {} THEN base ELSE f[<<g[u \ {LastOf(u)}], s[LastOf(u)]>>]
           Iterates(g, n) ==
              /\ g \in [SUBSET (1..n) -> D]
              /\ \A u \in SUBSET (1..n) : (u # {} => LastOf(u) \in u) /\ g[u] = Step(g, u)
           T == {n \in Nat : n <= Len(s) => \E g : Iterates(g, n)}
<1>0. Len(s) \in Nat /\ \A i \in 1..Len(s) : s[i] \in X
  OBVIOUS
<1>1. 0 \in T
  <2> DEFINE g == [u \in SUBSET (1..0) |-> base]
  <2>1. \A u \in SUBSET (1..0) : u = {}
    OBVIOUS
  <2>2. Iterates(g, 0)
    BY <2>1
  <2> HIDE DEF g, Iterates
  <2> QED BY <2>2
<1>2. ASSUME NEW n \in Nat, n \in T PROVE n + 1 \in T
  <2> SUFFICES ASSUME n + 1 <= Len(s) PROVE \E h : Iterates(h, n + 1)
    <3> HIDE DEF Iterates
    <3> QED OBVIOUS
  <2>1. PICK g : Iterates(g, n)
    <3> HIDE DEF Iterates
    <3> QED BY <1>0, <1>2
  <2> DEFINE h == [u \in SUBSET (1..(n + 1)) |-> IF n + 1 \in u THEN f[<<g[u \ {n + 1}], s[n + 1]>>] ELSE g[u]]
  <2>2. ASSUME NEW u \in SUBSET (1..(n + 1)) PROVE h[u] \in D /\ h[u] = Step(h, u) /\ (u # {} => LastOf(u) \in u)
    <3>1. CASE n + 1 \in u
      <4>0. n + 1 \in Nat \ {0} /\ u \subseteq 1..(n + 1) /\ u # {}
        BY <3>1
      <4>1. LastOf(u) = n + 1
        BY <3>1, <4>0, LastNumber
      <4>2. u \ {n + 1} \in SUBSET (1..n) /\ u \ {n + 1} \in SUBSET (1..(n + 1)) /\ n + 1 \notin u \ {n + 1}
        OBVIOUS
      <4>3. h[u \ {n + 1}] = g[u \ {n + 1}] /\ g[u \ {n + 1}] \in D
        BY <2>1, <4>2
      <4>4. h[u] = f[<<g[u \ {n + 1}], s[n + 1]>>]
        BY <3>1
      <4>5. s[n + 1] \in X
        BY <1>0
      <4>6. h[u] \in D
        BY <4>3, <4>4, <4>5
      <4>7. h[u] = Step(h, u)
        <5> HIDE DEF h
        <5> QED BY <4>0, <4>1, <4>3, <4>4
      <4> QED BY <3>1, <4>1, <4>6, <4>7
    <3>2. CASE n + 1 \notin u
      <4>1. u \in SUBSET (1..n) /\ h[u] = g[u]
        BY <3>2
      <4>2. CASE u = {}
        BY <2>1, <4>1, <4>2
      <4>3. CASE u # {}
        <5>1. u \ {LastOf(u)} \in SUBSET (1..(n + 1)) /\ n + 1 \notin u \ {LastOf(u)}
          BY <3>2
        <5>2. h[u \ {LastOf(u)}] = g[u \ {LastOf(u)}]
          BY <5>1
        <5> QED BY <2>1, <4>1, <4>3, <5>2
      <4> QED BY <4>2, <4>3
    <3> QED BY <3>1, <3>2
  <2>3. Iterates(h, n + 1)
    <3> HIDE DEF Step
    <3>1. DOMAIN h = SUBSET (1..(n + 1)) /\ h = [u \in SUBSET (1..(n + 1)) |-> h[u]]
      OBVIOUS
    <3> HIDE DEF h
    <3> QED BY <2>2, <3>1
  <2> HIDE DEF h, Iterates
  <2> QED BY <2>3
<1>3. Len(s) \in T
  <2> HIDE DEF T
  <2> QED BY <1>0, <1>1, <1>2, Induction
<1>4. \E g : Iterates(g, Len(s))
  <2> HIDE DEF Iterates
  <2> QED BY <1>0, <1>3
<1> QED BY <1>4 DEF Folds

\* ... and goes through the positions one after the other.
LEMMA Positions ==
    ASSUME NEW N \in Nat
    PROVE  /\ 1..0 = {} /\ {} \in SUBSET (1..N)
           /\ \A n \in 1..N : /\ 1..n \in SUBSET (1..N) /\ 1..n # {} /\ n - 1 \in 0..N /\ n \in 0..N
                              /\ LastOf(1..n) = n /\ (1..n) \ {n} = 1..(n - 1)
<1>1. ASSUME NEW n \in 1..N
      PROVE  /\ 1..n \in SUBSET (1..N) /\ 1..n # {} /\ n - 1 \in 0..N /\ n \in 0..N
             /\ LastOf(1..n) = n /\ (1..n) \ {n} = 1..(n - 1)
  <2>1. n \in Nat \ {0} /\ n \in 1..n /\ 1..n \in SUBSET (1..N) /\ n - 1 \in 0..N /\ n \in 0..N
    OBVIOUS
  <2>2. 1..n # {}
    BY <2>1
  <2>3. LastOf(1..n) = n
    BY <2>1, LastNumber
  <2>4. (1..n) \ {n} = 1..(n - 1)
    BY <2>1
  <2> QED BY <2>1, <2>2, <2>3, <2>4
<1>2. 1..0 = {}
  OBVIOUS
<1> QED BY <1>1, <1>2

\* What Only has kept after each element.
LEMMA OnlySteps ==
    ASSUME NEW S, NEW s \in Seq(S), NEW K
    PROVE  \E t :
              /\ t[0] = <<>> /\ t[Len(s)] = Typing!Only(s, K)
              /\ \A n \in 1..Len(s) : t[n] = IF s[n] \in K THEN Append(t[n - 1], s[n]) ELSE t[n - 1]
<1> DEFINE N == Len(s)
           D == Seq(S)
           Kept(r, x) == IF x \in K THEN Append(r, x) ELSE r
           f == [p \in D \X S |-> Kept(p[1], p[2])]
           OnlyOf(g) == [u \in SUBSET (1..N) |->
                            IF u = {} THEN <<>> ELSE Kept(g[u \ {LastOf(u)}], s[LastOf(u)])]
           iter == CHOOSE g : g = OnlyOf(g)
<1>1. N \in Nat /\ DOMAIN s = 1..N /\ <<>> \in D /\ \A i \in 1..N : s[i] \in S
  OBVIOUS
<1>2. Typing!Only(s, K) = iter[1..N]
  BY <1>1 DEF Typing!Only, Typing!FoldLeft, Typing!MapThenFoldSet, Typing!Max, LastOf
<1>3. \A r \in D, x \in S : f[<<r, x>>] = Kept(r, x) /\ Kept(r, x) \in D
  OBVIOUS
<1>4. f \in [D \X S -> D]
  BY <1>3
<1> HIDE DEF f, D, Kept
<1>5. PICK g : Folds(g, D, f, <<>>, s)
  BY <1>1, <1>4, FoldIterates
<1>6. ASSUME NEW h, \A u \in SUBSET (1..N) : u # {} => h[u \ {LastOf(u)}] \in D, NEW u \in SUBSET (1..N), u # {}
      PROVE  f[<<h[u \ {LastOf(u)}], s[LastOf(u)]>>] = Kept(h[u \ {LastOf(u)}], s[LastOf(u)])
  <2>1. LastOf(u) \in 1..N
    BY <1>5, <1>6 DEF Folds
  <2> QED BY <1>1, <1>3, <1>6, <2>1
<1>7. g = OnlyOf(g)
  <2>1. \A u \in SUBSET (1..N) : u # {} => g[u \ {LastOf(u)}] \in D
    BY <1>5 DEF Folds
  <2>2. \A u \in SUBSET (1..N) : g[u] = IF u = {} THEN <<>> ELSE Kept(g[u \ {LastOf(u)}], s[LastOf(u)])
    BY <1>5, <1>6, <2>1 DEF Folds
  <2>3. g = [u \in SUBSET (1..N) |-> g[u]]
    BY <1>5 DEF Folds
  <2> QED BY <2>2, <2>3
<1>8. iter = OnlyOf(iter)
  BY <1>7
<1> HIDE DEF iter
<1> DEFINE t == [n \in 0..N |-> iter[1..n]]
<1>9. t[0] = <<>> /\ t[N] = iter[1..N]
  BY <1>1, <1>8, Positions
<1>10. ASSUME NEW n \in 1..N PROVE t[n] = Kept(t[n - 1], s[n])
  <2>1. /\ 1..n \in SUBSET (1..N) /\ 1..n # {} /\ n - 1 \in 0..N /\ n \in 0..N
        /\ LastOf(1..n) = n /\ (1..n) \ {n} = 1..(n - 1)
    BY <1>1, Positions
  <2>2. iter[1..n] = Kept(iter[(1..n) \ {LastOf(1..n)}], s[LastOf(1..n)])
    BY <1>8, <2>1
  <2> QED BY <2>1, <2>2
<1> QED BY <1>2, <1>9, <1>10 DEF Kept

\* The elements that Only keeps are at increasing places of the sequence; where
\* its first element is kept, it is the first.
LEMMA OnlyKeeps ==
    ASSUME NEW S, NEW s \in Seq(S), NEW K
    PROVE  /\ Typing!Only(s, K) \in Seq(S)
           /\ \E p \in [1..Len(Typing!Only(s, K)) -> 1..Len(s)] :
                 /\ \A i, j \in 1..Len(Typing!Only(s, K)) : i < j => p[i] < p[j]
                 /\ \A i \in 1..Len(Typing!Only(s, K)) : Typing!Only(s, K)[i] = s[p[i]] /\ s[p[i]] \in K
<1>1. PICK t : /\ t[0] = <<>> /\ t[Len(s)] = Typing!Only(s, K)
               /\ \A n \in 1..Len(s) : t[n] = IF s[n] \in K THEN Append(t[n - 1], s[n]) ELSE t[n - 1]
  BY OnlySteps
<1> DEFINE Kept(r, n) ==
        /\ r \in Seq(S)
        /\ \E p \in [1..Len(r) -> 1..n] :
              /\ \A i, j \in 1..Len(r) : i < j => p[i] < p[j]
              /\ \A i \in 1..Len(r) : r[i] = s[p[i]] /\ s[p[i]] \in K
           T == {n \in Nat : n <= Len(s) => Kept(t[n], n)}
<1>2. 0 \in T
  <2> DEFINE r == t[0]
  <2>1. r \in Seq(S) /\ Len(r) = 0
    BY <1>1
  <2> HIDE DEF r
  <2>2. \A i \in 1..0 : FALSE
    OBVIOUS
  <2> DEFINE p == [i \in 1..0 |-> 1]
  <2>3. p \in [1..0 -> 1..0]
    BY <2>2
  <2>4. Kept(r, 0)
    BY <2>1, <2>2, <2>3
  <2> HIDE DEF Kept
  <2> QED BY <2>4 DEF r
<1>3. ASSUME NEW n \in Nat, n \in T PROVE n + 1 \in T
  <2> SUFFICES ASSUME n + 1 <= Len(s) PROVE Kept(t[n + 1], n + 1)
    OBVIOUS
  <2> DEFINE r == t[n]
             x == s[n + 1]
  <2>1. Kept(r, n) /\ n + 1 \in 1..Len(s) /\ (n + 1) - 1 = n /\ Len(r) \in Nat /\ x \in S
    BY <1>3
  <2>2. PICK p \in [1..Len(r) -> 1..n] :
           /\ \A i, j \in 1..Len(r) : i < j => p[i] < p[j]
           /\ \A i \in 1..Len(r) : r[i] = s[p[i]] /\ s[p[i]] \in K
    BY <2>1
  <2>3. t[n + 1] = IF x \in K THEN Append(r, x) ELSE r
    BY <1>1, <2>1
  <2> HIDE DEF r, x
  <2>4. CASE x \notin K
    <3>1. p \in [1..Len(r) -> 1..(n + 1)]
      OBVIOUS
    <3>2. Kept(r, n + 1)
      BY <2>1, <2>2, <3>1
    <3> QED BY <2>3, <2>4, <3>2
  <2>5. CASE x \in K
    <3> DEFINE q == [i \in 1..(Len(r) + 1) |-> IF i = Len(r) + 1 THEN n + 1 ELSE p[i]]
               a == Append(r, x)
    <3>1. a \in Seq(S) /\ Len(a) = Len(r) + 1 /\ a[Len(r) + 1] = x
      BY <2>1
    <3>1a. \A i \in 1..Len(r) : a[i] = r[i]
      BY <2>1
    <3>2. q \in [1..(Len(r) + 1) -> 1..(n + 1)]
      BY <2>1
    <3>3. \A i \in 1..(Len(r) + 1) : i = Len(r) + 1 \/ i \in 1..Len(r)
      BY <2>1
    <3>4. ASSUME NEW i \in 1..(Len(r) + 1), NEW j \in 1..(Len(r) + 1), i < j PROVE q[i] < q[j]
      <4>1. i \in 1..Len(r) /\ q[i] = p[i] /\ p[i] \in 1..n
        <5>1. i # Len(r) + 1
          BY <2>1, <3>4
        <5>2. i \in 1..Len(r)
          BY <3>3, <5>1
        <5>3. q[i] = p[i]
          BY <5>1
        <5> HIDE DEF q
        <5> QED BY <5>2, <5>3
      <4>2. CASE j = Len(r) + 1
        <5>1. q[j] = n + 1
          BY <4>2
        <5> QED BY <4>1, <5>1
      <4>3. CASE j # Len(r) + 1
        <5>1. j \in 1..Len(r) /\ q[j] = p[j]
          BY <3>3, <4>3
        <5> QED BY <2>2, <3>4, <4>1, <5>1
      <4> QED BY <4>2, <4>3
    <3>5. ASSUME NEW i \in 1..(Len(r) + 1) PROVE a[i] = s[q[i]] /\ s[q[i]] \in K
      <4>1. CASE i = Len(r) + 1
        BY <3>1, <4>1, <2>5 DEF x
      <4>2. CASE i \in 1..Len(r)
        <5>1. q[i] = p[i]
          BY <2>1, <4>2
        <5> QED BY <2>2, <3>1a, <4>2, <5>1
      <4> QED BY <3>3, <4>1, <4>2
    <3> HIDE DEF q, a
    <3>6. Kept(a, n + 1)
      BY <3>1, <3>2, <3>4, <3>5
    <3> QED BY <2>3, <2>5, <3>6 DEF a
  <2> QED BY <2>4, <2>5
<1>4. Nat \subseteq T
  <2> HIDE DEF T
  <2> QED BY <1>2, <1>3, Induction
<1>5. Kept(t[Len(s)], Len(s))
  <2>1. Len(s) \in Nat
    OBVIOUS
  <2> HIDE DEF Kept
  <2> QED BY <1>4, <2>1
<1>6. Kept(Typing!Only(s, K), Len(s))
  <2> HIDE DEF Kept
  <2> QED BY <1>1, <1>5
<1> QED BY <1>6

-----------------------------------------------------------------------------
(* The session's list: what every item of it has, whatever the engine       *)
(* offers, and what each step of Session::rebuild does to it.               *)

OwnWord(key, w) == w.marks \in {"none", "eastern"} \/ LateOf(key, w)

\* An item of the list for the key: its base is a word that can be learned for
\* the key; its text is its base, or no such word.
Offered(key, c) ==
    /\ IsItem(c) /\ c.kind # "RawLatin"
    /\ OwnWord(key, c.base) /\ (OwnWord(key, c.text) => c.text = c.base)

Offers(key, s) == \E S : s \in Seq(S) /\ \A c \in S : Offered(key, c)
IsWord(s) == \E n \in 1..MaxRaw : s \in [1..n -> Entered]
NoTwice(s) == \A i, j \in DOMAIN s : s[i].text = s[j].text => i = j

\* FlattenSeq gives a sequence over what its sequences are over.
LEMMA FlattenKeeps ==
    ASSUME NEW S, NEW ss \in Seq(Seq(S))
    PROVE  Typing!FlattenSeq(ss) \in Seq(S)
<1> DEFINE Joined(f, n) == f = [i \in 1..n |-> IF i = 1 THEN ss[i] ELSE f[i - 1] \o ss[i]]
           N == Len(ss)
<1>1. CASE N = 0
  <2>1. ss = <<>>
    BY <1>1
  <2>2. <<>> \in Seq(S)
    OBVIOUS
  <2> QED BY <1>1, <2>1, <2>2 DEF Typing!FlattenSeq
<1>2. CASE N # 0
  <2>0. N \in Nat \ {0} /\ \A i \in 1..N : ss[i] \in Seq(S)
    BY <1>2
  <2> DEFINE T == {n \in Nat : \E f : Joined(f, n)}
  <2>1. 0 \in T
    <3> DEFINE g == [i \in 1..0 |-> <<>>]
    <3>1. \A i \in 1..0 : FALSE
      OBVIOUS
    <3>2. Joined(g, 0)
      BY <3>1
    <3> QED BY <3>2
  <2>2. ASSUME NEW n \in Nat, n \in T PROVE n + 1 \in T
    <3>1. PICK f : Joined(f, n)
      BY <2>2
    <3> DEFINE h == [i \in 1..(n + 1) |-> IF i = n + 1 THEN (IF i = 1 THEN ss[i] ELSE f[n] \o ss[i]) ELSE f[i]]
    <3>2. ASSUME NEW i \in 1..(n + 1) PROVE h[i] = IF i = 1 THEN ss[i] ELSE h[i - 1] \o ss[i]
      <4>1. CASE i = n + 1
        <5>1. i # 1 => h[i - 1] = f[n]
          BY <4>1
        <5> QED BY <4>1, <5>1
      <4>2. CASE i # n + 1
        <5>1. i \in 1..n /\ h[i] = f[i]
          BY <4>2
        <5>2. f[i] = IF i = 1 THEN ss[i] ELSE f[i - 1] \o ss[i]
          BY <3>1, <5>1
        <5>3. i # 1 => h[i - 1] = f[i - 1]
          BY <5>1
        <5> QED BY <5>1, <5>2, <5>3
      <4> QED BY <4>1, <4>2
    <3>3. h = [i \in 1..(n + 1) |-> h[i]]
      OBVIOUS
    <3> HIDE DEF h
    <3>4. Joined(h, n + 1)
      BY <3>2, <3>3
    <3> HIDE DEF Joined
    <3> QED BY <3>4
  <2> HIDE DEF Joined
  <2>3. N \in T
    <3> HIDE DEF T, N
    <3> QED BY <2>0, <2>1, <2>2, Induction
  <2> DEFINE flatten == CHOOSE f : Joined(f, N)
  <2>4. Joined(flatten, N)
    BY <2>3
  <2>5. Typing!FlattenSeq(ss) = flatten[N]
    BY <1>2 DEF Typing!FlattenSeq, Joined
  <2> HIDE DEF flatten, N
  <2> DEFINE V == {n \in Nat : n + 1 <= N => flatten[n + 1] \in Seq(S)}
  <2>6. 0 \in V
    BY <2>0, <2>4 DEF Joined
  <2>7. ASSUME NEW n \in Nat, n \in V PROVE n + 1 \in V
    <3> SUFFICES ASSUME n + 2 <= N PROVE flatten[n + 2] \in Seq(S)
      OBVIOUS
    <3>1. flatten[n + 1] \in Seq(S) /\ n + 2 \in 1..N /\ n + 2 # 1 /\ (n + 2) - 1 = n + 1
      BY <2>0, <2>7
    <3>2. flatten[n + 2] = flatten[n + 1] \o ss[n + 2]
      BY <2>4, <3>1 DEF Joined
    <3> QED BY <2>0, <3>1, <3>2
  <2>8. Nat \subseteq V
    <3> HIDE DEF V
    <3> QED BY <2>6, <2>7, Induction
  <2>9. N - 1 \in Nat /\ (N - 1) + 1 = N
    BY <2>0
  <2> QED BY <2>5, <2>8, <2>9
<1> QED BY <1>1, <1>2

\* SelectInSeq finds an item with that base, if there is one.
LEMMA FindsTheBase ==
    ASSUME NEW S, NEW items \in Seq(S), NEW w
    PROVE  LET spot == Typing!SelectInSeq(items, LAMBDA c : c.base = w)
           IN  \/ spot = 0 /\ \A i \in 1..Len(items) : items[i].base # w
               \/ spot \in 1..Len(items) /\ items[spot].base = w
<1> DEFINE I == {i \in 1..Len(items) : items[i].base = w}
<1>1. CASE I = {}
  <2>1. Typing!SelectInSeq(items, LAMBDA c : c.base = w) = 0
    BY <1>1 DEF Typing!SelectInSeq
  <2> QED BY <1>1, <2>1
<1>2. CASE I # {}
  <2>1. Typing!SelectInSeq(items, LAMBDA c : c.base = w) = Typing!Min(I)
    BY <1>2 DEF Typing!SelectInSeq
  <2>2. I \subseteq Nat
    OBVIOUS
  <2>3. PICK x \in I : \A y \in I : ~(<<y, x>> \in OpToRel(<, Nat))
    <3> HIDE DEF I
    <3> QED BY <1>2, <2>2, NatLessThanWellFounded, WFMin
  <2>4. \A y \in I : x =< y
    <3> HIDE DEF I
    <3> SUFFICES ASSUME NEW y \in I, ~(x =< y) PROVE FALSE
      OBVIOUS
    <3>1. y \in Nat /\ x \in Nat /\ y < x
      BY <2>2
    <3>2. <<y, x>> \in OpToRel(<, Nat)
      BY <3>1 DEF OpToRel
    <3> QED BY <2>3, <3>2
  <2>5. Typing!Min(I) \in I
    <3> HIDE DEF I
    <3> QED BY <2>3, <2>4 DEF Typing!Min
  <2> QED BY <2>1, <2>5
<1> QED BY <1>1, <1>2

LEMMA ListsJoin ==
    ASSUME NEW key, NEW a, NEW b, Offers(key, a), Offers(key, b)
    PROVE  Offers(key, a \o b)
<1>1. PICK A : a \in Seq(A) /\ \A c \in A : Offered(key, c)
  BY DEF Offers
<1>2. PICK B : b \in Seq(B) /\ \A c \in B : Offered(key, c)
  BY DEF Offers
<1>3. a \in Seq(A \union B) /\ b \in Seq(A \union B)
  BY <1>1, <1>2
<1>4. a \o b \in Seq(A \union B)
  BY <1>3
<1> QED BY <1>1, <1>2, <1>4 DEF Offers

LEMMA ListsOfOne ==
    ASSUME NEW key, NEW c, Offered(key, c)
    PROVE  Offers(key, <<c>>)
<1> DEFINE A == {c}
<1>1. <<c>> \in Seq(A) /\ \A e \in A : Offered(key, e)
  OBVIOUS
<1> HIDE DEF A
<1> QED BY <1>1 DEF Offers

LEMMA ListsOfNone ==
    ASSUME NEW key
    PROVE  Offers(key, <<>>)
<1> DEFINE A == {}
<1>1. <<>> \in Seq(A) /\ \A e \in A : Offered(key, e)
  OBVIOUS
<1> HIDE DEF A
<1> QED BY <1>1 DEF Offers

LEMMA ListsCut ==
    ASSUME NEW key, NEW s, Offers(key, s), NEW m \in Nat \ {0}, NEW n \in Nat, n <= Len(s)
    PROVE  Offers(key, SubSeq(s, m, n))
<1>1. PICK S : s \in Seq(S) /\ \A c \in S : Offered(key, c)
  BY DEF Offers
<1>2. \A i \in m..n : s[i] \in S
  BY <1>1
<1>3. SubSeq(s, m, n) \in Seq(S)
  BY <1>1, <1>2
<1> QED BY <1>1, <1>3 DEF Offers

\* The transforms of display.rs and normalize.rs give texts.
LEMMA Transforms ==
    ASSUME NEW t, IsText(t)
    PROVE  /\ IsText(Typing!RelaxHamza(t)) /\ Typing!RelaxHamza(t).marks = t.marks
           /\ Typing!RelaxHamza(Typing!RelaxHamza(t)) = Typing!RelaxHamza(t)
           /\ IsText(Typing!StripMarks(t)) /\ Typing!StripMarks(t).marks = "none"
           /\ t.marks = "none" => Typing!StripMarks(t) = t
           /\ IsText(Typing!StyleSacred(t)) /\ Typing!StyleSacred(t).marks = "sacred"
<1>1. PICK l, h, m : t = [letters |-> l, hamza |-> h, marks |-> m]
  BY DEF IsText, Typing!Text
<1>2. Typing!RelaxHamza(t) = [letters |-> l, hamza |-> FALSE, marks |-> m]
  <2>1. \A f : [t EXCEPT !.hamza = f] = [letters |-> l, hamza |-> f, marks |-> m]
    BY <1>1
  <2> QED BY <2>1 DEF Typing!RelaxHamza
<1>3. Typing!StripMarks(t) = [letters |-> l, hamza |-> h, marks |-> "none"]
  BY <1>1 DEF Typing!StripMarks
<1>4. Typing!StyleSacred(t) = [letters |-> l, hamza |-> h, marks |-> "sacred"]
  BY <1>1 DEF Typing!StyleSacred
<1>5. Typing!RelaxHamza(Typing!RelaxHamza(t)) = [letters |-> l, hamza |-> FALSE, marks |-> m]
  <2>1. \A f : [[letters |-> l, hamza |-> f, marks |-> m] EXCEPT !.hamza = f]
                = [letters |-> l, hamza |-> f, marks |-> m]
    OBVIOUS
  <2> QED BY <1>2, <2>1 DEF Typing!RelaxHamza
<1> QED BY <1>1, <1>2, <1>3, <1>4, <1>5 DEF IsText, Typing!Text

PhrasesFit(key) ==
    \A d \in Dialect : \A p \in Typing!ToSet(Phrases(key, d)) :
        IsText(p.text) /\ p.text.marks \notin {"sacred", "eastern"}

\* A sacred word in its style is no word that can be learned; relaxing hamzas
\* makes no difference to what can be.
LEMMA OwnWords ==
    ASSUME NEW key, PhrasesFit(key), NEW t, IsText(t)
    PROVE  /\ ~OwnWord(key, Typing!StyleSacred(t))
           /\ OwnWord(key, Typing!StripMarks(t))
           /\ OwnWord(key, Typing!RelaxHamza(t)) <=> OwnWord(key, t)
<1>1. ~LateOf(key, Typing!StyleSacred(t))
  <2> SUFFICES ASSUME NEW d \in Dialect, NEW p \in Typing!ToSet(Phrases(key, d)),
                      Typing!RelaxHamza(p.text) = Typing!RelaxHamza(Typing!StyleSacred(t))
               PROVE  FALSE
    BY DEF LateOf
  <2>1. IsText(p.text) /\ p.text.marks # "sacred"
    BY DEF PhrasesFit
  <2>2. Typing!RelaxHamza(p.text).marks = p.text.marks
    BY <2>1, Transforms
  <2>3. Typing!RelaxHamza(Typing!StyleSacred(t)).marks = "sacred"
    BY Transforms
  <2> QED BY <2>1, <2>2, <2>3
<1>2. LateOf(key, Typing!RelaxHamza(t)) <=> LateOf(key, t)
  <2>1. Typing!RelaxHamza(Typing!RelaxHamza(t)) = Typing!RelaxHamza(t)
    BY Transforms
  <2> QED BY <2>1 DEF LateOf
<1>3. /\ Typing!StyleSacred(t).marks = "sacred" /\ Typing!StripMarks(t).marks = "none"
      /\ Typing!RelaxHamza(t).marks = t.marks
  BY Transforms
<1> QED BY <1>1, <1>2, <1>3 DEF OwnWord

\* An item whose text is its base, and one whose text has marks of its own.
LEMMA OfferedAsIs ==
    ASSUME NEW key, NEW t, IsText(t), OwnWord(key, t), NEW kind, kind # "RawLatin", NEW lexical
    PROVE  Offered(key, Typing!Candidate(t, t, kind, lexical))
BY DEF Offered, IsItem, Typing!Candidate

LEMMA OfferedMarked ==
    ASSUME NEW key, PhrasesFit(key), NEW t, IsText(t), t.marks # "eastern", ~LateOf(key, t),
           NEW kind, kind # "RawLatin", NEW lexical
    PROVE  Offered(key, Typing!Candidate(t, Typing!StripMarks(t), kind, lexical))
<1>1. IsText(Typing!StripMarks(t)) /\ OwnWord(key, Typing!StripMarks(t))
  BY Transforms, OwnWords
<1>2. OwnWord(key, t) => t = Typing!StripMarks(t)
  BY Transforms DEF OwnWord
<1> QED BY <1>1, <1>2 DEF Offered, IsItem, Typing!Candidate

\* What comes before the engine's readings.
LEMMA NumbersOffer ==
    ASSUME NEW key, NEW s, NEW set
    PROVE  Offers(key, Typing!Numbers(s, set))
<1> DEFINE t == Typing!Numerals(s, set.eastern)
<1>1. IsText(t) /\ OwnWord(key, t)
  BY DEF IsText, OwnWord, Typing!Numerals, Typing!Text
<1> HIDE DEF t
<1>2. Offered(key, Typing!Candidate(t, t, "Number", FALSE))
  BY <1>1, OfferedAsIs
<1>3. Offers(key, <<Typing!Candidate(t, t, "Number", FALSE)>>)
  BY <1>2, ListsOfOne
<1> QED BY <1>3, ListsOfNone DEF Typing!Numbers, t

LEMMA SpecialOffer ==
    ASSUME NEW key, NEW chars, NEW kind, kind # "RawLatin"
    PROVE  Offers(key, Typing!Special(Typing!Plain(chars), kind))
<1> DEFINE t == Typing!Plain(chars)
<1>1. IsText(t) /\ t.marks = "none"
  BY DEF IsText, Typing!Plain, Typing!Text
<1> HIDE DEF t
<1>2. Typing!StripMarks(t) = t /\ OwnWord(key, t)
  BY <1>1, Transforms DEF OwnWord
<1>3. Offered(key, Typing!Candidate(t, t, kind, FALSE))
  BY <1>1, <1>2, OfferedAsIs
<1>4. Offers(key, <<Typing!Candidate(t, t, kind, FALSE)>>)
  BY <1>3, ListsOfOne
<1> QED BY <1>2, <1>4 DEF Typing!Special, t

LEMMA LaughterOffers ==
    ASSUME NEW key, NEW s
    PROVE  Offers(key, Typing!Laughter(s))
BY SpecialOffer, ListsOfNone DEF Typing!Laughter

LEMMA JoinersOffer ==
    ASSUME NEW key, NEW s, NEW set
    PROVE  Offers(key, Typing!Joiners(s, set))
BY SpecialOffer, ListsOfNone DEF Typing!Joiners

\* Only keeps elements of K.
LEMMA OnlyOver ==
    ASSUME NEW S, NEW s \in Seq(S), NEW K
    PROVE  Typing!Only(s, K) \in Seq(K)
<1> DEFINE r == Typing!Only(s, K)
<1>1. r \in Seq(S) /\ \A i \in 1..Len(r) : r[i] \in K
  <2>1. PICK p \in [1..Len(r) -> 1..Len(s)] : \A i \in 1..Len(r) : r[i] = s[p[i]] /\ s[p[i]] \in K
    BY OnlyKeeps
  <2> HIDE DEF r
  <2>2. \A i \in 1..Len(r) : r[i] \in K
    BY <2>1
  <2>3. r \in Seq(S)
    BY OnlyKeeps DEF r
  <2> QED BY <2>2, <2>3
<1> HIDE DEF r
<1>2. r \in Seq(K)
  BY <1>1
<1> QED BY <1>2 DEF r

\* What WordData says of a word typed and the dialect.
LEMMA EngineFits ==
    ASSUME NEW s, IsWord(s), NEW d \in Dialect
    PROVE  /\ PhrasesFit(Typing!Key(s))
           /\ \E S : /\ Readings(Typing!Syms(s), d) \in Seq(S)
                     /\ \A c \in S : /\ IsItem(c) /\ c.kind # "RawLatin" /\ c.base = Typing!StripMarks(c.text)
                                     /\ c.text.marks # "eastern" /\ ~LateOf(Typing!Key(s), c.text)
           /\ \E S : /\ Phrases(Typing!Key(s), d) \in Seq(S)
                     /\ \A p \in S : /\ p \in Typing!ToSet(Phrases(Typing!Key(s), d))
                                     /\ p.default \in BOOLEAN
                                     /\ p.default => ~LateOf(Typing!Key(s), p.text)
<1>1. PICK n \in 1..MaxRaw : s \in [1..n -> Entered]
  BY DEF IsWord
<1> DEFINE Fits(e) ==
          LET readings == Readings(Typing!Syms(s), e)
              phrases == Phrases(Typing!Key(s), e)
          IN  /\ readings \in Seq(Typing!ToSet(readings)) /\ phrases \in Seq(Typing!ToSet(phrases))
              /\ \A c \in Typing!ToSet(readings) :
                    /\ IsItem(c) /\ c.kind # "RawLatin" /\ c.base = Typing!StripMarks(c.text)
                    /\ c.text.marks # "eastern" /\ ~LateOf(Typing!Key(s), c.text)
              /\ \A p \in Typing!ToSet(phrases) :
                    /\ IsText(p.text) /\ p.default \in BOOLEAN /\ p.text.marks \notin {"sacred", "eastern"}
                    /\ p.default => ~LateOf(Typing!Key(s), p.text)
<1>2. \A e \in Dialect : Fits(e)
  BY <1>1, WordData
<1>3. PhrasesFit(Typing!Key(s))
  BY <1>2 DEF PhrasesFit
<1>4. Fits(d)
  BY <1>2
<1> QED BY <1>3, <1>4

\* The phrases, first and late, around the readings.
LEMMA WithPhrasesOffers ==
    ASSUME NEW key, PhrasesFit(key), NEW items, Offers(key, items), NEW scored, Offers(key, scored),
           NEW d \in Dialect, NEW S, Phrases(key, d) \in Seq(S),
           \A p \in S : /\ p \in Typing!ToSet(Phrases(key, d)) /\ p.default \in BOOLEAN
                        /\ p.default => ~LateOf(key, p.text)
    PROVE  Offers(key, Typing!WithPhrases(items, scored, Phrases(key, d)))
<1> DEFINE phrases == Phrases(key, d)
           KT == {p \in Typing!ToSet(phrases) : p.default = TRUE}
           KF == {p \in Typing!ToSet(phrases) : p.default = FALSE}
           OfT == Typing!Only(phrases, KT)
           OfF == Typing!Only(phrases, KF)
           Asked(ps) == [i \in DOMAIN ps |-> Typing!Candidate(ps[i].text, ps[i].text, "Phrase", FALSE)]
           Given(ps) == [i \in DOMAIN ps |->
                            Typing!Candidate(ps[i].text, Typing!StripMarks(ps[i].text), "Phrase", FALSE)]
<1>1. ASSUME NEW p \in KT
      PROVE  Offered(key, Typing!Candidate(p.text, Typing!StripMarks(p.text), "Phrase", FALSE))
  <2>1. p \in S /\ p.default = TRUE
    BY DEF Typing!ToSet
  <2>2. IsText(p.text) /\ p.text.marks # "eastern" /\ ~LateOf(key, p.text)
    BY <2>1 DEF PhrasesFit
  <2> QED BY <2>2, OfferedMarked
<1>2. ASSUME NEW p \in KF
      PROVE  Offered(key, Typing!Candidate(p.text, p.text, "Phrase", FALSE))
  <2>1. p.default = FALSE /\ IsText(p.text)
    BY DEF PhrasesFit
  <2>2. p.text.marks # "none" => LateOf(key, p.text)
    BY <2>1 DEF LateOf
  <2>3. OwnWord(key, p.text)
    BY <2>2 DEF OwnWord
  <2> QED BY <2>1, <2>3, OfferedAsIs
<1>3. Offers(key, Given(OfT))
  <2> DEFINE ps == OfT
             G == {Typing!Candidate(p.text, Typing!StripMarks(p.text), "Phrase", FALSE) : p \in KT}
  <2>1. ps \in Seq(KT)
    BY OnlyOver
  <2> HIDE DEF ps, KT, KF
  <2>2. Given(ps) \in Seq(G)
    <3>1. Len(ps) \in Nat /\ DOMAIN ps = 1..Len(ps) /\ \A i \in 1..Len(ps) : ps[i] \in KT
      BY <2>1
    <3>2. Given(ps) \in [1..Len(ps) -> G]
      BY <3>1
    <3> HIDE DEF G, Given
    <3> QED BY <3>1, <3>2
  <2>3. \A c \in G : Offered(key, c)
    BY <1>1
  <2> HIDE DEF G
  <2>4. Offers(key, Given(ps))
    BY <2>2, <2>3 DEF Offers
  <2> QED BY <2>4 DEF ps
<1>4. Offers(key, Asked(OfF))
  <2> DEFINE ps == OfF
             G == {Typing!Candidate(p.text, p.text, "Phrase", FALSE) : p \in KF}
  <2>1. ps \in Seq(KF)
    BY OnlyOver
  <2> HIDE DEF ps, KT, KF
  <2>2. Asked(ps) \in Seq(G)
    <3>1. Len(ps) \in Nat /\ DOMAIN ps = 1..Len(ps) /\ \A i \in 1..Len(ps) : ps[i] \in KF
      BY <2>1
    <3>2. Asked(ps) \in [1..Len(ps) -> G]
      BY <3>1
    <3> HIDE DEF G, Asked
    <3> QED BY <3>1, <3>2
  <2>3. \A c \in G : Offered(key, c)
    BY <1>2
  <2> HIDE DEF G
  <2>4. Offers(key, Asked(ps))
    BY <2>2, <2>3 DEF Offers
  <2> QED BY <2>4 DEF ps
<1> HIDE DEF Asked, Given, OfT, OfF
<1> DEFINE first == items \o Given(OfT)
           spot == IF first = <<>> /\ scored # <<>> THEN 1 ELSE 0
<1>5. Offers(key, first)
  BY <1>3, ListsJoin
<1>6. spot \in Nat /\ spot <= Len(scored) /\ Len(scored) \in Nat /\ spot + 1 \in Nat \ {0}
  <2>1. PICK R : scored \in Seq(R)
    BY DEF Offers
  <2>2. Len(scored) \in Nat /\ (scored # <<>> => Len(scored) >= 1)
    BY <2>1
  <2> HIDE DEF first
  <2> QED BY <2>2
<1> HIDE DEF first, spot
<1>7. Offers(key, SubSeq(scored, 1, spot)) /\ Offers(key, SubSeq(scored, spot + 1, Len(scored)))
  <2>1. Offers(key, SubSeq(scored, 1, spot))
    BY <1>6, ListsCut
  <2>2. Offers(key, SubSeq(scored, spot + 1, Len(scored)))
    BY <1>6, ListsCut
  <2> QED BY <2>1, <2>2
<1>8. Offers(key, first \o SubSeq(scored, 1, spot))
  BY <1>5, <1>7, ListsJoin
<1>9. Offers(key, (first \o SubSeq(scored, 1, spot)) \o Asked(OfF))
  BY <1>4, <1>8, ListsJoin
<1>10. Offers(key, ((first \o SubSeq(scored, 1, spot)) \o Asked(OfF)) \o SubSeq(scored, spot + 1, Len(scored)))
  BY <1>7, <1>9, ListsJoin
<1> QED BY <1>10 DEF Typing!WithPhrases, first, spot, Given, Asked, OfT, OfF

LEMMA SuggestedOffers ==
    ASSUME NEW s, IsWord(s), NEW set, NEW d \in Dialect
    PROVE  Offers(Typing!Key(s), Typing!Suggested(s, set, d))
<1> DEFINE key == Typing!Key(s)
           scored == Readings(Typing!Syms(s), d)
           before == (Typing!Numbers(s, set) \o Typing!Laughter(s)) \o Typing!Joiners(s, set)
<1> HIDE DEF key, scored, before
<1>1. PhrasesFit(key)
  BY EngineFits DEF key
<1>2. PICK S : /\ scored \in Seq(S)
               /\ \A c \in S : /\ IsItem(c) /\ c.kind # "RawLatin" /\ c.base = Typing!StripMarks(c.text)
                               /\ c.text.marks # "eastern" /\ ~LateOf(key, c.text)
  BY EngineFits DEF key, scored
<1>3. ASSUME NEW c \in S PROVE Offered(key, c)
  <2>1. Offered(key, Typing!Candidate(c.text, Typing!StripMarks(c.text), c.kind, c.lexical))
    BY <1>1, <1>2, OfferedMarked DEF IsItem
  <2> QED BY <1>2, <2>1 DEF IsItem
<1>4. Offers(key, scored)
  BY <1>2, <1>3 DEF Offers
<1>5. Offers(key, Typing!Numbers(s, set) \o Typing!Laughter(s))
  BY NumbersOffer, LaughterOffers, ListsJoin
<1>6. Offers(key, before)
  BY <1>5, JoinersOffer, ListsJoin DEF before
<1>7. PICK P : /\ Phrases(key, d) \in Seq(P)
               /\ \A p \in P : /\ p \in Typing!ToSet(Phrases(key, d))
                               /\ p.default \in BOOLEAN
                               /\ p.default => ~LateOf(key, p.text)
  BY EngineFits DEF key
<1>8. Offers(key, Typing!WithPhrases(before, scored, Phrases(key, d)))
  BY <1>1, <1>4, <1>6, <1>7, WithPhrasesOffers
<1> QED BY <1>8, NumbersOffer DEF Typing!Suggested, key, scored, before

\* A sacred word's two forms are each as good an item.
LEMMA StyledOffers ==
    ASSUME NEW key, PhrasesFit(key), NEW items, Offers(key, items), NEW set
    PROVE  Offers(key, Typing!Styled(items, set))
<1>1. PICK S : items \in Seq(S) /\ \A c \in S : Offered(key, c)
  BY DEF Offers
<1> DEFINE Style(c) == [c EXCEPT !.text = Typing!StyleSacred(@)]
           Unstyle(c) == [c EXCEPT !.text = c.base]
           Forms(c) == IF Typing!ContainsSacred(c.base) /\ set.styled THEN <<Style(c), Unstyle(c)>> ELSE <<c>>
           G == S \union {Style(c) : c \in S} \union {Unstyle(c) : c \in S}
           all == [i \in DOMAIN items |-> Forms(items[i])]
<1>2. ASSUME NEW c \in S PROVE Offered(key, Style(c)) /\ Offered(key, Unstyle(c))
  <2>1. IsItem(c) /\ c.kind # "RawLatin" /\ OwnWord(key, c.base)
    BY <1>1 DEF Offered
  <2>2. PICK t, b, k, x : c = [text |-> t, base |-> b, kind |-> k, lexical |-> x]
    BY <2>1 DEF IsItem, Typing!Candidate
  <2>3. IsText(t) /\ IsText(b) /\ k # "RawLatin" /\ OwnWord(key, b)
    BY <2>1, <2>2 DEF IsItem
  <2>4. Style(c) = [text |-> Typing!StyleSacred(t), base |-> b, kind |-> k, lexical |-> x]
    <3>1. \A e : [c EXCEPT !.text = e] = [text |-> e, base |-> b, kind |-> k, lexical |-> x] /\ c.text = t
      BY <2>2
    <3> QED BY <3>1
  <2>5. Unstyle(c) = [text |-> b, base |-> b, kind |-> k, lexical |-> x]
    <3>1. \A e : [c EXCEPT !.text = e] = [text |-> e, base |-> b, kind |-> k, lexical |-> x] /\ c.base = b
      BY <2>2
    <3> QED BY <3>1
  <2>6. ~OwnWord(key, Typing!StyleSacred(t)) /\ IsText(Typing!StyleSacred(t))
    BY <2>3, OwnWords, Transforms
  <2> HIDE DEF Style, Unstyle
  <2>7. Offered(key, Style(c))
    BY <2>3, <2>4, <2>6 DEF Offered, IsItem, Typing!Candidate
  <2>8. Offered(key, Unstyle(c))
    BY <2>3, <2>5 DEF Offered, IsItem, Typing!Candidate
  <2> QED BY <2>7, <2>8
<1> HIDE DEF Style, Unstyle
<1>3. \A c \in S : Forms(c) \in Seq(G)
  <2> SUFFICES ASSUME NEW c \in S PROVE Forms(c) \in Seq(G)
    OBVIOUS
  <2>1. c \in G /\ Style(c) \in G /\ Unstyle(c) \in G
    OBVIOUS
  <2> HIDE DEF G
  <2> QED BY <2>1
<1>4. \A c \in G : Offered(key, c)
  BY <1>1, <1>2
<1> HIDE DEF Forms, G
<1>5. Len(items) \in Nat /\ DOMAIN items = 1..Len(items) /\ \A i \in 1..Len(items) : items[i] \in S
  BY <1>1
<1>6. all \in [1..Len(items) -> Seq(G)]
  BY <1>3, <1>5
<1>7. all \in Seq(Seq(G))
  <2> HIDE DEF all
  <2> QED BY <1>5, <1>6
<1>8. Typing!FlattenSeq(all) \in Seq(G)
  <2> HIDE DEF all
  <2> QED BY <1>7, FlattenKeeps
<1>9. Offers(key, Typing!FlattenSeq(all))
  <2> HIDE DEF all
  <2> QED BY <1>4, <1>8 DEF Offers
<1> QED BY <1>9 DEF Typing!Styled, Forms, Style, Unstyle

LEMMA HamzaOffers ==
    ASSUME NEW key, PhrasesFit(key), NEW items, Offers(key, items), NEW set
    PROVE  Offers(key, Typing!Hamza(items, set))
<1>1. PICK S : items \in Seq(S) /\ \A c \in S : Offered(key, c)
  BY DEF Offers
<1> DEFINE Relax(c) == [c EXCEPT !.text = Typing!RelaxHamza(@), !.base = Typing!RelaxHamza(@)]
           G == {Relax(c) : c \in S}
           all == [i \in DOMAIN items |-> Relax(items[i])]
<1>2. ASSUME NEW c \in S PROVE Offered(key, Relax(c))
  <2>1. IsItem(c) /\ c.kind # "RawLatin" /\ OwnWord(key, c.base) /\ (OwnWord(key, c.text) => c.text = c.base)
    BY <1>1 DEF Offered
  <2>2. PICK t, b, k, x : c = [text |-> t, base |-> b, kind |-> k, lexical |-> x]
    BY <2>1 DEF IsItem, Typing!Candidate
  <2>3. IsText(t) /\ IsText(b) /\ k # "RawLatin" /\ OwnWord(key, b) /\ (OwnWord(key, t) => t = b)
    BY <2>1, <2>2 DEF IsItem
  <2>4. Relax(c) = [text |-> Typing!RelaxHamza(t), base |-> Typing!RelaxHamza(b), kind |-> k, lexical |-> x]
    <3>1. ASSUME NEW e, NEW f
          PROVE  [c EXCEPT !.text = e, !.base = f] = [text |-> e, base |-> f, kind |-> k, lexical |-> x]
      <4> DEFINE g == [c EXCEPT !.text = e, !.base = f]
      <4>1. DOMAIN c = {"text", "base", "kind", "lexical"} /\ c.kind = k /\ c.lexical = x
        BY <2>2
      <4>2. g = [i \in {"text", "base", "kind", "lexical"} |-> g[i]]
        BY <4>1
      <4>3. g.text = e /\ g.base = f /\ g.kind = k /\ g.lexical = x
        BY <4>1
      <4> HIDE DEF g
      <4>4. g = [text |-> e, base |-> f, kind |-> k, lexical |-> x]
        BY <4>2, <4>3
      <4> QED BY <4>4 DEF g
    <3>2. c.text = t /\ c.base = b
      BY <2>2
    <3> QED BY <3>1, <3>2
  <2>5. /\ IsText(Typing!RelaxHamza(t)) /\ IsText(Typing!RelaxHamza(b))
        /\ OwnWord(key, Typing!RelaxHamza(t)) <=> OwnWord(key, t)
        /\ OwnWord(key, Typing!RelaxHamza(b))
    BY <2>3, OwnWords, Transforms
  <2> HIDE DEF Relax
  <2> QED BY <2>3, <2>4, <2>5 DEF Offered, IsItem, Typing!Candidate
<1> HIDE DEF Relax
<1>3. \A c \in G : Offered(key, c)
  BY <1>2
<1>4. Len(items) \in Nat /\ DOMAIN items = 1..Len(items) /\ \A i \in 1..Len(items) : items[i] \in S
  BY <1>1
<1>5. all \in [1..Len(items) -> G]
  BY <1>4
<1> HIDE DEF G, all
<1>6. all \in Seq(G)
  BY <1>4, <1>5
<1>7. Offers(key, all)
  BY <1>3, <1>6 DEF Offers
<1> QED BY <1>7 DEF Typing!Hamza, all, Relax

\* Of the items that look alike, the first stays.
LEMMA DedupOffers ==
    ASSUME NEW key, NEW items, Offers(key, items)
    PROVE  Offers(key, Typing!Dedup(items)) /\ NoTwice(Typing!Dedup(items))
<1>1. PICK S : items \in Seq(S) /\ \A c \in S : Offered(key, c)
  BY DEF Offers
<1> DEFINE N == Len(items)
           numbers == [i \in DOMAIN items |-> i]
           new == {i \in DOMAIN items : \A j \in 1..(i - 1) : items[j].text # items[i].text}
           spot == Typing!Only(numbers, new)
           left == [n \in DOMAIN spot |-> items[spot[n]]]
<1>2. N \in Nat /\ DOMAIN items = 1..N /\ (\A i \in 1..N : items[i] \in S)
  BY <1>1
<1>3. numbers \in Seq(Nat) /\ Len(numbers) = N /\ \A i \in 1..N : numbers[i] = i
  <2>1. numbers \in [1..N -> Nat]
    BY <1>2
  <2>2. \A i \in 1..N : numbers[i] = i
    BY <1>2
  <2> HIDE DEF numbers
  <2> QED BY <1>2, <2>1, <2>2
<1> HIDE DEF numbers, new
<1>4. spot \in Seq(Nat)
  BY <1>3, OnlyKeeps
<1>5. PICK p \in [1..Len(spot) -> 1..N] :
         /\ \A i, j \in 1..Len(spot) : i < j => p[i] < p[j]
         /\ \A i \in 1..Len(spot) : spot[i] = numbers[p[i]] /\ numbers[p[i]] \in new
  BY <1>3, OnlyKeeps
<1> HIDE DEF spot, N
<1>6. /\ Len(spot) \in Nat /\ DOMAIN spot = 1..Len(spot)
      /\ \A i \in 1..Len(spot) : spot[i] \in 1..N /\ spot[i] \in new
      /\ \A i, j \in 1..Len(spot) : i < j => spot[i] < spot[j]
  <2>1. Len(spot) \in Nat /\ DOMAIN spot = 1..Len(spot)
    BY <1>4
  <2>2. \A i \in 1..Len(spot) : spot[i] = p[i] /\ p[i] \in 1..N /\ p[i] \in new
    BY <1>3, <1>5
  <2> QED BY <1>5, <2>1, <2>2
<1>7. left \in [1..Len(spot) -> S]
  BY <1>2, <1>6
<1>8. ASSUME NEW i \in 1..Len(spot), NEW j \in 1..Len(spot), i < j PROVE left[i].text # left[j].text
  <2>1. spot[i] \in 1..(spot[j] - 1)
    BY <1>2, <1>6, <1>8
  <2>2. items[spot[i]].text # items[spot[j]].text
    BY <1>6, <2>1 DEF new
  <2> QED BY <1>6, <2>2
<1> HIDE DEF left
<1>9. DOMAIN left = 1..Len(spot)
  BY <1>7
<1>10. NoTwice(left)
  <2> SUFFICES ASSUME NEW i \in 1..Len(spot), NEW j \in 1..Len(spot), left[i].text = left[j].text, i # j
               PROVE  FALSE
    BY <1>9 DEF NoTwice
  <2>1. i < j \/ j < i
    BY <1>6
  <2> QED BY <1>8, <2>1
<1>11. left \in Seq(S)
  BY <1>6, <1>7
<1>12. Offers(key, left)
  BY <1>1, <1>11 DEF Offers
<1> QED BY <1>10, <1>12 DEF Typing!Dedup, left, spot, numbers, new

LEMMA StyledListOffers ==
    ASSUME NEW s, IsWord(s), NEW set, NEW d \in Dialect
    PROVE  /\ Offers(Typing!Key(s), Typing!StyledList(s, set, d))
           /\ NoTwice(Typing!StyledList(s, set, d))
<1>1. PhrasesFit(Typing!Key(s))
  BY EngineFits
<1>2. Offers(Typing!Key(s), Typing!Suggested(s, set, d))
  BY SuggestedOffers
<1>3. Offers(Typing!Key(s), Typing!Styled(Typing!Suggested(s, set, d), set))
  BY <1>1, <1>2, StyledOffers
<1>4. Offers(Typing!Key(s), Typing!Hamza(Typing!Styled(Typing!Suggested(s, set, d), set), set))
  BY <1>1, <1>3, HamzaOffers
<1> QED BY <1>4, DedupOffers DEF Typing!StyledList

\* What \o joins, item by item.
LEMMA Joins ==
    ASSUME NEW S, NEW a \in Seq(S), NEW b \in Seq(S)
    PROVE  /\ a \o b \in Seq(S) /\ Len(a \o b) = Len(a) + Len(b)
           /\ \A i \in 1..Len(a) : (a \o b)[i] = a[i]
           /\ \A i \in 1..Len(b) : (a \o b)[Len(a) + i] = b[i]
<1>1. a \o b \in Seq(S)
  OBVIOUS
<1>2. Len(a \o b) = Len(a) + Len(b)
  OBVIOUS
<1>3. \A i \in 1..Len(a) : (a \o b)[i] = a[i]
  OBVIOUS
<1>4. \A i \in 1..Len(b) : (a \o b)[Len(a) + i] = b[i]
  OBVIOUS
<1> QED BY <1>1, <1>2, <1>3, <1>4

LEMMA JoinsOne ==
    ASSUME NEW S, NEW x \in S, NEW m \in Seq(S)
    PROVE  /\ <<x>> \o m \in Seq(S) /\ Len(<<x>> \o m) = Len(m) + 1
           /\ (<<x>> \o m)[1] = x
           /\ \A i \in 1..Len(m) : (<<x>> \o m)[i + 1] = m[i]
<1> DEFINE a == <<x>>
<1>0. a \in Seq(S)
  OBVIOUS
<1>1. Len(a) = 1 /\ a[1] = x /\ Len(m) \in Nat
  OBVIOUS
<1> HIDE DEF a
<1>2. /\ a \o m \in Seq(S) /\ Len(a \o m) = Len(a) + Len(m)
      /\ \A i \in 1..Len(a) : (a \o m)[i] = a[i]
      /\ \A i \in 1..Len(m) : (a \o m)[Len(a) + i] = m[i]
  <2>1. a \o m \in Seq(S)
    BY <1>0, Joins
  <2>2. Len(a \o m) = Len(a) + Len(m)
    BY <1>0, Joins
  <2>3. \A i \in 1..Len(a) : (a \o m)[i] = a[i]
    BY <1>0, Joins
  <2>4. \A i \in 1..Len(m) : (a \o m)[Len(a) + i] = m[i]
    BY <1>0, Joins
  <2> QED BY <2>1, <2>2, <2>3, <2>4
<1>3. /\ a \o m \in Seq(S) /\ Len(a \o m) = Len(m) + 1 /\ (a \o m)[1] = x
  BY <1>1, <1>2
<1>4. ASSUME NEW i \in 1..Len(m) PROVE (a \o m)[i + 1] = m[i]
  <2>1. Len(a) + i = i + 1
    BY <1>1
  <2> QED BY <1>2, <2>1
<1> QED BY <1>3, <1>4 DEF a

\* The word chosen last, put in front, is no item's twin.
LEMMA StickyOffers ==
    ASSUME NEW key, NEW items, Offers(key, items), NoTwice(items),
           NEW w, IsText(w), OwnWord(key, w)
    PROVE  LET r == Typing!Sticky(items, w)
           IN  Offers(key, r) /\ NoTwice(r) /\ r # <<>> /\ r[1].base = w
<1>1. PICK S : items \in Seq(S) /\ \A c \in S : Offered(key, c)
  BY DEF Offers
<1>2. Len(items) \in Nat /\ DOMAIN items = 1..Len(items) /\ \A i \in 1..Len(items) : items[i] \in S
  BY <1>1
<1> DEFINE spot == Typing!SelectInSeq(items, LAMBDA c : c.base = w)
           own == Typing!Candidate(w, w, "Custom", FALSE)
           r == Typing!Sticky(items, w)
<1>3. \/ spot = 0 /\ \A i \in 1..Len(items) : items[i].base # w
      \/ spot \in 1..Len(items) /\ items[spot].base = w
  BY <1>1, FindsTheBase
<1>4. CASE spot = 0
  <2>1. r = <<own>> \o items
    BY <1>4 DEF Typing!Sticky
  <2>2. own.text = w /\ own.base = w
    BY DEF Typing!Candidate
  <2>3. Offered(key, own)
    BY OfferedAsIs
  <2> HIDE DEF own, r, spot
  <2>4. Offers(key, r)
    BY <2>1, <2>3, ListsJoin, ListsOfOne
  <2>5. \A i \in 1..Len(items) : items[i].text # w
    BY <1>1, <1>2, <1>3, <1>4 DEF Offered
  <2>6. DOMAIN r = 1..(Len(items) + 1) /\ r[1] = own /\ r # <<>>
        /\ \A i \in 2..(Len(items) + 1) : r[i] = items[i - 1] /\ i - 1 \in 1..Len(items)
    BY <1>2, <2>1
  <2>7. NoTwice(r)
    <3> SUFFICES ASSUME NEW i \in 1..(Len(items) + 1), NEW j \in 1..(Len(items) + 1), r[i].text = r[j].text
                 PROVE  i = j
      BY <2>6 DEF NoTwice
    <3>1. (i = 1 \/ i \in 2..(Len(items) + 1)) /\ (j = 1 \/ j \in 2..(Len(items) + 1))
      BY <1>2
    <3>2. CASE i = 1 \/ j = 1
      BY <2>2, <2>5, <2>6, <3>1, <3>2
    <3>3. CASE i # 1 /\ j # 1
      <4>1. items[i - 1].text = items[j - 1].text /\ i - 1 \in DOMAIN items /\ j - 1 \in DOMAIN items
        BY <1>2, <2>6, <3>1, <3>3
      <4>2. i - 1 = j - 1
        BY <4>1 DEF NoTwice
      <4> QED BY <4>2
    <3> QED BY <3>2, <3>3
  <2> QED BY <2>2, <2>4, <2>6, <2>7 DEF r
<1>5. CASE spot \in 1..Len(items) /\ items[spot].base = w
  <2> DEFINE before == SubSeq(items, 1, spot - 1)
             after == SubSeq(items, spot + 1, Len(items))
             old(i) == IF i = 1 THEN spot ELSE IF i <= spot THEN i - 1 ELSE i
  <2>1. spot # 0
    BY <1>2, <1>5
  <2>2. r = <<items[spot]>> \o (before \o after)
    BY <2>1 DEF Typing!Sticky, Typing!RemoveAt
  <2>3. Offers(key, <<items[spot]>>)
    BY <1>1, <1>2, <1>5, ListsOfOne
  <2> HIDE DEF r, spot
  <2>4. Offers(key, before) /\ Offers(key, after)
    <3>1. spot - 1 \in Nat /\ spot - 1 <= Len(items) /\ spot + 1 \in Nat \ {0} /\ 1 \in Nat \ {0}
      BY <1>2, <1>5
    <3>2. Offers(key, before)
      BY <1>2, <3>1, ListsCut
    <3>3. Offers(key, after)
      BY <1>2, <3>1, ListsCut
    <3> QED BY <3>2, <3>3
  <2>5. Offers(key, before \o after)
    BY <2>4, ListsJoin
  <2>6. Offers(key, r)
    BY <2>2, <2>3, <2>5, ListsJoin
  <2>7. /\ before \in Seq(S) /\ after \in Seq(S) /\ Len(before) = spot - 1 /\ Len(after) = Len(items) - spot
        /\ \A i \in 1..(spot - 1) : before[i] = items[i]
        /\ \A i \in 1..(Len(items) - spot) : after[i] = items[spot + i]
    <3>1. /\ items \in Seq(S) /\ spot \in Nat /\ spot - 1 \in Nat /\ spot <= Len(items)
          /\ spot + 1 \in Nat /\ Len(items) \in Nat
      BY <1>1, <1>2, <1>5
    <3>2. before \in Seq(S) /\ Len(before) = spot - 1
      BY <3>1
    <3>3. after \in Seq(S) /\ Len(after) = Len(items) - spot
      BY <3>1
    <3>4. \A i \in 1..(spot - 1) : before[i] = items[i]
      BY <3>1
    <3>5. \A i \in 1..(Len(items) - spot) : after[i] = items[spot + i]
      BY <3>1
    <3> QED BY <3>2, <3>3, <3>4, <3>5
  <2> HIDE DEF before, after
  <2>8. /\ before \o after \in Seq(S) /\ Len(before \o after) = Len(items) - 1
        /\ \A i \in 1..(spot - 1) : (before \o after)[i] = items[i]
        /\ \A i \in spot..(Len(items) - 1) : (before \o after)[i] = items[i + 1]
    <3>1. /\ before \o after \in Seq(S) /\ Len(before \o after) = Len(before) + Len(after)
          /\ \A i \in 1..Len(before) : (before \o after)[i] = before[i]
          /\ \A i \in 1..Len(after) : (before \o after)[Len(before) + i] = after[i]
      <4>1. before \o after \in Seq(S)
        BY <2>7, Joins
      <4>2. Len(before \o after) = Len(before) + Len(after)
        BY <2>7, Joins
      <4>3. \A i \in 1..Len(before) : (before \o after)[i] = before[i]
        BY <2>7, Joins
      <4>4. \A i \in 1..Len(after) : (before \o after)[Len(before) + i] = after[i]
        BY <2>7, Joins
      <4> QED BY <4>1, <4>2, <4>3, <4>4
    <3> DEFINE m == before \o after
    <3> HIDE DEF m
    <3>2. Len(m) = Len(items) - 1
      BY <1>2, <1>5, <2>7, <3>1 DEF m
    <3>3. \A i \in 1..(spot - 1) : m[i] = items[i]
      BY <2>7, <3>1 DEF m
    <3>4. ASSUME NEW i \in spot..(Len(items) - 1) PROVE m[i] = items[i + 1]
      <4> DEFINE k == i - spot + 1
      <4>1. k \in 1..(Len(items) - spot) /\ (spot - 1) + k = i /\ spot + k = i + 1
        BY <1>2, <1>5
      <4> HIDE DEF k
      <4>2. m[i] = after[k] /\ after[k] = items[i + 1]
        BY <2>7, <3>1, <4>1 DEF m
      <4> QED BY <4>2
    <3> QED BY <3>1, <3>2, <3>3, <3>4 DEF m
  <2>9. /\ DOMAIN r = 1..Len(items) /\ r # <<>> /\ r[1] = items[spot]
        /\ \A i \in 2..Len(items) : r[i] = (before \o after)[i - 1]
    <3> DEFINE m == before \o after
               x == items[spot]
    <3>1. /\ r = <<x>> \o m /\ m \in Seq(S) /\ Len(m) = Len(items) - 1
          /\ Len(items) \in Nat /\ x \in S
      BY <1>2, <1>5, <2>2, <2>8
    <3> HIDE DEF m, x
    <3>2. /\ r \in Seq(S) /\ Len(r) = Len(items) /\ r[1] = x
          /\ \A i \in 1..Len(m) : r[i + 1] = m[i]
      BY <3>1, JoinsOne
    <3>3. ASSUME NEW i \in 2..Len(items) PROVE r[i] = m[i - 1]
      <4>1. i - 1 \in 1..Len(m) /\ (i - 1) + 1 = i
        BY <3>1
      <4> QED BY <3>2, <4>1
    <3>4. DOMAIN r = 1..Len(items) /\ r # <<>>
      BY <1>2, <1>5, <3>2
    <3> QED BY <3>2, <3>3, <3>4 DEF m, x
  <2>10. ASSUME NEW i \in 1..Len(items) PROVE r[i] = items[old(i)] /\ old(i) \in 1..Len(items)
    <3>1. CASE i = 1
      BY <1>5, <2>9, <3>1
    <3>2. CASE i # 1 /\ i <= spot
      <4>1. i - 1 \in 1..(spot - 1) /\ i \in 2..Len(items)
        BY <1>2, <1>5, <3>2
      <4> QED BY <1>2, <2>8, <2>9, <3>2, <4>1
    <3>3. CASE i # 1 /\ ~(i <= spot)
      <4>1. i - 1 \in spot..(Len(items) - 1) /\ i \in 2..Len(items) /\ (i - 1) + 1 = i
        BY <1>2, <1>5, <3>3
      <4> QED BY <1>2, <2>8, <2>9, <3>3, <4>1
    <3> QED BY <3>1, <3>2, <3>3
  <2>11. NoTwice(r)
    <3> SUFFICES ASSUME NEW i \in 1..Len(items), NEW j \in 1..Len(items), r[i].text = r[j].text
                 PROVE  i = j
      BY <2>9 DEF NoTwice
    <3>1. old(i) = old(j)
      <4>1. items[old(i)].text = items[old(j)].text /\ old(i) \in DOMAIN items /\ old(j) \in DOMAIN items
        BY <1>2, <2>10
      <4> HIDE DEF old
      <4> QED BY <4>1 DEF NoTwice
    <3> QED BY <1>2, <1>5, <3>1
  <2> QED BY <1>5, <2>6, <2>9, <2>11 DEF r
<1> QED BY <1>3, <1>4, <1>5

\* Cut to the room left, a list keeps its first item.
LEMMA ShortenOffers ==
    ASSUME NEW key, NEW items, Offers(key, items), NoTwice(items)
    PROVE  LET r == Typing!Shorten(items)
           IN  /\ Offers(key, r) /\ NoTwice(r)
               /\ items # <<>> => r # <<>> /\ r[1] = items[1]
<1>1. PICK S : items \in Seq(S) /\ \A c \in S : Offered(key, c)
  BY DEF Offers
<1> DEFINE n == Typing!MinOf(MaxCandidates - 1, Len(items))
           r == SubSeq(items, 1, n)
<1>2. n \in Nat /\ n <= Len(items) /\ Len(items) \in Nat /\ (items # <<>> => n >= 1)
  BY <1>1, WordData DEF Typing!MinOf
<1> HIDE DEF n
<1>3. Offers(key, r)
  BY <1>2, ListsCut
<1>4. DOMAIN r = 1..n /\ \A i \in 1..n : r[i] = items[i] /\ i \in DOMAIN items
  BY <1>1, <1>2
<1>5. NoTwice(r)
  BY <1>4 DEF NoTwice
<1>6. items # <<>> => r # <<>> /\ r[1] = items[1]
  BY <1>1, <1>2, <1>4
<1> QED BY <1>3, <1>5, <1>6 DEF Typing!Shorten, n

RawItem(raw) == Typing!Candidate(Typing!Plain(raw), Typing!Plain(raw), "RawLatin", FALSE)

\* The list as the session shows it: what was typed once, and no twins.
WellListed(key, raw, items) ==
    /\ \E S : items \in Seq(S)
    /\ \E r \in DOMAIN items :
          items[r] = RawItem(raw) /\ \A i \in DOMAIN items \ {r} : Offered(key, items[i])
    /\ \A i, j \in DOMAIN items :
          items[i].kind # "RawLatin" /\ items[j].kind # "RawLatin" /\ items[i].text = items[j].text => i = j

\* What was chosen last heads it.
Recalls(l, set, taught) ==
    set.sticky /\ l.key \in DOMAIN taught /\ taught[l.key] # Typing!NoWord
        => Typing!Base(l.items[1]) = taught[l.key] \/ l.items[1].kind = "Number"

OwnWordsKnown(taught) == \A k \in DOMAIN taught : IsText(taught[k]) /\ OwnWord(k, taught[k])

LEMMA RawLast ==
    ASSUME NEW key, NEW a, Offers(key, a), NoTwice(a), NEW raw
    PROVE  /\ WellListed(key, raw, a \o <<RawItem(raw)>>)
           /\ a # <<>> => (a \o <<RawItem(raw)>>)[1] = a[1]
<1> DEFINE x == RawItem(raw)
           one == <<x>>
           l == a \o one
<1>1. PICK A : a \in Seq(A) /\ \A c \in A : Offered(key, c)
  BY DEF Offers
<1> DEFINE S == A \union {x}
<1>2. a \in Seq(S)
  BY <1>1
<1>3. one \in Seq(S)
  OBVIOUS
<1>4. Len(one) = 1 /\ one[1] = x
  OBVIOUS
<1>5. x.kind = "RawLatin"
  BY DEF RawItem, Typing!Candidate
<1>6. Len(a) \in Nat /\ DOMAIN a = 1..Len(a) /\ (\A i \in 1..Len(a) : Offered(key, a[i])) /\ (a # <<>> => Len(a) # 0)
  BY <1>1
<1> HIDE DEF one, x, S
<1>7. l \in Seq(S)
  BY <1>2, <1>3, Joins
<1>8. Len(l) = Len(a) + 1
  <2>1. Len(l) = Len(a) + Len(one)
    BY <1>2, <1>3, Joins
  <2> QED BY <1>4, <2>1
<1>9. \A i \in 1..Len(a) : l[i] = a[i]
  BY <1>2, <1>3, Joins
<1>10. l[Len(a) + 1] = x
  <2>1. \A i \in 1..Len(one) : l[Len(a) + i] = one[i]
    BY <1>2, <1>3, Joins
  <2> QED BY <1>4, <2>1
<1> HIDE DEF l
<1>11. DOMAIN l = 1..(Len(a) + 1) /\ \A i \in 1..(Len(a) + 1) : i = Len(a) + 1 \/ i \in 1..Len(a)
  BY <1>6, <1>7, <1>8
<1>12. \A i \in DOMAIN l \ {Len(a) + 1} : Offered(key, l[i])
  BY <1>6, <1>9, <1>11
<1>13. ASSUME NEW i \in DOMAIN l, NEW j \in DOMAIN l, l[i].kind # "RawLatin", l[j].kind # "RawLatin",
              l[i].text = l[j].text
       PROVE  i = j
  <2>1. i \in DOMAIN a /\ j \in DOMAIN a /\ a[i].text = a[j].text
    BY <1>5, <1>6, <1>9, <1>10, <1>11, <1>13
  <2> QED BY <2>1 DEF NoTwice
<1>14. Len(a) + 1 \in DOMAIN l
  BY <1>6, <1>11
<1>15. WellListed(key, raw, l)
  <2>1. \E r \in DOMAIN l : l[r] = RawItem(raw) /\ \A i \in DOMAIN l \ {r} : Offered(key, l[i])
    BY <1>10, <1>12, <1>14 DEF x
  <2> QED BY <1>7, <1>13, <2>1 DEF WellListed
<1>16. a # <<>> => l[1] = a[1]
  BY <1>6, <1>9
<1> QED BY <1>15, <1>16 DEF l, one, x

LEMMA RawFirst ==
    ASSUME NEW key, NEW a, Offers(key, a), NoTwice(a), NEW raw
    PROVE  WellListed(key, raw, <<RawItem(raw)>> \o a) /\ (<<RawItem(raw)>> \o a)[1] = RawItem(raw)
<1> DEFINE x == RawItem(raw)
           l == <<x>> \o a
<1>1. PICK A : a \in Seq(A) /\ \A c \in A : Offered(key, c)
  BY DEF Offers
<1> DEFINE S == A \union {x}
<1>2. a \in Seq(S) /\ x \in S
  BY <1>1
<1>5. x.kind = "RawLatin"
  BY DEF RawItem, Typing!Candidate
<1>6. Len(a) \in Nat /\ DOMAIN a = 1..Len(a) /\ (\A i \in 1..Len(a) : Offered(key, a[i]))
  BY <1>1
<1> HIDE DEF x, S
<1>7. l \in Seq(S)
  BY <1>2, JoinsOne
<1>8. Len(l) = Len(a) + 1 /\ l[1] = x
  BY <1>2, JoinsOne
<1>9. \A i \in 1..Len(a) : l[i + 1] = a[i]
  BY <1>2, JoinsOne
<1> HIDE DEF l
<1>10. DOMAIN l = 1..(Len(a) + 1) /\ \A i \in 1..(Len(a) + 1) : i = 1 \/ i - 1 \in 1..Len(a)
  BY <1>6, <1>7, <1>8
<1>11. ASSUME NEW i \in DOMAIN l \ {1} PROVE l[i] = a[i - 1] /\ i - 1 \in DOMAIN a
  <2>1. i - 1 \in 1..Len(a) /\ (i - 1) + 1 = i
    BY <1>6, <1>10
  <2> QED BY <1>6, <1>9, <2>1
<1>12. \A i \in DOMAIN l \ {1} : Offered(key, l[i])
  BY <1>6, <1>11
<1>13. ASSUME NEW i \in DOMAIN l, NEW j \in DOMAIN l, l[i].kind # "RawLatin", l[j].kind # "RawLatin",
              l[i].text = l[j].text
       PROVE  i = j
  <2>1. i # 1 /\ j # 1
    BY <1>5, <1>8, <1>13
  <2>2. i - 1 \in DOMAIN a /\ j - 1 \in DOMAIN a /\ a[i - 1].text = a[j - 1].text
    BY <1>11, <1>13, <2>1
  <2>3. i - 1 = j - 1
    BY <2>2 DEF NoTwice
  <2> QED BY <1>6, <1>10, <2>3
<1>14. WellListed(key, raw, l)
  <2>1. 1 \in DOMAIN l
    BY <1>6, <1>10
  <2>2. \E r \in DOMAIN l : l[r] = RawItem(raw) /\ \A i \in DOMAIN l \ {r} : Offered(key, l[i])
    BY <1>8, <1>12, <2>1 DEF x
  <2> QED BY <1>7, <1>13, <2>2 DEF WellListed
<1> QED BY <1>8, <1>14 DEF l, x

\* Session::rebuild.
LEMMA RebuiltLists ==
    ASSUME NEW s, IsWord(s), NEW set, NEW d \in Dialect, OwnWordsKnown(learned)
    PROVE  LET l == Typing!Rebuilt(s, set, d)
           IN  /\ l.key = Typing!Key(s)
               /\ WellListed(Typing!Key(s), Typing!Raw(s), l.items) /\ Recalls(l, set, learned)
<1> DEFINE key == Typing!Key(s)
           items == Typing!StyledList(s, set, d)
           raw == Typing!Raw(s)
           l == Typing!Rebuilt(s, set, d)
           w == learned[key]
           recalled == Typing!Recalled(s, items, set)
           own == Typing!Shorten(Typing!Sticky(items, w))
           cut == Typing!Shorten(items)
<1>1. Offers(key, items) /\ NoTwice(items)
  BY StyledListOffers
<1>2. l.key = key
  BY DEF Typing!Rebuilt
<1>3. l.items = IF ~recalled THEN cut \o <<RawItem(raw)>>
                ELSE IF w = Typing!RAW_LATIN THEN <<RawItem(raw)>> \o cut
                ELSE own \o <<RawItem(raw)>>
  BY DEF Typing!Rebuilt, RawItem
<1>4. recalled <=> set.sticky /\ ~Typing!Pinned(items) /\ key \in DOMAIN learned /\ w # Typing!NoWord
  BY DEF Typing!Recalled
<1> HIDE DEF l, recalled, items, key
<1>5. Offers(key, cut) /\ NoTwice(cut) /\ (items # <<>> => cut # <<>> /\ cut[1] = items[1])
  BY <1>1, ShortenOffers
<1> HIDE DEF cut, raw
<1>6. CASE ~recalled
  <2>1. WellListed(key, raw, l.items)
    BY <1>3, <1>5, <1>6, RawLast
  <2>2. Typing!Pinned(items) => l.items[1] = items[1]
    BY <1>3, <1>5, <1>6, RawLast DEF Typing!Pinned
  <2>3. Recalls(l, set, learned)
    BY <1>2, <1>4, <1>6, <2>2 DEF Recalls, Typing!Pinned
  <2> QED BY <1>2, <2>1, <2>3 DEF l, key, raw
<1>7. CASE recalled /\ w = Typing!RAW_LATIN
  <2>1. l.items = <<RawItem(raw)>> \o cut
    BY <1>3, <1>7
  <2>2. WellListed(key, raw, l.items) /\ l.items[1] = RawItem(raw)
    BY <1>5, <2>1, RawFirst
  <2>3. Typing!Base(RawItem(raw)) = Typing!RAW_LATIN
    BY DEF RawItem, Typing!Candidate, Typing!Base
  <2>4. Recalls(l, set, learned)
    BY <1>2, <1>7, <2>2, <2>3 DEF Recalls
  <2> QED BY <1>2, <2>2, <2>4 DEF l, key, raw
<1>8. CASE recalled /\ w # Typing!RAW_LATIN
  <2>1. l.items = own \o <<RawItem(raw)>>
    BY <1>3, <1>8
  <2>2. IsText(w) /\ OwnWord(key, w)
    BY <1>4, <1>8 DEF OwnWordsKnown
  <2> HIDE DEF w
  <2> DEFINE first == Typing!Sticky(items, w)
  <2>3. Offers(key, first) /\ NoTwice(first) /\ first # <<>> /\ first[1].base = w
    BY <1>1, <2>2, StickyOffers
  <2> HIDE DEF first
  <2>4. Offers(key, own) /\ NoTwice(own) /\ own # <<>> /\ own[1] = first[1]
    BY <2>3, ShortenOffers DEF first
  <2> HIDE DEF own
  <2>5. WellListed(key, raw, l.items) /\ l.items[1] = own[1]
    BY <2>1, <2>4, RawLast
  <2>6. own[1].kind # "RawLatin"
    <3>1. PICK O : own \in Seq(O) /\ \A c \in O : Offered(key, c)
      BY <2>4 DEF Offers
    <3>2. own[1] \in O
      BY <2>4, <3>1
    <3> QED BY <3>1, <3>2 DEF Offered
  <2>7. Typing!Base(l.items[1]) = w
    BY <2>3, <2>4, <2>5, <2>6 DEF Typing!Base
  <2>8. Recalls(l, set, learned)
    BY <1>2, <2>7 DEF Recalls, w
  <2> QED BY <1>2, <2>5, <2>8 DEF l, key, raw
<1> QED BY <1>6, <1>7, <1>8

-----------------------------------------------------------------------------
(* The session: the list is always one that rebuild made for the word.      *)

Shows(b, l, set, taught) ==
    /\ IsWord(b) /\ l.key = Typing!Key(b)
    /\ WellListed(Typing!Key(b), Typing!Raw(b), l.items) /\ Recalls(l, set, taught)

SessionSet == settings \in AnySettings /\ pi \in Dialect

SessionAnchor ==
    anchor # Typing!NoAnchor =>
        /\ IsWord(anchor.typed) /\ anchor.rank \in Nat \ {0}
        /\ anchor = [typed |-> anchor.typed, base |-> anchor.base, space |-> anchor.space, rank |-> anchor.rank]

SessionList ==
    Typing!Composing =>
        /\ Shows(buf, list, settings, learned)
        /\ selected \in DOMAIN list.items /\ page = (selected - 1) \div PageSize

SessionInv == SessionSet /\ OwnWordsKnown(learned) /\ SessionAnchor /\ SessionList

LEMMA WordBound == MaxRaw \in Nat
BY WordData

LEMMA WordsAre ==
    ASSUME NEW b
    PROVE  IsWord(b) <=> b \in Seq(Entered) /\ Len(b) \in 1..MaxRaw
<1>1. ASSUME b \in Seq(Entered), Len(b) \in 1..MaxRaw PROVE IsWord(b)
  <2>1. b \in [1..Len(b) -> Entered]
    BY <1>1
  <2> QED BY <1>1, <2>1 DEF IsWord
<1>2. ASSUME IsWord(b) PROVE b \in Seq(Entered) /\ Len(b) \in 1..MaxRaw
  <2>1. PICK n \in 1..MaxRaw : b \in [1..n -> Entered]
    BY <1>2 DEF IsWord
  <2>2. b \in Seq(Entered) /\ Len(b) = n
    BY <2>1, WordData
  <2> QED BY <2>2
<1> QED BY <1>1, <1>2

\* The letters typed stay a word.
LEMMA WordsGrow ==
    ASSUME NEW b, b = <<>> \/ IsWord(b), Len(b) < MaxRaw, NEW c \in Typed
    PROVE  IsWord(Append(b, c))
<1>1. b \in Seq(Entered)
  <2>1. CASE b = <<>>
    BY <2>1
  <2>2. CASE IsWord(b)
    BY <2>2, WordsAre
  <2> QED BY <2>1, <2>2
<1>2. c \in Entered
  BY DEF Entered
<1> DEFINE a == Append(b, c)
<1>3. a \in Seq(Entered) /\ Len(a) = Len(b) + 1 /\ Len(b) \in Nat
  BY <1>1, <1>2
<1> HIDE DEF a
<1>4. Len(a) \in 1..MaxRaw
  BY <1>3, WordBound
<1>5. IsWord(a)
  BY <1>3, <1>4, WordsAre
<1> QED BY <1>5 DEF a

LEMMA WordsShrink ==
    ASSUME NEW b, IsWord(b), Len(b) # 1
    PROVE  IsWord(Typing!Front(b))
<1>1. b \in Seq(Entered) /\ Len(b) \in 1..MaxRaw
  BY WordsAre
<1>2. Len(b) \in Nat /\ Len(b) - 1 \in 1..MaxRaw /\ Len(b) - 1 <= Len(b)
  <2> DEFINE n == Len(b)
  <2>1. n \in 1..MaxRaw /\ n # 1
    BY <1>1
  <2> HIDE DEF n
  <2>2. n \in Nat /\ n - 1 \in 1..MaxRaw /\ n - 1 <= n
    BY <2>1, WordBound
  <2> QED BY <2>2 DEF n
<1> DEFINE a == SubSeq(b, 1, Len(b) - 1)
<1>3. a \in Seq(Entered)
  <2>1. \A i \in 1..(Len(b) - 1) : b[i] \in Entered
    BY <1>1, <1>2
  <2> QED BY <1>1, <1>2, <2>1
<1>4. Len(a) = Len(b) - 1
  BY <1>1, <1>2
<1> HIDE DEF a
<1>5. IsWord(a)
  BY <1>2, <1>3, <1>4, WordsAre
<1> QED BY <1>5 DEF a, Typing!Front

LEMMA WordsReturn ==
    ASSUME NEW b, IsWord(b)
    PROVE  IsWord(Typing!Restored(b))
<1>1. PICK n \in 1..MaxRaw : b \in [1..n -> Entered]
  BY DEF IsWord
<1>2. ASSUME NEW c \in Entered PROVE [c EXCEPT !.literal = FALSE] \in Entered
  <2>1. CASE c \in Typed
    BY <2>1 DEF Entered
  <2>2. CASE \E e \in Typed : c = [e EXCEPT !.literal = FALSE]
    <3>1. PICK e \in Typed : c = [e EXCEPT !.literal = FALSE]
      BY <2>2
    <3>2. \A v : [[e EXCEPT !.literal = v] EXCEPT !.literal = v] = [e EXCEPT !.literal = v]
      OBVIOUS
    <3>3. [c EXCEPT !.literal = FALSE] = c
      BY <3>1, <3>2
    <3> QED BY <3>3
  <2> QED BY <2>1, <2>2 DEF Entered
<1>3. Typing!Restored(b) \in [1..n -> Entered]
  BY <1>1, <1>2 DEF Typing!Restored
<1> QED BY <1>1, <1>3 DEF IsWord

\* A list that rebuild made shows the word, from its first row on.
LEMMA RebuiltShows ==
    ASSUME NEW b, IsWord(b), NEW set, NEW d \in Dialect, OwnWordsKnown(learned)
    PROVE  /\ Shows(b, Typing!Rebuilt(b, set, d), set, learned)
           /\ 1 \in DOMAIN Typing!Rebuilt(b, set, d).items
           /\ Len(Typing!Rebuilt(b, set, d).items) \in Nat \ {0}
           /\ DOMAIN Typing!Rebuilt(b, set, d).items = 1..Len(Typing!Rebuilt(b, set, d).items)
<1> DEFINE l == Typing!Rebuilt(b, set, d)
<1>1. /\ l.key = Typing!Key(b)
      /\ WellListed(Typing!Key(b), Typing!Raw(b), l.items) /\ Recalls(l, set, learned)
  BY RebuiltLists
<1> HIDE DEF l
<1>2. PICK S : l.items \in Seq(S)
  BY <1>1 DEF WellListed
<1>3. PICK r \in DOMAIN l.items : TRUE
  BY <1>1 DEF WellListed
<1>4. Len(l.items) \in Nat \ {0} /\ DOMAIN l.items = 1..Len(l.items)
  BY <1>2, <1>3
<1> QED BY <1>1, <1>4 DEF Shows, l

LEMMA SessionInit == Typing!Init => SessionInv
<1> SUFFICES ASSUME Typing!Init PROVE SessionInv
  OBVIOUS
<1>1. SessionSet
  BY WordData DEF Typing!Init, Typing!Prior, SessionSet
<1>2. OwnWordsKnown(learned)
  BY DEF Typing!Init, OwnWordsKnown
<1>3. SessionAnchor
  BY DEF Typing!Init, SessionAnchor
<1>4. SessionList
  BY DEF Typing!Init, SessionList, Typing!Composing
<1> QED BY <1>1, <1>2, <1>3, <1>4 DEF SessionInv

\* Typing a character.
LEMMA TypeStep ==
    ASSUME SessionInv, NEW c \in Typed, Typing!Type(c)
    PROVE  SessionInv'
<1>1. SessionSet'
  <2>1. CASE Typing!Composing
    BY <2>1 DEF Typing!Type, SessionInv, SessionSet
  <2>2. CASE ~Typing!Composing
    <3>1. settings' \in AnySettings /\ pi' \in {pi, Typing!Prior(settings')}
      BY <2>2 DEF Typing!Type
    <3>2. Typing!Prior(settings') \in Dialect
      BY <3>1, WordData DEF Typing!Prior
    <3> QED BY <3>1, <3>2 DEF SessionInv, SessionSet
  <2> QED BY <2>1, <2>2
<1>2. learned' = learned
  BY DEF Typing!Type
<1>3. OwnWordsKnown(learned)'
  BY <1>2 DEF SessionInv, OwnWordsKnown
<1>4. SessionAnchor'
  BY DEF Typing!Type, SessionInv, SessionAnchor
<1>5. SessionList'
  <2> SUFFICES ASSUME Typing!Composing'
               PROVE  /\ Shows(buf', list', settings', learned')
                      /\ selected' \in DOMAIN list'.items /\ page' = (selected' - 1) \div PageSize
    BY DEF SessionList
  <2>1. selected' = 1 /\ page' = (selected' - 1) \div PageSize
    BY DEF Typing!Type, Typing!Highlight
  <2>2. CASE Len(Typing!Syms(buf)) < MaxBuffer
    <3>1. buf' = Append(buf, c) /\ list' = Typing!Rebuilt(buf', settings', pi') /\ Len(buf) < MaxRaw
      BY <2>2 DEF Typing!Type
    <3>2. IsWord(buf')
      BY <3>1, WordsGrow DEF SessionInv, SessionList, Typing!Composing, Shows
    <3>3. pi' \in Dialect
      BY <1>1 DEF SessionSet
    <3>4. Shows(buf', list', settings', learned) /\ 1 \in DOMAIN list'.items
      BY <3>1, <3>2, <3>3, RebuiltShows DEF SessionInv
    <3> QED BY <1>2, <2>1, <3>4
  <2>3. CASE ~(Len(Typing!Syms(buf)) < MaxBuffer)
    <3>1. UNCHANGED <<buf, list>>
      BY <2>3 DEF Typing!Type
    <3>2. Typing!Composing
      BY <3>1 DEF Typing!Composing
    <3>3. settings' = settings
      BY <3>2 DEF Typing!Type
    <3>4. Shows(buf, list, settings, learned) /\ selected \in DOMAIN list.items
      BY <3>2 DEF SessionInv, SessionList
    <3>5. 1 \in DOMAIN list.items
      <4>1. PICK S : list.items \in Seq(S)
        BY <3>4 DEF Shows, WellListed
      <4> QED BY <3>4, <4>1
    <3> QED BY <1>2, <2>1, <3>1, <3>3, <3>4, <3>5
  <2> QED BY <2>2, <2>3
<1> QED BY <1>1, <1>3, <1>4, <1>5 DEF SessionInv

\* Deleting the last character typed.
LEMMA BackspaceStep ==
    ASSUME SessionInv, Typing!Backspace
    PROVE  SessionInv'
<1>1. learned' = learned /\ settings' = settings /\ pi' = pi /\ anchor' = anchor
  BY DEF Typing!Backspace
<1>2. SessionSet' /\ OwnWordsKnown(learned)' /\ SessionAnchor'
  BY <1>1 DEF SessionInv, SessionSet, OwnWordsKnown, SessionAnchor
<1>3. SessionList'
  <2> SUFFICES ASSUME Typing!Composing'
               PROVE  /\ Shows(buf', list', settings', learned')
                      /\ selected' \in DOMAIN list'.items /\ page' = (selected' - 1) \div PageSize
    BY DEF SessionList
  <2>1. Len(buf) # 1
    BY DEF Typing!Backspace, Typing!Reset, Typing!Composing
  <2>2. /\ buf' = Typing!Front(buf) /\ list' = Typing!Rebuilt(buf', settings, pi)
        /\ selected' = 1 /\ page' = (1 - 1) \div PageSize
    BY <2>1 DEF Typing!Backspace, Typing!Highlight
  <2>3. IsWord(buf)
    BY DEF Typing!Backspace, SessionInv, SessionList, Shows
  <2>4. IsWord(buf')
    BY <2>1, <2>2, <2>3, WordsShrink
  <2>5. Shows(buf', list', settings, learned) /\ 1 \in DOMAIN list'.items
    BY <2>2, <2>4, RebuiltShows DEF SessionInv, SessionSet
  <2> QED BY <1>1, <2>2, <2>5
<1> QED BY <1>2, <1>3 DEF SessionInv

\* A page has PageSize rows.
LEMMA Pages ==
    ASSUME NEW i \in Nat \ {0}
    PROVE  /\ (i - 1) \div PageSize \in Nat
           /\ ((i - 1) \div PageSize) * PageSize <= i - 1
<1>1. PageSize \in Nat \ {0}
  BY WordData
<1> DEFINE a == i - 1
<1>2. a \in Nat
  OBVIOUS
<1> HIDE DEF a
<1>3. a \div PageSize \in Nat /\ (a \div PageSize) * PageSize <= a
  BY <1>1, <1>2
<1> QED BY <1>3 DEF a

LEMMA NavigateStep ==
    ASSUME SessionInv, Typing!Navigate
    PROVE  SessionInv'
<1> DEFINE total == Len(list.items)
<1>1. UNCHANGED <<buf, list, settings, pi, learned, anchor>> /\ Typing!Composing
  BY DEF Typing!Navigate
<1>2. SessionSet' /\ OwnWordsKnown(learned)' /\ SessionAnchor'
  BY <1>1 DEF SessionInv, SessionSet, OwnWordsKnown, SessionAnchor
<1>3. /\ Shows(buf, list, settings, learned)
      /\ selected \in DOMAIN list.items /\ page = (selected - 1) \div PageSize
  BY <1>1 DEF SessionInv, SessionList
<1>4. DOMAIN list.items = 1..total /\ total \in Nat \ {0}
  <2>1. PICK S : list.items \in Seq(S)
    BY <1>3 DEF Shows, WellListed
  <2> QED BY <1>3, <2>1
<1>5. PICK i : selected' = i /\ page' = (i - 1) \div PageSize /\
         \/ i = (selected % total) + 1
         \/ i = ((selected + total - 2) % total) + 1
         \/ (page + 1) * PageSize < total /\ i = (page + 1) * PageSize + 1
         \/ page > 0 /\ i = (page - 1) * PageSize + 1
  BY DEF Typing!Navigate, Typing!Highlight
<1>6. PageSize \in Nat \ {0}
  BY WordData
<1> HIDE DEF total
<1>7. selected \in 1..total /\ page \in Nat /\ page * PageSize <= selected - 1
  <2>1. selected \in Nat \ {0}
    BY <1>3, <1>4
  <2>2. page \in Nat /\ page * PageSize <= selected - 1
    BY <1>3, <2>1, Pages
  <2> QED BY <1>3, <1>4, <2>2
<1>8. i \in 1..total
  <2>1. CASE i = (selected % total) + 1
    BY <1>4, <1>7, <2>1
  <2>2. CASE i = ((selected + total - 2) % total) + 1
    <3>1. selected + total - 2 \in Int
      BY <1>4, <1>7
    <3> QED BY <1>4, <2>2, <3>1
  <2>3. CASE (page + 1) * PageSize < total /\ i = (page + 1) * PageSize + 1
    <3>1. (page + 1) * PageSize \in Nat
      BY <1>6, <1>7
    <3> QED BY <1>4, <2>3, <3>1
  <2>4. CASE page > 0 /\ i = (page - 1) * PageSize + 1
    <3>1. page - 1 \in Nat
      BY <1>7, <2>4
    <3>2. (page - 1) * PageSize \in Nat
      BY <1>6, <3>1
    <3>3. (page - 1) * PageSize <= page * PageSize
      BY <1>6, <1>7, <3>1
    <3>4. page * PageSize \in Nat
      BY <1>6, <1>7
    <3> QED BY <1>4, <1>7, <2>4, <3>2, <3>3, <3>4
  <2> QED BY <1>5, <2>1, <2>2, <2>3, <2>4
<1>9. SessionList'
  BY <1>1, <1>3, <1>4, <1>5, <1>8 DEF SessionList
<1> QED BY <1>2, <1>9 DEF SessionInv

\* Steps that leave the list alone, or leave none.
LEMMA OtherStep ==
    ASSUME SessionInv,
           \/ Typing!OpenTashkeel \/ Typing!CloseTashkeel \/ Typing!Finalize \/ Typing!DropAnchor
           \/ UNCHANGED sessionVars
    PROVE  SessionInv'
<1>1. UNCHANGED <<learned, settings, pi>> /\ anchor' \in {anchor, Typing!NoAnchor}
  BY DEF Typing!OpenTashkeel, Typing!CloseTashkeel, Typing!Finalize, Typing!DropAnchor, sessionVars
<1>2. SessionSet' /\ OwnWordsKnown(learned)' /\ SessionAnchor'
  BY <1>1 DEF SessionInv, SessionSet, OwnWordsKnown, SessionAnchor
<1>3. buf' = <<>> \/ UNCHANGED <<buf, list, selected, page>>
  BY DEF Typing!OpenTashkeel, Typing!CloseTashkeel, Typing!Finalize, Typing!Reset, Typing!DropAnchor, sessionVars
<1>4. SessionList'
  BY <1>1, <1>3 DEF SessionInv, SessionList, Typing!Composing
<1> QED BY <1>2, <1>4 DEF SessionInv

\* A commit teaches the item's base, or that the letters were wanted.
LEMMA CommitItemStep ==
    ASSUME SessionInv, Typing!Composing, NEW i \in DOMAIN list.items, NEW edited, NEW space, NEW punct,
           NEW learns, Typing!CommitItem(i, edited, space, punct, learns)
    PROVE  SessionInv'
<1> DEFINE c == list.items[i]
<1>1. Shows(buf, list, settings, learned)
  BY DEF SessionInv, SessionList
<1>2. IsText(Typing!Base(c)) /\ OwnWord(list.key, Typing!Base(c))
  <2>1. CASE c.kind = "RawLatin"
    BY <2>1 DEF Typing!Base, Typing!RAW_LATIN, Typing!Plain, Typing!Text, IsText, OwnWord
  <2>2. CASE c.kind # "RawLatin"
    <3>1. Offered(list.key, c)
      BY <1>1, <2>2 DEF Shows, WellListed, RawItem, Typing!Candidate
    <3> QED BY <2>2, <3>1 DEF Typing!Base, Offered, IsItem
  <2> QED BY <2>1, <2>2
<1>3. OwnWordsKnown(learned)'
  <2> DEFINE taught == [k \in DOMAIN learned \union {list.key} |->
                          IF k = list.key THEN Typing!Base(c) ELSE learned[k]]
  <2>1. learned' = taught \/ learned' = learned
    BY DEF Typing!CommitItem
  <2> QED BY <1>2, <2>1 DEF SessionInv, OwnWordsKnown
<1>4. SessionSet'
  BY DEF Typing!CommitItem, SessionInv, SessionSet
<1>5. SessionAnchor'
  BY <1>1 DEF Typing!CommitItem, SessionAnchor, Shows
<1>6. SessionList'
  BY DEF Typing!CommitItem, Typing!Reset, SessionList, Typing!Composing
<1> QED BY <1>3, <1>4, <1>5, <1>6 DEF SessionInv

LEMMA CommitStep ==
    ASSUME SessionInv, Typing!Commit \/ Typing!CommitRaw
    PROVE  SessionInv'
<1>1. Typing!Composing
  BY DEF Typing!Commit, Typing!CommitRaw
<1>2. selected \in DOMAIN list.items
  BY <1>1 DEF SessionInv, SessionList
<1>3. CASE Typing!Commit
  <2>1. PICK learns \in BOOLEAN :
           \/ \E space, punct \in BOOLEAN : Typing!CommitItem(selected, editing, space, punct, learns)
           \/ \E i \in DOMAIN list.items : Typing!CommitItem(i, FALSE, TRUE, FALSE, learns)
    BY <1>3 DEF Typing!Commit
  <2> QED BY <1>1, <1>2, <2>1, CommitItemStep
<1>4. CASE Typing!CommitRaw
  <2>1. PICK learns \in BOOLEAN, space \in BOOLEAN, i \in DOMAIN list.items :
           Typing!CommitItem(i, FALSE, space, FALSE, learns)
    BY <1>4 DEF Typing!CommitRaw
  <2> QED BY <1>1, <2>1, CommitItemStep
<1> QED BY <1>3, <1>4

\* Re-opening the word committed last.
LEMMA ReeditStep ==
    ASSUME SessionInv, Typing!Reedit
    PROVE  SessionInv'
<1>1. learned' = learned /\ settings' = settings /\ pi' = pi /\ anchor # Typing!NoAnchor /\ ~Typing!Composing
  BY DEF Typing!Reedit
<1>2. SessionSet' /\ OwnWordsKnown(learned)'
  BY <1>1 DEF SessionInv, SessionSet, OwnWordsKnown
<1>3. /\ IsWord(anchor.typed) /\ anchor.rank \in Nat \ {0}
      /\ anchor = [typed |-> anchor.typed, base |-> anchor.base, space |-> anchor.space, rank |-> anchor.rank]
  BY <1>1 DEF SessionInv, SessionAnchor
<1>4. CASE anchor.space
  <2>1. anchor' = [anchor EXCEPT !.space = FALSE] /\ UNCHANGED <<buf, list, selected, page>>
    BY <1>4 DEF Typing!Reedit
  <2>2. PICK t, b, e, r : anchor = [typed |-> t, base |-> b, space |-> e, rank |-> r]
    BY <1>3
  <2>3. \A f : [anchor EXCEPT !.space = f] = [typed |-> t, base |-> b, space |-> f, rank |-> r]
    BY <2>2
  <2>4. anchor' = [typed |-> t, base |-> b, space |-> FALSE, rank |-> r]
    BY <2>1, <2>3
  <2>5. IsWord(t) /\ r \in Nat \ {0}
    BY <1>3, <2>2
  <2>6. SessionAnchor'
    BY <2>4, <2>5 DEF SessionAnchor
  <2>7. SessionList'
    BY <1>1, <2>1 DEF SessionInv, SessionList, Typing!Composing
  <2> QED BY <1>2, <2>6, <2>7 DEF SessionInv
<1>5. CASE ~anchor.space
  <2>1. /\ anchor' = Typing!NoAnchor
        /\ buf' = Typing!Restored(anchor.typed) /\ list' = Typing!Rebuilt(buf', settings, pi)
        /\ selected' = Typing!MinOf(anchor.rank, Len(list'.items)) /\ page' = (selected' - 1) \div PageSize
    BY <1>5 DEF Typing!Reedit, Typing!Highlight
  <2>2. IsWord(buf')
    BY <1>3, <2>1, WordsReturn
  <2>3. /\ Shows(buf', list', settings, learned)
        /\ Len(list'.items) \in Nat \ {0} /\ DOMAIN list'.items = 1..Len(list'.items)
    BY <2>1, <2>2, RebuiltShows DEF SessionInv, SessionSet
  <2>4. selected' \in DOMAIN list'.items
    BY <1>3, <2>1, <2>3 DEF Typing!MinOf
  <2>5. SessionAnchor' /\ SessionList'
    BY <1>1, <2>1, <2>3, <2>4 DEF SessionAnchor, SessionList
  <2> QED BY <1>2, <2>5 DEF SessionInv
<1> QED BY <1>4, <1>5

LEMMA SessionStep ==
    ASSUME SessionInv, Typing!Next \/ UNCHANGED sessionVars
    PROVE  SessionInv'
<1>1. ASSUME NEW c \in Typed, Typing!Type(c) PROVE SessionInv'
  BY <1>1, TypeStep
<1>2. CASE Typing!Backspace
  BY <1>2, BackspaceStep
<1>3. CASE Typing!Navigate
  BY <1>3, NavigateStep
<1>4. CASE Typing!OpenTashkeel \/ Typing!CloseTashkeel \/ Typing!Finalize \/ Typing!DropAnchor
           \/ UNCHANGED sessionVars
  BY <1>4, OtherStep
<1>5. CASE Typing!Commit \/ Typing!CommitRaw
  BY <1>5, CommitStep
<1>6. CASE Typing!Reedit
  BY <1>6, ReeditStep
<1> QED BY <1>1, <1>2, <1>3, <1>4, <1>5, <1>6 DEF Typing!Next

\* A behaviour of the part "session" is one of Session.
LEMMA SessionBehaves == PartsSpec => [](part = "session" => SessionInv)
<1>1. PartsInit => (part = "session" => SessionInv)
  BY SessionInit DEF PartsInit
<1>2. (part = "session" => SessionInv) /\ [PartsNext]_partsVars => (part = "session" => SessionInv)'
  <2> SUFFICES ASSUME part = "session" => SessionInv, [PartsNext]_partsVars, part' = "session"
               PROVE  SessionInv'
    OBVIOUS
  <2>1. part = "session"
    BY PartStays
  <2>2. Typing!Next \/ UNCHANGED sessionVars
    BY <2>1 DEF PartsNext, partsVars
  <2> QED BY <2>1, <2>2, SessionStep
<1> QED BY <1>1, <1>2, PTL DEF PartsSpec

\* The word chosen last for what is typed heads the list unless a number does
\* (sticky last choice, Session::rebuild), for any engine, settings and commits.
THEOREM TheChoiceComesFirst == PartsSpec => []ChosenComesFirst
<1>1. (part = "session" => SessionInv) => ChosenComesFirst
  BY DEF ChosenComesFirst, Typing!ChosenComesFirst, SessionInv, SessionList, Shows, Recalls
<1> QED BY <1>1, SessionBehaves, PTL

\* No suggestion looks like another one, and what was typed is offered once
\* (styling, relaxing, dedup, sticky and cut of Session::rebuild), for any engine.
THEOREM TheListHasNoTwins == PartsSpec => []NoTwins
<1>1. (part = "session" => SessionInv) => NoTwins
  <2> SUFFICES ASSUME SessionInv, Typing!Composing PROVE Typing!NoTwins
    BY DEF NoTwins, Typing!NoTwins
  <2> DEFINE raw == RawItem(Typing!Raw(buf))
  <2>1. WellListed(list.key, Typing!Raw(buf), list.items)
    BY DEF SessionInv, SessionList, Shows
  <2>2. PICK r \in DOMAIN list.items :
           list.items[r] = raw /\ \A i \in DOMAIN list.items \ {r} : Offered(list.key, list.items[i])
    BY <2>1 DEF WellListed
  <2>3. raw.kind = "RawLatin" /\ raw = Typing!Candidate(Typing!Plain(Typing!Raw(buf)), Typing!Plain(Typing!Raw(buf)), "RawLatin", FALSE)
    BY DEF RawItem, Typing!Candidate
  <2>4. Typing!Suggestions = DOMAIN list.items \ {r}
    <3>1. \A i \in DOMAIN list.items \ {r} : list.items[i].kind # "RawLatin"
      BY <2>2 DEF Offered
    <3> QED BY <2>2, <2>3, <3>1 DEF Typing!Suggestions
  <2>5. \A i, j \in Typing!Suggestions : list.items[i].text = list.items[j].text => i = j
    BY <2>1 DEF WellListed, Typing!Suggestions
  <2> HIDE DEF raw
  <2> QED BY <2>2, <2>3, <2>4, <2>5 DEF Typing!NoTwins
<1> QED BY <1>1, SessionBehaves, PTL

-----------------------------------------------------------------------------
(* The diacritics editor.                                                  *)

\* The letters of a word, and one of them with its marks.
Slot == [base : STRING \ Editor!Mark, shadda : BOOLEAN, dagger : BOOLEAN, vowel : VowelMark \union {"none"}]

LEMMA Marks ==
    /\ Editor!Mark = VowelMark \union {"shadda", "dagger"} /\ Editor!Mark \union {"blank"} \subseteq STRING
    /\ {"none", "shadda", "dagger", "blank"} \intersect VowelMark = {} /\ "blank" \notin Editor!Mark
<1>1. Editor!Mark = VowelMark \union {"shadda", "dagger"}
  BY DEF Editor!Mark
<1>2. {"none", "shadda", "dagger", "blank"} \intersect VowelMark = {}
  BY EditorData DEF EditorData
<1>3. Editor!Mark \union {"blank"} \subseteq STRING
  BY EditorData DEF EditorData
<1>4. "blank" # "shadda" /\ "blank" # "dagger"
  OBVIOUS
<1> QED BY <1>1, <1>2, <1>3, <1>4

LEMMA BareSlot ==
    ASSUME NEW c \in STRING \ Editor!Mark
    PROVE  Editor!Unmarked(c) \in Slot
BY DEF Slot, Editor!Unmarked

LEMMA SlotFields ==
    /\ \A slot \in Slot : /\ slot.base \in STRING \ Editor!Mark /\ slot.shadda \in BOOLEAN /\ slot.dagger \in BOOLEAN
                          /\ slot.vowel \in VowelMark \union {"none"}
    /\ \A a, z \in Slot : /\ a.base = z.base /\ a.shadda = z.shadda /\ a.dagger = z.dagger /\ a.vowel = z.vowel
                          => a = z
    /\ \A c : /\ Editor!Unmarked(c).base = c /\ Editor!Unmarked(c).shadda = FALSE
              /\ Editor!Unmarked(c).dagger = FALSE /\ Editor!Unmarked(c).vowel = "none"
<1>1. ASSUME NEW slot \in Slot
      PROVE  /\ slot.base \in STRING \ Editor!Mark /\ slot.shadda \in BOOLEAN /\ slot.dagger \in BOOLEAN
             /\ slot.vowel \in VowelMark \union {"none"}
  BY DEF Slot
<1>2. ASSUME NEW a \in Slot, NEW z \in Slot,
             a.base = z.base, a.shadda = z.shadda, a.dagger = z.dagger, a.vowel = z.vowel
      PROVE  a = z
  BY <1>2 DEF Slot
<1>3. \A c : /\ Editor!Unmarked(c).base = c /\ Editor!Unmarked(c).shadda = FALSE
             /\ Editor!Unmarked(c).dagger = FALSE /\ Editor!Unmarked(c).vowel = "none"
  BY DEF Editor!Unmarked
<1> QED BY <1>1, <1>2, <1>3

\* A mark on a slot is one of its marks, and the rest of it is as it was.
LEMMA MarkedSlot ==
    ASSUME NEW slot \in Slot, NEW m \in Editor!Mark
    PROVE  LET x == Editor!Marked(slot, m)
           IN  /\ x \in Slot /\ x.base = slot.base
               /\ m = "shadda" => x.shadda = TRUE /\ x.dagger = slot.dagger /\ x.vowel = slot.vowel
               /\ m = "dagger" => x.shadda = slot.shadda /\ x.dagger = TRUE /\ x.vowel = slot.vowel
               /\ m \in VowelMark => x.shadda = slot.shadda /\ x.dagger = slot.dagger /\ x.vowel = m
<1> DEFINE x == Editor!Marked(slot, m)
<1>1. m \in VowelMark \/ m = "shadda" \/ m = "dagger"
  BY Marks
<1>2. \A w \in VowelMark : w # "shadda" /\ w # "dagger"
  BY Marks
<1>3. CASE m = "shadda"
  <2>1. x = [slot EXCEPT !.shadda = TRUE]
    BY <1>3, Marks DEF Editor!Marked
  <2> HIDE DEF x
  <2>2. /\ x \in Slot /\ x.base = slot.base
        /\ x.shadda = TRUE /\ x.dagger = slot.dagger /\ x.vowel = slot.vowel
    BY <2>1 DEF Slot
  <2> QED BY <1>2, <1>3, <2>2 DEF x
<1>4. CASE m = "dagger"
  <2>1. x = [slot EXCEPT !.dagger = TRUE]
    BY <1>4, Marks DEF Editor!Marked
  <2> HIDE DEF x
  <2>2. /\ x \in Slot /\ x.base = slot.base
        /\ x.shadda = slot.shadda /\ x.dagger = TRUE /\ x.vowel = slot.vowel
    BY <2>1 DEF Slot
  <2> QED BY <1>2, <1>4, <2>2 DEF x
<1>5. CASE m \in VowelMark
  <2>1. x = [slot EXCEPT !.vowel = m]
    BY <1>2, <1>5 DEF Editor!Marked
  <2> HIDE DEF x
  <2>2. /\ x \in Slot /\ x.base = slot.base
        /\ x.shadda = slot.shadda /\ x.dagger = slot.dagger /\ x.vowel = m
    BY <1>5, <2>1 DEF Slot
  <2> QED BY <1>2, <1>5, <2>2 DEF x
<1> QED BY <1>1, <1>3, <1>4, <1>5

\* Putting a letter or a mark to letters with their marks gives such letters.
LEMMA PutSlots ==
    ASSUME NEW r \in Seq(Slot), NEW c \in STRING
    PROVE  /\ Editor!Put(r, c) \in Seq(Slot)
           /\ c \notin Editor!Mark => Editor!Put(r, c) = Append(r, Editor!Unmarked(c))
           /\ c \in Editor!Mark /\ r # <<>> =>
                 /\ Len(Editor!Put(r, c)) = Len(r)
                 /\ Editor!Put(r, c)[Len(r)] = Editor!Marked(r[Len(r)], c)
                 /\ \A i \in 1..(Len(r) - 1) : Editor!Put(r, c)[i] = r[i]
<1>1. CASE c \notin Editor!Mark
  <2>1. Editor!Unmarked(c) \in Slot
    BY <1>1, BareSlot
  <2> DEFINE x == Editor!Unmarked(c)
  <2>2. Editor!Put(r, c) = Append(r, x)
    BY <1>1 DEF Editor!Put
  <2> HIDE DEF x
  <2>3. x \in Slot
    BY <2>1 DEF x
  <2>4. Append(r, x) \in Seq(Slot)
    BY <2>3
  <2> QED BY <1>1, <2>2, <2>4 DEF x
<1>2. CASE c \in Editor!Mark /\ r = <<>>
  BY <1>2 DEF Editor!Put
<1>3. CASE c \in Editor!Mark /\ r # <<>>
  <2> DEFINE n == Len(r)
             m == Editor!Marked(r[n], c)
  <2>1. n \in Nat \ {0} /\ n \in 1..n /\ DOMAIN r = 1..n /\ r[n] \in Slot
    BY <1>3
  <2>2. m \in Slot
    BY <1>3, <2>1, MarkedSlot
  <2>3. Editor!Put(r, c) = [r EXCEPT ![n] = m]
    BY <1>3 DEF Editor!Put
  <2> HIDE DEF m
  <2>4. [r EXCEPT ![n] = m] \in Seq(Slot) /\ Len([r EXCEPT ![n] = m]) = n
    BY <2>1, <2>2
  <2>5. [r EXCEPT ![n] = m][n] = m
    BY <2>1
  <2>6. ASSUME NEW i \in 1..(n - 1) PROVE [r EXCEPT ![n] = m][i] = r[i]
    <3>1. i \in 1..n /\ i # n
      <4> HIDE DEF n
      <4> QED BY <2>1
    <3> QED BY <2>1, <3>1
  <2> QED BY <1>3, <2>3, <2>4, <2>5, <2>6 DEF m
<1> QED BY <1>1, <1>2, <1>3

\* What load_word has after each character.
LEMMA LoadSteps ==
    ASSUME NEW s \in Seq(STRING)
    PROVE  \E t : /\ t[0] = <<>> /\ t[Len(s)] = Editor!LettersOf(s)
                  /\ \A n \in 1..Len(s) : t[n] = Editor!Put(t[n - 1], s[n])
<1> DEFINE N == Len(s)
           D == Seq(Slot)
           f == [p \in D \X STRING |-> Editor!Put(p[1], p[2])]
           PutOf(g) == [u \in SUBSET (1..N) |->
                           IF u = {} THEN <<>> ELSE Editor!Put(g[u \ {LastOf(u)}], s[LastOf(u)])]
           iter == CHOOSE g : g = PutOf(g)
<1>1. N \in Nat /\ DOMAIN s = 1..N /\ <<>> \in D /\ \A i \in 1..N : s[i] \in STRING
  OBVIOUS
<1>2. Editor!LettersOf(s) = iter[1..N]
  BY <1>1 DEF Editor!LettersOf, Editor!FoldLeft, Editor!MapThenFoldSet, Editor!Max, LastOf
<1>3. \A r \in D, x \in STRING : f[<<r, x>>] = Editor!Put(r, x) /\ Editor!Put(r, x) \in D
  BY PutSlots
<1>4. f \in [D \X STRING -> D]
  BY <1>3
<1> HIDE DEF f, D
<1>5. PICK g : Folds(g, D, f, <<>>, s)
  BY <1>1, <1>4, FoldIterates
<1>6. ASSUME NEW h, \A u \in SUBSET (1..N) : u # {} => h[u \ {LastOf(u)}] \in D, NEW u \in SUBSET (1..N), u # {}
      PROVE  f[<<h[u \ {LastOf(u)}], s[LastOf(u)]>>] = Editor!Put(h[u \ {LastOf(u)}], s[LastOf(u)])
  <2>1. LastOf(u) \in 1..N
    BY <1>5, <1>6 DEF Folds
  <2> QED BY <1>1, <1>3, <1>6, <2>1
<1>7. g = PutOf(g)
  <2>1. \A u \in SUBSET (1..N) : u # {} => g[u \ {LastOf(u)}] \in D
    BY <1>5 DEF Folds
  <2>2. \A u \in SUBSET (1..N) : g[u] = IF u = {} THEN <<>> ELSE Editor!Put(g[u \ {LastOf(u)}], s[LastOf(u)])
    BY <1>5, <1>6, <2>1 DEF Folds
  <2>3. g = [u \in SUBSET (1..N) |-> g[u]]
    BY <1>5 DEF Folds
  <2> QED BY <2>2, <2>3
<1>8. iter = PutOf(iter)
  BY <1>7
<1> HIDE DEF iter
<1> DEFINE t == [n \in 0..N |-> iter[1..n]]
<1>9. t[0] = <<>> /\ t[N] = iter[1..N]
  BY <1>1, <1>8, Positions
<1>10. ASSUME NEW n \in 1..N PROVE t[n] = Editor!Put(t[n - 1], s[n])
  <2>1. /\ 1..n \in SUBSET (1..N) /\ 1..n # {} /\ n - 1 \in 0..N /\ n \in 0..N
        /\ LastOf(1..n) = n /\ (1..n) \ {n} = 1..(n - 1)
    BY <1>1, Positions
  <2>2. iter[1..n] = Editor!Put(iter[(1..n) \ {LastOf(1..n)}], s[LastOf(1..n)])
    BY <1>8, <2>1
  <2> QED BY <2>1, <2>2
<1> QED BY <1>2, <1>9, <1>10

\* A word's letters with their marks are such letters.
LEMMA LoadsSlots ==
    ASSUME NEW s \in Seq(STRING)
    PROVE  Editor!LettersOf(s) \in Seq(Slot) /\ (s = <<>> => Editor!LettersOf(s) = <<>>)
<1>1. PICK t : /\ t[0] = <<>> /\ t[Len(s)] = Editor!LettersOf(s)
               /\ \A n \in 1..Len(s) : t[n] = Editor!Put(t[n - 1], s[n])
  BY LoadSteps
<1>2. Len(s) \in Nat /\ \A i \in 1..Len(s) : s[i] \in STRING
  OBVIOUS
<1> DEFINE T == {n \in Nat : n <= Len(s) => t[n] \in Seq(Slot)}
<1>3. 0 \in T
  <2>1. t[0] \in Seq(Slot)
    BY <1>1
  <2> QED BY <2>1
<1>4. ASSUME NEW n \in Nat, n \in T PROVE n + 1 \in T
  <2> SUFFICES ASSUME n + 1 <= Len(s) PROVE t[n + 1] \in Seq(Slot)
    OBVIOUS
  <2>1. n + 1 \in 1..Len(s) /\ (n + 1) - 1 = n /\ t[n] \in Seq(Slot) /\ s[n + 1] \in STRING
    BY <1>2, <1>4
  <2>2. Editor!Put(t[n], s[n + 1]) \in Seq(Slot)
    BY <2>1, PutSlots
  <2> QED BY <1>1, <2>1, <2>2
<1>5. Len(s) \in T
  <2> HIDE DEF T
  <2> QED BY <1>2, <1>3, <1>4, Induction
<1> QED BY <1>1, <1>2, <1>5

\* The letters of a word with one more character.
LEMMA LoadsOneMore ==
    ASSUME NEW s \in Seq(STRING), NEW c \in STRING
    PROVE  /\ Append(s, c) \in Seq(STRING)
           /\ Editor!LettersOf(Append(s, c)) = Editor!Put(Editor!LettersOf(s), c)
<1> DEFINE w == Append(s, c)
<1>1. /\ w \in Seq(STRING) /\ Len(w) = Len(s) + 1 /\ w[Len(s) + 1] = c /\ Len(s) \in Nat
      /\ \A i \in 1..Len(s) : w[i] = s[i]
  OBVIOUS
<1> HIDE DEF w
<1>2. PICK t : /\ t[0] = <<>> /\ t[Len(s)] = Editor!LettersOf(s)
               /\ \A n \in 1..Len(s) : t[n] = Editor!Put(t[n - 1], s[n])
  BY LoadSteps
<1>3. PICK u : /\ u[0] = <<>> /\ u[Len(w)] = Editor!LettersOf(w)
               /\ \A n \in 1..Len(w) : u[n] = Editor!Put(u[n - 1], w[n])
  BY <1>1, LoadSteps
<1> DEFINE T == {n \in Nat : n <= Len(s) => t[n] = u[n]}
<1>4. 0 \in T
  BY <1>2, <1>3
<1>5. ASSUME NEW n \in Nat, n \in T PROVE n + 1 \in T
  <2> SUFFICES ASSUME n + 1 <= Len(s) PROVE t[n + 1] = u[n + 1]
    OBVIOUS
  <2>1. n + 1 \in 1..Len(s) /\ (n + 1) - 1 = n /\ t[n] = u[n] /\ n + 1 \in 1..Len(w)
    BY <1>1, <1>5
  <2>2. t[n + 1] = Editor!Put(t[n], s[n + 1]) /\ u[n + 1] = Editor!Put(u[n], w[n + 1]) /\ w[n + 1] = s[n + 1]
    BY <1>1, <1>2, <1>3, <2>1
  <2> QED BY <2>1, <2>2
<1>6. Len(s) \in T
  <2> HIDE DEF T
  <2> QED BY <1>1, <1>4, <1>5, Induction
<1>7. t[Len(s)] = u[Len(s)]
  BY <1>1, <1>6
<1>8. Len(s) + 1 \in 1..Len(w) /\ (Len(s) + 1) - 1 = Len(s)
  BY <1>1
<1>9. u[Len(s) + 1] = Editor!Put(u[Len(s)], c)
  BY <1>1, <1>3, <1>8
<1> QED BY <1>1, <1>2, <1>3, <1>7, <1>9 DEF w

LEMMA JoinIsList ==
    ASSUME NEW S, NEW a \in Seq(S), NEW b \in Seq(S)
    PROVE  a \o b \in Seq(S)
OBVIOUS

LEMMA JoinOneLast ==
    ASSUME NEW S, NEW a \in Seq(S), NEW x \in S
    PROVE  a \o <<x>> = Append(a, x) /\ a \o <<>> = a
<1>1. a \o <<x>> = Append(a, x)
  OBVIOUS
<1>2. a \o <<>> = a
  OBVIOUS
<1> QED BY <1>1, <1>2

LEMMA SameLists ==
    ASSUME NEW S, NEW a \in Seq(S), NEW b \in Seq(S), Len(a) = Len(b), \A i \in 1..Len(a) : a[i] = b[i]
    PROVE  a = b
OBVIOUS

\* A mark after a letter goes to that letter.
LEMMA LoadsMark ==
    ASSUME NEW w \in Seq(STRING), NEW r \in Seq(Slot), NEW slot \in Slot, NEW m \in Editor!Mark,
           Editor!LettersOf(w) = Append(r, slot)
    PROVE  /\ Append(w, m) \in Seq(STRING)
           /\ Editor!LettersOf(Append(w, m)) = Append(r, Editor!Marked(slot, m))
<1> DEFINE a == Append(r, slot)
           p == Editor!Put(a, m)
           x == Editor!Marked(slot, m)
<1>1. m \in STRING
  BY Marks
<1>2. a \in Seq(Slot) /\ a # <<>> /\ Len(a) = Len(r) + 1 /\ a[Len(r) + 1] = slot /\ Len(r) \in Nat
      /\ \A i \in 1..Len(r) : a[i] = r[i]
  OBVIOUS
<1>3. x \in Slot
  BY MarkedSlot
<1> HIDE DEF a, x
<1>4. /\ p \in Seq(Slot) /\ Len(p) = Len(a) /\ p[Len(a)] = Editor!Marked(a[Len(a)], m)
      /\ \A i \in 1..(Len(a) - 1) : p[i] = a[i]
  BY <1>1, <1>2, PutSlots
<1> HIDE DEF p
<1>5. p = Append(r, x)
  <2> DEFINE q == Append(r, x)
  <2>1. q \in Seq(Slot) /\ Len(q) = Len(r) + 1 /\ q[Len(r) + 1] = x /\ \A i \in 1..Len(r) : q[i] = r[i]
    BY <1>3
  <2> HIDE DEF q
  <2>2. p[Len(r) + 1] = x
    BY <1>2, <1>4 DEF x
  <2>3. \A i \in 1..Len(r) : p[i] = r[i]
    BY <1>2, <1>4
  <2>4. ASSUME NEW i \in 1..(Len(r) + 1) PROVE p[i] = q[i]
    <3>1. i = Len(r) + 1 \/ i \in 1..Len(r)
      BY <1>2
    <3> QED BY <2>1, <2>2, <2>3, <3>1
  <2>5. p = q
    BY <1>2, <1>4, <2>1, <2>4, SameLists
  <2> QED BY <2>5 DEF q
<1>6. Append(w, m) \in Seq(STRING) /\ Editor!LettersOf(Append(w, m)) = Editor!Put(a, m)
  BY <1>1, LoadsOneMore DEF a
<1> QED BY <1>5, <1>6 DEF p, x

\* A rendered letter reads back as itself.
LEMMA LoadsLetter ==
    ASSUME NEW w \in Seq(STRING), NEW slot \in Slot
    PROVE  /\ w \o Editor!Rendered(slot) \in Seq(STRING)
           /\ Editor!LettersOf(w \o Editor!Rendered(slot)) = Append(Editor!LettersOf(w), slot)
<1> DEFINE r == Editor!LettersOf(w)
           A == IF slot.shadda THEN <<"shadda">> ELSE <<>>
           B == IF slot.vowel # "none" THEN <<slot.vowel>> ELSE <<>>
           C == IF slot.dagger THEN <<"dagger">> ELSE <<>>
           b == slot.base
           s0 == Editor!Unmarked(b)
           s1 == IF slot.shadda THEN Editor!Marked(s0, "shadda") ELSE s0
           s2 == IF slot.vowel # "none" THEN Editor!Marked(s1, slot.vowel) ELSE s1
           s3 == IF slot.dagger THEN Editor!Marked(s2, "dagger") ELSE s2
           w1 == Append(w, b)
           w2 == w1 \o A
           w3 == w2 \o B
           w4 == w3 \o C
<1>1. /\ b \in STRING \ Editor!Mark /\ slot.shadda \in BOOLEAN /\ slot.dagger \in BOOLEAN
      /\ slot.vowel \in VowelMark \union {"none"}
  BY SlotFields
<1>2. /\ "shadda" \in Editor!Mark /\ "dagger" \in Editor!Mark /\ VowelMark \subseteq Editor!Mark
      /\ Editor!Mark \subseteq STRING /\ "none" \notin VowelMark
      /\ "shadda" \notin VowelMark /\ "dagger" \notin VowelMark
  BY Marks
<1>3. A \in Seq(STRING) /\ B \in Seq(STRING) /\ C \in Seq(STRING)
  <2>1. \A c \in Editor!Mark : <<c>> \in Seq(STRING)
    BY <1>2
  <2>2. <<"shadda">> \in Seq(STRING) /\ <<"dagger">> \in Seq(STRING) /\ <<>> \in Seq(STRING)
    BY <1>2, <2>1
  <2>3. slot.vowel # "none" => <<slot.vowel>> \in Seq(STRING)
    BY <1>1, <1>2, <2>1
  <2>4. (A = <<"shadda">> \/ A = <<>>) /\ (C = <<"dagger">> \/ C = <<>>)
    OBVIOUS
  <2>5. (slot.vowel # "none" /\ B = <<slot.vowel>>) \/ B = <<>>
    OBVIOUS
  <2> HIDE DEF A, B, C
  <2>6. A \in Seq(STRING)
    BY <2>2, <2>4
  <2>7. B \in Seq(STRING)
    BY <2>2, <2>3, <2>5
  <2>8. C \in Seq(STRING)
    BY <2>2, <2>4
  <2> QED BY <2>6, <2>7, <2>8
<1>4. r \in Seq(Slot)
  BY LoadsSlots
<1>5. w \o Editor!Rendered(slot) = w4
  <2>1. Editor!Rendered(slot) = ((<<b>> \o A) \o B) \o C
    BY DEF Editor!Rendered
  <2> DEFINE o == <<b>>
  <2>2. o \in Seq(STRING)
    BY <1>1
  <2>3. w \o o = w1
    BY <1>1, JoinOneLast
  <2> HIDE DEF A, B, C, o, w1
  <2>4. w \o (((o \o A) \o B) \o C) = (((w \o o) \o A) \o B) \o C
    <3>1. PICK oA \in Seq(STRING) : oA = o \o A
      BY <1>3, <2>2, JoinIsList
    <3>2. PICK oB \in Seq(STRING) : oB = oA \o B
      BY <1>3, JoinIsList
    <3>3. w \o (o \o A) = (w \o o) \o A
      BY <1>3, <2>2, SMTT(20)
    <3>4. w \o (oA \o B) = (w \o oA) \o B
      BY <1>3, SMTT(20)
    <3>5. w \o (oB \o C) = (w \o oB) \o C
      BY <1>3, SMTT(20)
    <3> QED BY <3>1, <3>2, <3>3, <3>4, <3>5, Zenon
  <2> QED BY <2>1, <2>3, <2>4 DEF o
<1>6. s0 \in Slot /\ s0.base = b /\ s0.shadda = FALSE /\ s0.dagger = FALSE /\ s0.vowel = "none"
  BY <1>1, BareSlot, SlotFields
<1>7. w1 \in Seq(STRING) /\ Editor!LettersOf(w1) = Append(r, s0)
  <2>1. w1 \in Seq(STRING) /\ Editor!LettersOf(w1) = Editor!Put(r, b)
    BY <1>1, LoadsOneMore
  <2>2. Editor!Put(r, b) = Append(r, s0)
    BY <1>1, <1>4, PutSlots
  <2> QED BY <2>1, <2>2
<1> HIDE DEF r, w1, s0
<1>8. /\ w2 \in Seq(STRING) /\ Editor!LettersOf(w2) = Append(r, s1) /\ s1 \in Slot /\ s1.base = b
      /\ s1.shadda = slot.shadda /\ s1.dagger = FALSE /\ s1.vowel = "none"
  <2>1. CASE slot.shadda
    <3> DEFINE x == Editor!Marked(s0, "shadda")
    <3>1. Append(w1, "shadda") \in Seq(STRING) /\ Editor!LettersOf(Append(w1, "shadda")) = Append(r, x)
      BY <1>2, <1>4, <1>6, <1>7, LoadsMark
    <3>2. x \in Slot /\ x.base = b /\ x.shadda = TRUE /\ x.dagger = FALSE /\ x.vowel = "none"
      BY <1>2, <1>6, MarkedSlot
    <3>3. w2 = Append(w1, "shadda")
      BY <1>2, <1>7, <2>1, JoinOneLast
    <3>4. s1 = x /\ slot.shadda = TRUE
      BY <1>1, <2>1
    <3> HIDE DEF x, s1, w2
    <3> QED BY <3>1, <3>2, <3>3, <3>4
  <2>2. CASE ~slot.shadda
    <3>1. w2 = w1
      BY <1>7, <2>2, JoinOneLast
    <3>2. s1 = s0 /\ slot.shadda = FALSE
      BY <1>1, <2>2
    <3> HIDE DEF s1, w2
    <3> QED BY <1>6, <1>7, <3>1, <3>2
  <2> QED BY <2>1, <2>2
<1> HIDE DEF w2, s1
<1>9. /\ w3 \in Seq(STRING) /\ Editor!LettersOf(w3) = Append(r, s2) /\ s2 \in Slot /\ s2.base = b
      /\ s2.shadda = slot.shadda /\ s2.dagger = FALSE /\ s2.vowel = slot.vowel
  <2>1. CASE slot.vowel # "none"
    <3> DEFINE v == slot.vowel
               x == Editor!Marked(s1, v)
    <3>1. v \in VowelMark /\ v \in Editor!Mark
      BY <1>1, <1>2, <2>1
    <3>2. w3 = w2 \o <<v>> /\ s2 = x
      BY <2>1
    <3> HIDE DEF v
    <3>3. Append(w2, v) \in Seq(STRING) /\ Editor!LettersOf(Append(w2, v)) = Append(r, x)
      BY <1>4, <1>8, <3>1, LoadsMark
    <3>4. x \in Slot /\ x.base = b /\ x.shadda = slot.shadda /\ x.dagger = FALSE /\ x.vowel = v
      BY <1>8, <3>1, MarkedSlot
    <3>5. w2 \o <<v>> = Append(w2, v)
      BY <1>2, <1>8, <3>1, JoinOneLast
    <3> HIDE DEF x, s2, w3
    <3> QED BY <3>2, <3>3, <3>4, <3>5 DEF v
  <2>2. CASE slot.vowel = "none"
    <3>1. w3 = w2
      BY <1>8, <2>2, JoinOneLast
    <3>2. s2 = s1
      BY <2>2
    <3> HIDE DEF s2, w3
    <3> QED BY <1>8, <2>2, <3>1, <3>2
  <2> QED BY <2>1, <2>2
<1> HIDE DEF w3, s2
<1>10. w4 \in Seq(STRING) /\ Editor!LettersOf(w4) = Append(r, slot)
  <2>1. CASE slot.dagger
    <3> DEFINE x == Editor!Marked(s2, "dagger")
    <3>1. Append(w3, "dagger") \in Seq(STRING) /\ Editor!LettersOf(Append(w3, "dagger")) = Append(r, x)
      BY <1>2, <1>4, <1>9, LoadsMark
    <3>2. x \in Slot /\ x.base = b /\ x.shadda = slot.shadda /\ x.dagger = TRUE /\ x.vowel = slot.vowel
      BY <1>2, <1>9, MarkedSlot
    <3>3. w4 = Append(w3, "dagger")
      BY <1>2, <1>9, <2>1, JoinOneLast
    <3>4. slot.dagger = TRUE
      BY <1>1, <2>1
    <3> HIDE DEF x
    <3>5. x = slot
      BY <3>2, <3>4, SlotFields
    <3> QED BY <3>1, <3>3, <3>5
  <2>2. CASE ~slot.dagger
    <3>1. w4 = w3
      BY <1>9, <2>2, JoinOneLast
    <3>2. slot.dagger = FALSE
      BY <1>1, <2>2
    <3>3. s2 = slot
      BY <1>9, <3>2, SlotFields
    <3> QED BY <1>9, <3>1, <3>3
  <2> QED BY <2>1, <2>2
<1> QED BY <1>5, <1>10 DEF r

\* What render has after each letter.
LEMMA RenderSteps ==
    ASSUME NEW s \in Seq(Slot)
    PROVE  \E t : /\ t[0] = <<>> /\ t[Len(s)] = Editor!Render(s)
                  /\ \A n \in 1..Len(s) : t[n] = t[n - 1] \o Editor!Rendered(s[n])
<1> DEFINE N == Len(s)
           D == Seq(STRING)
           More(out, slot) == out \o Editor!Rendered(slot)
           f == [p \in D \X Slot |-> More(p[1], p[2])]
           RenderOf(g) == [u \in SUBSET (1..N) |->
                              IF u = {} THEN <<>> ELSE More(g[u \ {LastOf(u)}], s[LastOf(u)])]
           iter == CHOOSE g : g = RenderOf(g)
<1>1. N \in Nat /\ DOMAIN s = 1..N /\ <<>> \in D /\ \A i \in 1..N : s[i] \in Slot
  OBVIOUS
<1>2. Editor!Render(s) = iter[1..N]
  BY <1>1 DEF Editor!Render, Editor!FoldLeft, Editor!MapThenFoldSet, Editor!Max, LastOf
<1>3. \A r \in D, x \in Slot : f[<<r, x>>] = More(r, x) /\ More(r, x) \in D
  BY LoadsLetter
<1>4. f \in [D \X Slot -> D]
  BY <1>3
<1> HIDE DEF f, D, More
<1>5. PICK g : Folds(g, D, f, <<>>, s)
  BY <1>1, <1>4, FoldIterates
<1>6. ASSUME NEW h, \A u \in SUBSET (1..N) : u # {} => h[u \ {LastOf(u)}] \in D, NEW u \in SUBSET (1..N), u # {}
      PROVE  f[<<h[u \ {LastOf(u)}], s[LastOf(u)]>>] = More(h[u \ {LastOf(u)}], s[LastOf(u)])
  <2>1. LastOf(u) \in 1..N
    BY <1>5, <1>6 DEF Folds
  <2> QED BY <1>1, <1>3, <1>6, <2>1
<1>7. g = RenderOf(g)
  <2>1. \A u \in SUBSET (1..N) : u # {} => g[u \ {LastOf(u)}] \in D
    BY <1>5 DEF Folds
  <2>2. \A u \in SUBSET (1..N) : g[u] = IF u = {} THEN <<>> ELSE More(g[u \ {LastOf(u)}], s[LastOf(u)])
    BY <1>5, <1>6, <2>1 DEF Folds
  <2>3. g = [u \in SUBSET (1..N) |-> g[u]]
    BY <1>5 DEF Folds
  <2> QED BY <2>2, <2>3
<1>8. iter = RenderOf(iter)
  BY <1>7
<1> HIDE DEF iter
<1> DEFINE t == [n \in 0..N |-> iter[1..n]]
<1>9. t[0] = <<>> /\ t[N] = iter[1..N]
  BY <1>1, <1>8, Positions
<1>10. ASSUME NEW n \in 1..N PROVE t[n] = More(t[n - 1], s[n])
  <2>1. /\ 1..n \in SUBSET (1..N) /\ 1..n # {} /\ n - 1 \in 0..N /\ n \in 0..N
        /\ LastOf(1..n) = n /\ (1..n) \ {n} = 1..(n - 1)
    BY <1>1, Positions
  <2>2. iter[1..n] = More(iter[(1..n) \ {LastOf(1..n)}], s[LastOf(1..n)])
    BY <1>8, <2>1
  <2> QED BY <2>1, <2>2
<1> HIDE DEF t
<1> QED BY <1>2, <1>9, <1>10 DEF More

\* Rendered letters read back as they are.
LEMMA ReadsBack ==
    ASSUME NEW s \in Seq(Slot)
    PROVE  Editor!LettersOf(Editor!Render(s)) = s
<1>1. PICK t : /\ t[0] = <<>> /\ t[Len(s)] = Editor!Render(s)
               /\ \A n \in 1..Len(s) : t[n] = t[n - 1] \o Editor!Rendered(s[n])
  BY RenderSteps
<1>2. Len(s) \in Nat /\ \A i \in 1..Len(s) : s[i] \in Slot
  OBVIOUS
<1> DEFINE Reads(w, n) ==
              /\ w \in Seq(STRING) /\ Editor!LettersOf(w) \in Seq(Slot) /\ Len(Editor!LettersOf(w)) = n
              /\ \A i \in 1..n : Editor!LettersOf(w)[i] = s[i]
           T == {n \in Nat : n <= Len(s) => Reads(t[n], n)}
<1>3. 0 \in T
  <2> DEFINE w == t[0]
             r == Editor!LettersOf(w)
  <2>1. w \in Seq(STRING) /\ w = <<>>
    BY <1>1
  <2> HIDE DEF w
  <2>2. r = <<>> /\ r \in Seq(Slot)
    BY <2>1, LoadsSlots
  <2> HIDE DEF r
  <2>3. Len(r) = 0
    BY <2>2
  <2>4. \A i \in 1..0 : r[i] = s[i]
    OBVIOUS
  <2>5. Reads(w, 0)
    BY <2>1, <2>2, <2>3, <2>4 DEF r
  <2> HIDE DEF Reads
  <2> QED BY <2>5 DEF w
<1>4. ASSUME NEW n \in Nat, n \in T PROVE n + 1 \in T
  <2> SUFFICES ASSUME n + 1 <= Len(s) PROVE Reads(t[n + 1], n + 1)
    <3> HIDE DEF Reads
    <3> QED OBVIOUS
  <2> DEFINE w == t[n]
             r == Editor!LettersOf(w)
             x == s[n + 1]
             a == Append(r, x)
  <2>1. n + 1 \in 1..Len(s) /\ (n + 1) - 1 = n /\ x \in Slot
    BY <1>2
  <2>2. Reads(w, n)
    <3> HIDE DEF Reads
    <3> QED BY <1>2, <1>4
  <2>3. t[n + 1] = w \o Editor!Rendered(x)
    BY <1>1, <2>1
  <2> HIDE DEF w, x
  <2>4. w \o Editor!Rendered(x) \in Seq(STRING) /\ Editor!LettersOf(w \o Editor!Rendered(x)) = a
    BY <2>1, <2>2, LoadsLetter
  <2> HIDE DEF r
  <2>5. r \in Seq(Slot) /\ Len(r) = n /\ \A i \in 1..n : r[i] = s[i]
    BY <2>2 DEF r
  <2>6. a \in Seq(Slot) /\ Len(a) = n + 1 /\ a[n + 1] = x /\ \A i \in 1..n : a[i] = r[i]
    BY <2>1, <2>5
  <2> HIDE DEF a
  <2>7. ASSUME NEW i \in 1..(n + 1) PROVE a[i] = s[i]
    <3>1. i = n + 1 \/ i \in 1..n
      OBVIOUS
    <3> QED BY <2>5, <2>6, <3>1 DEF x
  <2> QED BY <2>3, <2>4, <2>6, <2>7
<1>5. Reads(t[Len(s)], Len(s))
  <2>1. Len(s) \in T
    <3> HIDE DEF T
    <3> QED BY <1>2, <1>3, <1>4, Induction
  <2> HIDE DEF Reads
  <2> QED BY <1>2, <2>1
<1> DEFINE l == Editor!LettersOf(Editor!Render(s))
<1>6. l \in Seq(Slot) /\ Len(l) = Len(s) /\ \A i \in 1..Len(s) : l[i] = s[i]
  BY <1>1, <1>5
<1> HIDE DEF l
<1>7. l = s
  BY <1>6, SameLists
<1> QED BY <1>7 DEF l

\* The editor's letters are letters with their marks, at least one.
EditorInv ==
    /\ slots \in Seq(Slot) /\ slots # <<>>
    /\ highlighted \in 0..Len(QuickPicks)

\* Opening a word, or picking one, gives such letters.
LEMMA OpensSlots ==
    ASSUME NEW w \in Seq(STRING)
    PROVE  Editor!SlotsOf(w) \in Seq(Slot) /\ Editor!SlotsOf(w) # <<>>
<1> DEFINE l == Editor!LettersOf(w)
           x == Editor!Unmarked("blank")
<1>1. l \in Seq(Slot)
  BY LoadsSlots
<1>2. x \in Slot
  BY Marks, BareSlot
<1>3. Editor!SlotsOf(w) = IF l = <<>> THEN <<x>> ELSE l
  BY DEF Editor!SlotsOf
<1> HIDE DEF l, x
<1>4. <<x>> \in Seq(Slot) /\ <<x>> # <<>>
  BY <1>2
<1>5. CASE l = <<>>
  BY <1>3, <1>4, <1>5
<1>6. CASE l # <<>>
  BY <1>1, <1>3, <1>6
<1> QED BY <1>5, <1>6

\* A command on some letters leaves the others as they are.
LEMMA OnSlots ==
    ASSUME EditorInv, NEW K, NEW new, Editor!On(K, new),
           \A i \in DOMAIN slots : i \in K => new[i] \in Slot,
           highlighted' = highlighted
    PROVE  EditorInv'
<1>1. slots' = [i \in DOMAIN slots |-> IF i \in K THEN new[i] ELSE slots[i]]
  BY DEF Editor!On
<1>2. DOMAIN slots = 1..Len(slots) /\ Len(slots) \in Nat \ {0} /\ \A i \in 1..Len(slots) : slots[i] \in Slot
  BY DEF EditorInv
<1>3. \A i \in 1..Len(slots) : (IF i \in K THEN new[i] ELSE slots[i]) \in Slot
  BY <1>2
<1>4. slots' \in [1..Len(slots) -> Slot]
  BY <1>1, <1>2, <1>3
<1>5. slots' \in Seq(Slot) /\ slots' # <<>>
  BY <1>2, <1>4
<1> QED BY <1>5 DEF EditorInv

\* Every mark command.
LEMMA MarkingKeeps ==
    ASSUME EditorInv, Editor!Marking
    PROVE  EditorInv'
<1>0. \A i \in DOMAIN slots : slots[i] \in Slot
  BY DEF EditorInv
<1>1. ASSUME NEW v \in VowelMark, Editor!PutVowel(v) PROVE EditorInv'
  <2> DEFINE K == {i \in selectedLetters : Editor!Takes(slots[i], v)}
             new == [i \in K |-> [slots[i] EXCEPT !.vowel = v]]
  <2>1. Editor!On(K, new) /\ highlighted' = highlighted
    BY <1>1 DEF Editor!PutVowel
  <2>2. \A slot \in Slot : [slot EXCEPT !.vowel = v] \in Slot
    BY <1>1 DEF Slot
  <2>3. \A i \in DOMAIN slots : i \in K => new[i] \in Slot
    BY <1>0, <2>2
  <2> HIDE DEF K, new
  <2> QED BY <2>1, <2>3, OnSlots
<1>2. CASE Editor!ShaddaToggle
  <2> DEFINE K == {i \in selectedLetters : slots[i].base \notin BareLetter}
             target == \E i \in K : ~slots[i].shadda
             new == [i \in K |-> [slots[i] EXCEPT !.shadda = target]]
  <2>1. Editor!On(K, new) /\ highlighted' = highlighted
    BY <1>2 DEF Editor!ShaddaToggle, Editor!Stay
  <2>2. \A slot \in Slot : \A y \in BOOLEAN : [slot EXCEPT !.shadda = y] \in Slot
    BY DEF Slot
  <2>3. target \in BOOLEAN
    OBVIOUS
  <2> HIDE DEF target
  <2>4. \A i \in DOMAIN slots : i \in K => new[i] \in Slot
    BY <1>0, <2>2, <2>3
  <2> HIDE DEF K, new
  <2> QED BY <2>1, <2>4, OnSlots
<1>3. CASE Editor!DaggerAlif
  <2> DEFINE target == \E i \in selectedLetters : ~slots[i].dagger
             new == [i \in selectedLetters |-> [slots[i] EXCEPT !.dagger = target]]
  <2>1. Editor!On(selectedLetters, new) /\ highlighted' = highlighted
    BY <1>3 DEF Editor!DaggerAlif, Editor!Stay
  <2>2. \A slot \in Slot : \A y \in BOOLEAN : [slot EXCEPT !.dagger = y] \in Slot
    BY DEF Slot
  <2>3. target \in BOOLEAN
    OBVIOUS
  <2> HIDE DEF target
  <2>4. \A i \in DOMAIN slots : i \in selectedLetters => new[i] \in Slot
    BY <1>0, <2>2, <2>3
  <2> HIDE DEF new
  <2> QED BY <2>1, <2>4, OnSlots
<1>4. \A i \in DOMAIN slots : Editor!Cleared[i] \in Slot
  <2>1. \A slot \in Slot : Editor!Unmarked(slot.base) \in Slot
    BY BareSlot, SlotFields
  <2> QED BY <1>0, <2>1 DEF Editor!Cleared
<1>5. CASE Editor!Clear \/ Editor!ClearAll
  BY <1>4, <1>5, OnSlots DEF Editor!Clear, Editor!ClearAll, Editor!Stay
<1> QED BY <1>1, <1>2, <1>3, <1>5 DEF Editor!Marking

\* A quick pick.
LEMMA PickKeeps ==
    ASSUME NEW k \in DOMAIN QuickPicks, Editor!QuickPick(k)
    PROVE  EditorInv'
<1>1. QuickPicks[k] \in Seq(STRING) /\ k \in 0..Len(QuickPicks)
  BY EditorData DEF EditorData
<1>2. slots' = Editor!SlotsOf(QuickPicks[k]) /\ highlighted' = k
  BY DEF Editor!QuickPick, Editor!LoadWord
<1> QED BY <1>1, <1>2, OpensSlots DEF EditorInv

\* Every step of the editor.
LEMMA EditorInvStep ==
    ASSUME EditorInv, Editor!Next \/ UNCHANGED editorVars
    PROVE  EditorInv'
<1>1. CASE UNCHANGED <<slots, highlighted>>
  BY <1>1 DEF EditorInv
<1>2. ASSUME NEW w \in OpenedOn, Editor!Open(w) PROVE EditorInv'
  <2>1. w \in Seq(STRING)
    BY EditorData DEF EditorData
  <2>2. slots' = Editor!SlotsOf(w) /\ highlighted' = 0
    BY <1>2 DEF Editor!Open
  <2>3. 0 \in 0..Len(QuickPicks)
    BY EditorData DEF EditorData
  <2> QED BY <2>1, <2>2, <2>3, OpensSlots DEF EditorInv
<1>3. CASE Editor!Selecting
  BY <1>1, <1>3 DEF Editor!Selecting, Editor!Move, Editor!SelectOnly, Editor!SelectToggle, Editor!SelectRange
<1>4. CASE Editor!Back
  BY <1>1, <1>4 DEF Editor!Back
<1>5. CASE Editor!ClearOrBack
  <2>1. Editor!Clear \/ Editor!Back
    BY <1>5 DEF Editor!ClearOrBack
  <2> QED BY <1>4, <2>1, MarkingKeeps DEF Editor!Marking
<1>6. CASE Editor!PickDown \/ Editor!PickUp
  <2> DEFINE n == Len(QuickPicks)
             next == IF highlighted = 0 THEN 1 ELSE (highlighted % n) + 1
             last == IF highlighted = 0 THEN 1 ELSE IF highlighted = 1 THEN n ELSE highlighted - 1
  <2>1. n \in Nat \ {0} /\ DOMAIN QuickPicks = 1..n /\ highlighted \in 0..n
    BY <1>6, EditorData DEF Editor!PickDown, Editor!PickUp, EditorData, EditorInv
  <2>2. Editor!QuickPick(next) \/ Editor!QuickPick(last)
    BY <1>6 DEF Editor!PickDown, Editor!PickUp
  <2> HIDE DEF n
  <2>3. highlighted % n \in 0..(n - 1)
    BY <2>1
  <2>4. next \in 1..n /\ last \in 1..n
    BY <2>1, <2>3
  <2> HIDE DEF next, last
  <2> QED BY <2>1, <2>2, <2>4, PickKeeps
<1>7. ASSUME NEW k \in DOMAIN QuickPicks, Editor!QuickPick(k) PROVE EditorInv'
  BY <1>7, PickKeeps
<1>8. CASE UNCHANGED editorVars
  BY <1>1, <1>8 DEF editorVars
<1> QED BY <1>2, <1>3, <1>4, <1>5, <1>6, <1>7, <1>8, MarkingKeeps DEF Editor!Next

LEMMA EditorBehaves == PartsSpec => [](part = "editor" => EditorInv)
<1>1. PartsInit => EditorInv
  <2> SUFFICES ASSUME PartsInit PROVE EditorInv
    OBVIOUS
  <2> DEFINE x == Editor!Unmarked("blank")
  <2>1. slots = <<x>> /\ highlighted = 0
    BY DEF PartsInit, Editor!Init
  <2>2. x \in Slot
    BY Marks, BareSlot
  <2> HIDE DEF x
  <2>3. 0 \in 0..Len(QuickPicks)
    BY EditorData DEF EditorData
  <2> QED BY <2>1, <2>2, <2>3 DEF EditorInv
<1>2. (part = "editor" => EditorInv) /\ [PartsNext]_partsVars => (part = "editor" => EditorInv)'
  <2> SUFFICES ASSUME part = "editor" => EditorInv, [PartsNext]_partsVars, part' = "editor"
               PROVE  EditorInv'
    OBVIOUS
  <2>1. part = "editor"
    BY PartStays
  <2>2. Editor!Next \/ UNCHANGED editorVars
    BY <2>1 DEF PartsNext, partsVars
  <2> QED BY <2>1, <2>2, EditorInvStep
<1> QED BY <1>1, <1>2, PTL DEF PartsSpec

\* The word the editor commits reads back as exactly the letters and marks it
\* shows, whatever words it is opened on and whatever marks, commands and quick
\* picks there are.
THEOREM TheEditorWritesWhatItShows == PartsSpec => []CommitsWhatItShows
<1>1. (part = "editor" => EditorInv) => CommitsWhatItShows
  <2> SUFFICES ASSUME EditorInv PROVE Editor!CommitsWhatItShows
    BY DEF CommitsWhatItShows
  <2>1. Editor!LettersOf(Editor!Render(slots)) = slots
    BY ReadsBack DEF EditorInv
  <2> QED BY <2>1 DEF EditorInv, Editor!SlotsOf, Editor!CommitsWhatItShows
<1> QED BY <1>1, EditorBehaves, PTL

=============================================================================
