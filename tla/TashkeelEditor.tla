--------------------------- MODULE TashkeelEditor ---------------------------
(***************************************************************************)
(* The diacritics editor inside the popup (TashkeelEditor, tashkeel.rs):   *)
(* the letters of a word with their marks, a focused letter, a selection   *)
(* that commands apply to, and the vocalisations offered as quick picks.   *)
(* Letters count from 1.  A word is a sequence of letters and marks.       *)
(***************************************************************************)
EXTENDS Naturals, SequencesExt, FiniteSets

CONSTANTS
    Bare,     \* bare alif and alif maqsura: no vowel but fathatan, no shadda
    Words,    \* the words the editor is opened on
    Picks,    \* the vocalisations offered with them (Session::vocalizations)
    Vowel     \* fathatan and others of the seven vowel marks, which are treated alike

Mark == Vowel \union {"shadda", "dagger"}

\* The marks one letter carries: at most one vowel, a shadda, a dagger alif.
Unmarked(c) == [base |-> c, shadda |-> FALSE, dagger |-> FALSE, vowel |-> "none"]

VARIABLES
    open,       \* the editor is shown (State::tashkeel is Some)
    slots,      \* the letters and their marks
    focused,    \* focused_letter
    selected,   \* the selected letters
    highlighted \* highlighted_pick, 0 for None

vars == <<open, slots, focused, selected, highlighted>>

-----------------------------------------------------------------------------
(* load_word and render.                                                   *)

Marked(slot, m) ==
    CASE m = "shadda" -> [slot EXCEPT !.shadda = TRUE]
      [] m = "dagger" -> [slot EXCEPT !.dagger = TRUE]
      [] m \in Vowel  -> [slot EXCEPT !.vowel = m]

\* The letters of a word with the marks that follow each; a mark before the
\* first letter belongs to none.
Put(out, c) ==
    IF c \notin Mark THEN Append(out, Unmarked(c))
    ELSE IF out = <<>> THEN out
    ELSE [out EXCEPT ![Len(out)] = Marked(@, c)]

LettersOf(word) == FoldLeft(Put, <<>>, word)

SlotsOf(word) ==
    IF LettersOf(word) = <<>> THEN <<Unmarked("blank")>> ELSE LettersOf(word)

RenderedVowelFirst(slot) ==   \* mutant: the dagger alif is dropped beside a vowel
    <<slot.base>>
    \o (IF slot.shadda THEN <<"shadda">> ELSE <<>>)
    \o (IF slot.vowel # "none" THEN <<slot.vowel>>
        ELSE IF slot.dagger THEN <<"dagger">> ELSE <<>>)

Rendered(slot) ==
    <<slot.base>>
    \o (IF slot.shadda THEN <<"shadda">> ELSE <<>>)
    \o (IF slot.vowel # "none" THEN <<slot.vowel>> ELSE <<>>)
    \o (IF slot.dagger THEN <<"dagger">> ELSE <<>>)

\* What the editor commits.
Render(s) == FoldLeft(LAMBDA out, slot : out \o Rendered(slot), <<>>, s)

-----------------------------------------------------------------------------
(* Focus and selection.                                                    *)

MinOf(a, b) == IF a < b THEN a ELSE b

\* load_word: the focus is clamped to the new word, which alone is selected.
LoadWord(word) ==
    /\ slots' = SlotsOf(word)
    /\ focused' = MinOf(focused, Len(slots'))
    /\ selected' = {focused'}

\* move_focus to an existing letter.
MoveFocus(to, extend) ==
    /\ focused' = to
    /\ selected' = (IF extend THEN selected ELSE {}) \union {to}

Next_(i) == MinOf(i + 1, Len(slots))
Prev_(i) == IF i = 1 THEN 1 ELSE i - 1

Move ==
    /\ \/ \E extend \in BOOLEAN, to \in {Next_(focused), Prev_(focused)} :
              MoveFocus(to, extend)                   \* LetterNext/Prev, ExtendNext/Prev
       \/ MoveFocus(1, FALSE)                         \* LetterFirst
       \/ MoveFocus(Len(slots), FALSE)                \* LetterLast
    /\ UNCHANGED <<open, slots, highlighted>>

\* A click on letter i.
SelectOnly(i) == MoveFocus(i, FALSE) /\ UNCHANGED <<open, slots, highlighted>>

\* Ctrl+click: the last selected letter stays selected; a focused letter that
\* is taken out hands the focus to the first one left.
SelectToggle(i) ==
    /\ IF i \notin selected THEN selected' = selected \union {i} /\ focused' = i
       ELSE IF selected = {i} THEN MoveFocus(i, FALSE)
       ELSE /\ selected' = selected \ {i}
            /\ focused' = IF focused = i
                          THEN CHOOSE k \in selected' : \A j \in selected' : k <= j
                          ELSE focused
    /\ UNCHANGED <<open, slots, highlighted>>

\* Shift+click, or a drag: from the focused letter to this one.
SelectRange(i) ==
    /\ selected' = i..focused \union focused..i
    /\ focused' = i
    /\ UNCHANGED <<open, slots, highlighted>>

-----------------------------------------------------------------------------
(* Marks.                                                                  *)

\* The letters of K become those of new.
On(K, new) == slots' = [i \in DOMAIN slots |-> IF i \in K THEN new[i] ELSE slots[i]]

Stay == UNCHANGED <<open, focused, selected, highlighted>>

Takes(slot, v) == slot.base \notin Bare \/ v = "fathatan"

\* Fatha .. Kasratan; one selected letter hands the focus on to the next.
PutVowel(v) ==
    LET K == {i \in selected : Takes(slots[i], v)}
    IN  /\ On(K, [i \in K |-> [slots[i] EXCEPT !.vowel = v]])
        /\ IF K # {} /\ Cardinality(selected) = 1 /\ focused < Len(slots)
           THEN MoveFocus(focused + 1, FALSE) ELSE UNCHANGED <<focused, selected>>
        /\ UNCHANGED <<open, highlighted>>

ShaddaToggle ==
    LET K == {i \in selected : slots[i].base \notin Bare}
        target == \E i \in K : ~slots[i].shadda
    IN  On(K, [i \in K |-> [slots[i] EXCEPT !.shadda = target]]) /\ Stay

DaggerAlif ==
    LET target == \E i \in selected : ~slots[i].dagger
    IN  On(selected, [i \in selected |-> [slots[i] EXCEPT !.dagger = target]]) /\ Stay

HasMarks(s) == s # Unmarked(s.base)

Cleared == [i \in DOMAIN slots |-> Unmarked(slots[i].base)]

Clear == On(selected, Cleared) /\ Stay
ClearAll == On(DOMAIN slots, Cleared) /\ Stay

\* Back and Escape; Backspace does the same on letters without marks.
Back == open' = FALSE /\ UNCHANGED <<slots, focused, selected, highlighted>>
ClearOrBack == IF \E i \in selected : HasMarks(slots[i]) THEN Clear ELSE Back

\* QuickPick: nothing happens for a number beyond the picks.
QuickPick(k) == LoadWord(Picks[k]) /\ highlighted' = k /\ UNCHANGED open

\* PickDown and PickUp go around the picks, from the first.
PickDown ==
    /\ Picks # <<>>
    /\ QuickPick(IF highlighted = 0 THEN 1 ELSE (highlighted % Len(Picks)) + 1)
PickUp ==
    /\ Picks # <<>>
    /\ QuickPick(IF highlighted = 0 THEN 1
                 ELSE IF highlighted = 1 THEN Len(Picks) ELSE highlighted - 1)

\* TashkeelEditor::new: the first letter is selected.
Open(word) ==
    /\ ~open /\ open' = TRUE
    /\ slots' = SlotsOf(word) /\ focused' = 1 /\ selected' = {1} /\ highlighted' = 0

\* The word is inserted.
Commit == Back

Init ==
    /\ open = FALSE /\ slots = <<Unmarked("blank")>> /\ focused = 1 /\ selected = {1}
    /\ highlighted = 0

Marking ==
    \/ \E v \in Vowel : PutVowel(v)
    \/ ShaddaToggle \/ DaggerAlif \/ Clear \/ ClearAll

Selecting ==
    \/ Move
    \/ \E i \in DOMAIN slots : SelectOnly(i) \/ SelectToggle(i) \/ SelectRange(i)

Next ==
    \/ \E word \in Words : Open(word)
    \/ open /\ (Marking \/ Selecting \/ ClearOrBack \/ Back)
    \/ open /\ (PickUp \/ PickDown \/ \E k \in DOMAIN Picks : QuickPick(k))

Spec == Init /\ [][Next]_vars

-----------------------------------------------------------------------------
(* Properties.                                                             *)

\* The word the editor commits reads back as exactly the marks it shows.
CommitsWhatItShows == SlotsOf(Render(slots)) = slots

=============================================================================
