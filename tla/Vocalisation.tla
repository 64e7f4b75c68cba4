---------------------------- MODULE Vocalisation ----------------------------
(***************************************************************************)
(* "Harakat from your vowels" (vowel_harakat, tashkeel.rs): the diacritics *)
(* of a reading, derived from the Latin vowels and doubled consonants that *)
(* the user typed, along the reading's alignment; and the list of          *)
(* vocalisations the session offers to the editor.                         *)
(***************************************************************************)
EXTENDS Naturals, SequencesExt

CONSTANTS
    Steps,      \* the steps an alignment may have, records of Step
    Variants,   \* the vocalisations the dictionary has for a word, in order
    Sacred,     \* the letters of a sacred word, and where its style goes
    MaxSteps

Long == {"a", "w", "y"}              \* alif, waw, ya
NeverMark == {"a", "maqsura", "ta"}  \* alif, alif maqsura, ta marbuta
Carrier == {"hamza", "ain"}
Style == {"on_alif", "before_alif", "off"}

\* One aligned chunk: its letters, the rule's flags, the short vowel that
\* vowel_marks.tsv gives its Latin vowel and the first letter of it, and where in
\* a word its rule applies.
Step == [letters : Seq(STRING), vowel : BOOLEAN, gem : BOOLEAN, tanween : BOOLEAN,
         article : BOOLEAN, mark : STRING, first : STRING, at : {"start", "end", "any"}]

VARIABLES steps, full, tanween, allah_form

vars == <<steps, full, tanween, allah_form>>

-----------------------------------------------------------------------------
(* The walk along the alignment: the letters so far with their marks, and  *)
(* the consonant just written (0: none), which takes the next short vowel. *)

\* Only a letter of a consonant rule can be markable.
Slot(letter, markable, vowel) ==
    [letter |-> letter, shadda |-> FALSE, vowel |-> vowel, markable |-> markable]
Silent(letter) == Slot(letter, FALSE, "none")

\* The consonant keeps the first vowel it gets.
MarkLast(w, v) ==
    IF w.last = 0 \/ w.slots[w.last].vowel # "none" THEN w.slots
    ELSE [w.slots EXCEPT ![w.last].vowel = v]

LongMark(letter) == CASE letter = "a" -> "fatha" [] letter = "w" -> "damma" [] letter = "y" -> "kasra"

VowelStep(w, s) ==
    [last  |-> 0,
     slots |-> IF s.letters = <<>> THEN MarkLast(w, s.mark)
               ELSE IF Len(s.letters) = 1 /\ s.letters[1] \in Long /\ w.last # 0
               THEN Append(MarkLast(w, LongMark(s.letters[1])), Silent(s.letters[1]))
               ELSE w.slots \o [i \in DOMAIN s.letters |->   \* the vowel on a carrier of its own
                        Slot(s.letters[i], FALSE,
                             IF s.letters[i] \in Carrier THEN s.first ELSE "none")]]

WithTanween(slots, s, style) ==
    LET n == Len(slots)
        at == IF style = "on_alif" THEN n ELSE n - 1
    IN  IF s.tanween /\ slots[n].letter = "a" /\ style # "off" /\ at > 0
        THEN [slots EXCEPT ![at].vowel = "fathatan"] ELSE slots

MarkableInArticle(s, i) == s.letters[i] \notin NeverMark   \* mutant: the article's lam is marked

\* The letters of the article, and three others, are never marked.
Markable(s, i) ==
    /\ ~(s.article /\ i <= 2 /\ Len(s.letters) >= 2 /\ SubSeq(s.letters, 1, 2) = <<"a", "l">>)
    /\ s.letters[i] \notin NeverMark

ConsonantStep(w, s, style) ==
    LET put == w.slots \o [i \in DOMAIN s.letters |-> Slot(s.letters[i], Markable(s, i), "none")]
        n == Len(put)
        doubled == [put EXCEPT ![n].shadda = s.gem /\ put[n].markable]
    IN  IF s.letters = <<>> THEN w
        ELSE [slots |-> WithTanween(doubled, s, style),
              last  |-> IF put[n].markable THEN n ELSE 0]

Walk(alignment, style) ==
    LET Take(w, s) == IF s.vowel THEN VowelStep(w, s) ELSE ConsonantStep(w, s, style)
    IN  FoldLeft(Take, [slots |-> <<>>, last |-> 0], alignment).slots

\* HarakatMode::Full: no vowel between two consonants is a sukun.
WithSukun(slots) ==
    [i \in DOMAIN slots |->
        IF i < Len(slots) /\ slots[i].markable /\ slots[i].vowel = "none" /\ slots[i + 1].markable
        THEN [slots[i] EXCEPT !.vowel = "sukun"] ELSE slots[i]]

\* What a letter is written as: a bare alif takes no vowel but fathatan.
Written(s) ==
    <<s.letter>>
    \o (IF s.shadda THEN <<"shadda">> ELSE <<>>)
    \o (IF s.vowel # "none" /\ (s.letter = "a" => s.vowel = "fathatan") THEN <<s.vowel>> ELSE <<>>)

LettersIn(alignment) == FlattenSeq([i \in DOMAIN alignment |-> alignment[i].letters])

\* style_sacred: a sacred word loses the derived marks to those of its style.
SacredStyle(letters, form) ==
    FlattenSeq([i \in DOMAIN letters |->
        IF i = Sacred.lam THEN <<letters[i]>> \o form ELSE <<letters[i]>>])

\* Session::vowel_harakat; <<>> is None.
VowelHarakat(alignment, isFull, style, form) ==
    LET slots == Walk(alignment, style)
    IN  IF form # <<>> /\ LettersIn(alignment) = Sacred.letters THEN SacredStyle(Sacred.letters, form)
        ELSE FlattenSeq([i \in DOMAIN slots |->
                 Written((IF isFull THEN WithSukun(slots) ELSE slots)[i])])

\* Session::vocalizations: the derived one first, unless it has no marks, then
\* those of the dictionary, each once.
Vocalizations(alignment, isFull, style, form) ==
    LET own == VowelHarakat(alignment, isFull, style, form)
        Add(out, v) == IF v \in Range(out) THEN out ELSE Append(out, v)
    IN  FoldLeft(Add, IF own \in {<<>>, LettersIn(alignment)} THEN <<>> ELSE <<own>>, Variants)

-----------------------------------------------------------------------------
\* AllahForm::marks.
Forms == {<<>>, <<"shadda">>, <<"shadda", "fatha">>, <<"shadda", "dagger">>}

Init ==
    /\ steps = <<>> /\ full \in BOOLEAN /\ tanween \in Style /\ allah_form \in Forms

\* The decoder aligns one more chunk of the typed word.
Align ==
    /\ Len(steps) < MaxSteps
    /\ steps # <<>> => Last(steps).at # "end"
    /\ \E s \in Steps : (s.at = "start" => steps = <<>>) /\ steps' = Append(steps, s)
    /\ UNCHANGED <<full, tanween, allah_form>>

\* A word that ends in a long u may be a verb, which is written with an alif.
WawAlif ==
    /\ steps # <<>> /\ Last(steps).vowel /\ LettersIn(steps) # <<>> /\ Last(LettersIn(steps)) = "w"
    /\ steps' = Append(steps, [letters |-> <<"a">>, vowel |-> FALSE, gem |-> FALSE, tanween |-> FALSE,
                               article |-> FALSE, mark |-> "none", first |-> "none", at |-> "end"])
    /\ UNCHANGED <<full, tanween, allah_form>>

Next == Align \/ WawAlif

Spec == Init /\ [][Next]_vars

\* The vocalisation of the reading, and what the editor is offered.
Shown == VowelHarakat(steps, full, tanween, allah_form)
Offered == Vocalizations(steps, full, tanween, allah_form)

\* The letters that docs/03 10.6 never marks: alif, alif maqsura, ta marbuta, the
\* letters of long vowels, and the article's two where it is written as alif and lam.
Spared ==
    LET Is(s, k) == \/ s.letters[k] \in {"a", "maqsura", "ta"}
                    \/ s.vowel /\ s.letters[k] \in {"w", "y"}
                    \/ s.article /\ k <= 2 /\ IsPrefix(<<"a", "l">>, s.letters)
        of == FlattenSeq([i \in DOMAIN steps |-> [k \in DOMAIN steps[i].letters |-> Is(steps[i], k)]])
    IN  {i \in DOMAIN of : of[i]}
=============================================================================
