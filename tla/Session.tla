------------------------------ MODULE Session ------------------------------
(***************************************************************************)
(* The typing session (Session, session.rs; LatinBuffer, normalize.rs;     *)
(* display.rs) as the text service drives it: the letters typed, the       *)
(* ranked list built from them, the highlighted item, the commit and what  *)
(* is learned from it, and re-opening the committed word.                  *)
(*                                                                         *)
(* A text is a sequence of letters with two facts beside it: whether one   *)
(* of them carries a hamza and which marks were added.  The readings of    *)
(* the engine and its phrases are parameters.  What the user store answers *)
(* is the word learned last for a key (UserModel!MemoryRecalls).           *)
(***************************************************************************)
EXTENDS Integers, SequencesExt

CONSTANTS
    Typed,            \* the characters typed: InputChar, with how normalize.rs classes them
    Settings,         \* the settings the configuration file may hold
    Dialect,          \* what the dialect posterior can favour
    Readings(_, _),   \* ranked readings of the symbols, given the dialect (search, oov)
    Phrases(_, _),    \* phrases of a key, given the dialect: [text, default]
    SacredLetters,    \* the words display::SACRED lists
    LaughAt,          \* h's that make laughter (3)
    MaxCandidates,    \* EngineParams::max_candidates
    PageSize,         \* State::page_size
    MaxBuffer,        \* EngineParams::max_buffer, in symbols
    MaxRaw,           \* bound on the characters typed
    MaxCommits        \* bound on the commits

Text(letters, hamza, marks) == [letters |-> letters, hamza |-> hamza, marks |-> marks]
Plain(letters) == Text(letters, FALSE, "none")
RAW_LATIN == Plain(<<"RAW_LATIN">>)
NoWord == Plain(<<>>)

Candidate(text, base, kind, lexical) ==
    [text |-> text, base |-> base, kind |-> kind, lexical |-> lexical]

NoList == [items |-> <<>>, key |-> <<>>, raw |-> <<>>]
NoAnchor == [typed |-> <<>>, base |-> NoWord, space |-> FALSE, rank |-> 0]
MinOf(a, b) == IF a < b THEN a ELSE b

\* The elements of s that are in K, in their order.
Only(s, K) == FoldLeft(LAMBDA out, x : IF x \in K THEN Append(out, x) ELSE out, <<>>, s)

VARIABLES
    buf,        \* LatinBuffer::raw
    list,       \* Session::list
    selected,   \* State::selected, from 1
    page,       \* State::page, from 0
    editing,    \* the diacritics editor is open
    settings,   \* Session::settings
    pi,         \* the dialect the posterior favours
    learned,    \* the word learned last for each key
    anchor,     \* State::anchor, NoAnchor for None
    reopened,   \* the word just re-opened, NoWord once anything else happened
    commits

vars == <<buf, list, selected, page, editing, settings, pi, learned, anchor, reopened, commits>>

-----------------------------------------------------------------------------
(* LatinBuffer.                                                            *)

Letters(s) == SelectSeq(s, LAMBDA c : c.class \in {"letter", "emphatic"})
AllUpper(s) == Len(Letters(s)) >= 2 /\ \A i \in DOMAIN Letters(s) : Letters(s)[i].upper

\* An uppercase emphatic letter is its own symbol, unless it comes first or
\* everything is uppercase.
Symbol(s, i) ==
    [lower |-> s[i].lower,
     emph  |-> s[i].class = "emphatic" /\ s[i].upper /\ i # 1 /\ ~AllUpper(s),
     apostrophe |-> s[i].class = "apostrophe"]

\* recompute: a run of three or more equal symbols counts as two.
Syms(s) ==
    LET Add(out, i) ==
            IF Len(out) >= 2 /\ out[Len(out)] = Symbol(s, i) /\ out[Len(out) - 1] = Symbol(s, i)
            THEN out ELSE Append(out, Symbol(s, i))
    IN  FoldLeft(Add, <<>>, [i \in 1..Len(s) |-> i])

Lowered(syms) == [i \in DOMAIN syms |-> syms[i].lower]
KeyOf(syms) == Lowered(SelectSeq(syms, LAMBDA y : ~y.apostrophe))
Key(s) == KeyOf(Syms(s))
Raw(s) == [i \in DOMAIN s |-> s[i].ch]
IsToken(c) == c.class # "other"

DigitsOnly(s) == \A i \in DOMAIN s : s[i].class = "digit"
IsNumber(s) == s # <<>> /\ (DigitsOnly(s) \/ \E i \in DOMAIN s : s[i].literal)

\* LatinBuffer::set takes the raw letters only: no digit is literal any more.
Restored(s) == [i \in DOMAIN s |-> [s[i] EXCEPT !.literal = FALSE]]

-----------------------------------------------------------------------------
(* Display transforms.                                                     *)

StripMarks(t) == [t EXCEPT !.marks = "none"]
ContainsSacred(t) == t.letters \in SacredLetters
StyleSacred(t) == [t EXCEPT !.marks = "sacred"]
RelaxHamza(t) == [t EXCEPT !.hamza = FALSE]
Numerals(s, eastern) ==
    Text(Raw(s), FALSE, IF eastern /\ \E i \in DOMAIN s : s[i].class = "digit" THEN "eastern" ELSE "none")

-----------------------------------------------------------------------------
(* Session::rebuild, step by step.                                         *)

Special(text, kind) == <<Candidate(text, StripMarks(text), kind, FALSE)>>

Numbers(s, set) ==
    IF IsNumber(s) THEN <<Candidate(Numerals(s, set.eastern), Numerals(s, set.eastern), "Number", FALSE)>>
    ELSE <<>>

ArabiziAllowed(s) == ~(IsNumber(s) /\ (Len(s) >= 2 \/ ~DigitsOnly(s)))

Laughter(s) ==
    LET h == Len(SelectSeq(s, LAMBDA c : c.lower = "h"))
    IN  IF h >= LaughAt /\ s[1].lower = "h" /\ \A i \in DOMAIN s : s[i].lower \in {"h", "a", "e"}
        THEN Special(Plain([i \in 1..(IF h < 8 THEN h ELSE 8) |-> "heh"]), "Laughter") ELSE <<>>

Articles == {<<"e", "l">>, <<"a", "l">>, <<"i", "l">>, <<"l">>}
Conjunctions == {<<"w">>, <<"w", "a">>, <<"w", "e">>}

Joiners(s, set) ==
    IF ~set.joining THEN <<>>
    ELSE IF Key(s) \in Articles THEN Special(Plain(<<"al">>), "Joiner")
    ELSE IF Key(s) \in Conjunctions THEN Special(Plain(<<"waw">>), "Joiner")
    ELSE <<>>

\* Phrases the user need not ask for come first; the others are one below the
\* best reading, or right below what comes before the readings, and keep their
\* marks when they are learned.
WithPhrases(items, scored, phrases) ==
    LET Of(d) == Only(phrases, {p \in ToSet(phrases) : p.default = d})
        Asked(ps) == [i \in DOMAIN ps |-> Candidate(ps[i].text, ps[i].text, "Phrase", FALSE)]
        Given(ps) == [i \in DOMAIN ps |-> Candidate(ps[i].text, StripMarks(ps[i].text), "Phrase", FALSE)]
        first == items \o Given(Of(TRUE))
        at == IF first = <<>> /\ scored # <<>> THEN 1 ELSE 0
    IN  first \o SubSeq(scored, 1, at) \o Asked(Of(FALSE)) \o SubSeq(scored, at + 1, Len(scored))

Suggested(s, set, d) ==
    IF ~ArabiziAllowed(s) THEN Numbers(s, set)
    ELSE WithPhrases(Numbers(s, set) \o Laughter(s) \o Joiners(s, set),
                     Readings(Syms(s), d), Phrases(Key(s), d))

\* A sacred word is offered styled, and plain right after.
Styled(items, set) ==
    LET Forms(c) == IF ContainsSacred(c.base) /\ set.styled
                    THEN <<[c EXCEPT !.text = StyleSacred(@)], [c EXCEPT !.text = c.base]>>
                    ELSE <<c>>
    IN  FlattenSeq([i \in DOMAIN items |-> Forms(items[i])])

Hamza(items, set) ==
    IF ~set.relaxed THEN items
    ELSE [i \in DOMAIN items |->
            [items[i] EXCEPT !.text = RelaxHamza(@), !.base = RelaxHamza(@)]]

Dedup(items) ==
    LET new == {i \in DOMAIN items : \A j \in 1..(i - 1) : items[j].text # items[i].text}
        at == Only([i \in DOMAIN items |-> i], new)
    IN  [n \in DOMAIN at |-> items[at[n]]]

\* The word chosen last for the key comes first, as a word of the user's own
\* when the engine does not offer it; a number stays first.
Sticky(items, w) ==
    LET at == SelectInSeq(items, LAMBDA c : c.base = w)
    IN  IF at = 0 THEN <<Candidate(w, w, "Custom", FALSE)>> \o items
        ELSE <<items[at]>> \o RemoveAt(items, at)

Pinned(items) == items # <<>> /\ items[1].kind = "Number"
Recalled(s, items, set) ==
    set.sticky /\ ~Pinned(items) /\ Key(s) \in DOMAIN learned /\ learned[Key(s)] # NoWord

Shorten(items) == SubSeq(items, 1, MinOf(MaxCandidates - 1, Len(items)))

StyledLate(s, set, d) == Styled(Hamza(Dedup(Suggested(s, set, d)), set), set)   \* mutant: duplicates are removed first
StyledList(s, set, d) == Dedup(Hamza(Styled(Suggested(s, set, d), set), set))

\* What was typed is always offered, last unless it was chosen last time.
RebuiltStrictly(s, set, d) ==   \* mutant: the learned word is looked up before hamzas are relaxed
    LET items == Dedup(Styled(Suggested(s, set, d), set))
        recalled == Recalled(s, items, set)
        raw == <<Candidate(Plain(Raw(s)), Plain(Raw(s)), "RawLatin", FALSE)>>
        own == IF recalled /\ learned[Key(s)] # RAW_LATIN THEN Sticky(items, learned[Key(s)]) ELSE items
    IN  [items |-> IF recalled /\ learned[Key(s)] = RAW_LATIN THEN raw \o Shorten(Dedup(Hamza(own, set)))
                   ELSE Shorten(Dedup(Hamza(own, set))) \o raw,
         key |-> Key(s), raw |-> Raw(s)]

Rebuilt(s, set, d) ==
    LET items == StyledList(s, set, d)
        raw == <<Candidate(Plain(Raw(s)), Plain(Raw(s)), "RawLatin", FALSE)>>
    IN  [items |-> IF ~Recalled(s, items, set) THEN Shorten(items) \o raw
                   ELSE IF learned[Key(s)] = RAW_LATIN THEN raw \o Shorten(items)
                   ELSE Shorten(Sticky(items, learned[Key(s)])) \o raw,
         key |-> Key(s), raw |-> Raw(s)]

-----------------------------------------------------------------------------
(* The text service around it.                                             *)

Composing == buf # <<>>
Highlight(i) == selected' = i /\ page' = (i - 1) \div PageSize

\* Session::new and set_settings: DEFAULT_PRIOR or the fixed profile.
Prior(set) == IF set.fixed = "auto" THEN CHOOSE d \in Dialect : TRUE ELSE set.fixed

Reset == buf' = <<>> /\ list' = NoList /\ editing' = FALSE /\ selected' = 1 /\ page' = 0

\* push_char: the settings are read again at the start of each word.
Type(c) ==
    /\ ~editing /\ IsToken(c) /\ Len(buf) < MaxRaw
    /\ IF Composing THEN UNCHANGED <<settings, pi, anchor>>
       ELSE /\ anchor' = NoAnchor /\ settings' \in Settings
            /\ pi' = IF settings'.fixed = settings.fixed THEN pi ELSE Prior(settings')
    /\ IF Len(Syms(buf)) < MaxBuffer
       THEN buf' = Append(buf, c) /\ list' = Rebuilt(buf', settings', pi')
       ELSE UNCHANGED <<buf, list>>
    /\ Highlight(1) /\ reopened' = NoWord
    /\ UNCHANGED <<editing, learned, commits>>

Backspace ==
    /\ Composing /\ ~editing
    /\ IF Len(buf) = 1 THEN Reset
       ELSE /\ buf' = Front(buf) /\ list' = Rebuilt(buf', settings, pi)
            /\ Highlight(1) /\ UNCHANGED editing
    /\ reopened' = NoWord
    /\ UNCHANGED <<settings, pi, learned, anchor, commits>>

\* NextCandidate, PrevCandidate, NextPage, PrevPage.
Navigate ==
    /\ Composing /\ ~editing
    /\ LET total == Len(list.items)
       IN  \/ Highlight((selected % total) + 1)
           \/ Highlight(((selected + total - 2) % total) + 1)
           \/ (page + 1) * PageSize < total /\ Highlight((page + 1) * PageSize + 1)
           \/ page > 0 /\ Highlight((page - 1) * PageSize + 1)
    /\ reopened' = NoWord
    /\ UNCHANGED <<buf, list, editing, settings, pi, learned, anchor, commits>>

OpenTashkeel ==
    /\ Composing /\ ~editing /\ list.items[selected].kind # "RawLatin"
    /\ editing' = TRUE /\ reopened' = NoWord
    /\ UNCHANGED <<buf, list, selected, page, settings, pi, learned, anchor, commits>>

CloseTashkeel ==
    /\ editing /\ editing' = FALSE
    /\ UNCHANGED <<buf, list, selected, page, settings, pi, learned, anchor, reopened, commits>>

\* What Session::commit returns as base, and whether it is worth learning; the
\* editor's word is learned under the word it was opened on, whatever its kind.
Base(c) == IF c.kind = "RawLatin" THEN RAW_LATIN ELSE c.base
Learnable(c, edited) == edited \/ c.kind \notin {"Number", "Laughter", "Joiner"}

\* commit of item i: with a trailing space or not, followed by punctuation or
\* not, in a field and a configuration that allow learning or not.
CommitItem(i, edited, space, punct, learns) ==
    LET c == list.items[i]
        spaced == space /\ (edited \/ c.kind # "Joiner")
    IN  /\ commits < MaxCommits /\ commits' = commits + 1
        /\ learned' = IF learns /\ Learnable(c, edited) /\ list.key # <<>>
                      THEN [k \in DOMAIN learned \union {list.key} |-> IF k = list.key THEN Base(c) ELSE learned[k]]
                      ELSE learned
        /\ \/ UNCHANGED pi
           \/ c.lexical /\ ~edited /\ settings.fixed = "auto" /\ pi' \in Dialect
        /\ anchor' = IF punct THEN NoAnchor
                     ELSE [typed |-> buf, base |-> Base(c), space |-> spaced, rank |-> i]
        /\ Reset /\ reopened' = NoWord
        /\ UNCHANGED settings

\* CommitSpace, CommitNoSpace, CommitWithHarakat, CommitThenPunctuation,
\* CommitAndReinject, a click on a row, and the editor's own.
Commit ==
    /\ Composing
    /\ \E learns \in BOOLEAN :
          \/ \E space, punct \in BOOLEAN :
                ~(space /\ punct) /\ CommitItem(selected, editing, space, punct, learns)
          \/ ~editing /\ \E i \in DOMAIN list.items :
                /\ (i - 1) \div PageSize = page
                /\ CommitItem(i, FALSE, TRUE, FALSE, learns)

\* CommitRaw and CommitRawSpace: the editor is closed first.
CommitRaw ==
    /\ Composing
    /\ \E learns, space \in BOOLEAN, i \in DOMAIN list.items :
          list.items[i].kind = "RawLatin" /\ CommitItem(i, FALSE, space, FALSE, learns)

\* finalize_composition, and a composition the application ended.
Finalize ==
    /\ Composing /\ Reset /\ reopened' = NoWord
    /\ UNCHANGED <<settings, pi, learned, anchor, commits>>

\* Any other key, a click elsewhere.
DropAnchor ==
    /\ ~Composing /\ anchor # NoAnchor /\ anchor' = NoAnchor
    /\ UNCHANGED <<buf, list, selected, page, editing, settings, pi, learned, reopened, commits>>

\* reedit: the first Backspace deletes the trailing space, the second opens the
\* word again, with the item of the same rank highlighted.
Reedit ==
    /\ ~Composing /\ anchor # NoAnchor
    /\ IF anchor.space
       THEN /\ anchor' = [anchor EXCEPT !.space = FALSE]
            /\ UNCHANGED <<buf, list, selected, page, reopened>>
       ELSE /\ anchor' = NoAnchor
            /\ buf' = Restored(anchor.typed) /\ list' = Rebuilt(buf', settings, pi)
            /\ Highlight(MinOf(anchor.rank, Len(list'.items)))
            /\ reopened' = anchor.base
    /\ UNCHANGED <<editing, settings, pi, learned, commits>>

Init ==
    /\ buf = <<>> /\ list = NoList /\ selected = 1 /\ page = 0 /\ editing = FALSE
    /\ settings = (CHOOSE s \in Settings : TRUE) /\ pi = Prior(settings)
    /\ learned = <<>> /\ anchor = NoAnchor /\ reopened = NoWord /\ commits = 0

Next ==
    \/ \E c \in Typed : Type(c)
    \/ Backspace \/ Navigate \/ OpenTashkeel \/ CloseTashkeel
    \/ Commit \/ CommitRaw \/ Finalize \/ DropAnchor \/ Reedit

Spec == Init /\ [][Next]_vars

-----------------------------------------------------------------------------
(* Properties.                                                             *)

Suggestions == {i \in DOMAIN list.items : list.items[i].kind # "RawLatin"}

\* The word chosen last for what is typed heads the list unless a number does,
\* whatever the settings were when it was learned and however the list was
\* restyled, cut and reordered since (sticky last choice, Session::rebuild).
ChosenComesFirst ==
    Composing /\ settings.sticky /\ list.key \in DOMAIN learned /\ learned[list.key] # NoWord
        => \/ Base(list.items[1]) = learned[list.key]
           \/ list.items[1].kind = "Number"

\* No suggestion looks like another one, after styling, hamza relaxing and the
\* learned word put in front; and what was typed can always be chosen, once.
NoTwins ==
    Composing =>
        /\ \A i, j \in Suggestions : list.items[i].text = list.items[j].text => i = j
        /\ \E i \in DOMAIN list.items :
               /\ Suggestions = DOMAIN list.items \ {i}
               /\ list.items[i] = Candidate(Plain(Raw(buf)), Plain(Raw(buf)), "RawLatin", FALSE)

\* A word opened again shows the word that was committed ("with the previously
\* committed candidate highlighted", docs/02-tsf-integration.md).
ReopensTheChoice ==
    reopened # NoWord => Base(list.items[selected]) = reopened

=============================================================================
