------------------------- MODULE TextService_proofs -------------------------
(***************************************************************************)
(* Theorems about TextService.  Whatever the host does: commits land in    *)
(* the order they were made, nothing is being typed in Latin mode, and no  *)
(* committed word is lost.  Where TSF grants every session at once: the    *)
(* popup and what the fields show go with the word, and no word is lost or *)
(* written twice.                                                          *)
(***************************************************************************)
EXTENDS TextService, SequenceTheorems, FiniteSetTheorems, TLAPS

-----------------------------------------------------------------------------
(* Edit sessions.                                                          *)

Field == {"session", "editor", "composition", "compCtx", "popup", "doc", "caret",
          "landed", "erased", "finalized"}
IsWorld(w) == w = [f \in Field |-> w[f]]

\* What an edit session may do to the parts of the state the theorems are about:
\* v is the world after it, w the world before.
Harmless(w, v) == IsWorld(v) /\ v.landed = w.landed /\ (Composing(v) => Composing(w))

\* The state that sessions work on has the fields of a world.
LEMMA WorldIsWorld == IsWorld(World)
BY DEF IsWorld, World, Field

\* Two harmless edits in a row are harmless.
LEMMA HarmlessTransitive ==
    ASSUME NEW u, NEW v, NEW w, Harmless(u, v), Harmless(v, w)
    PROVE  Harmless(u, w)
BY DEF Harmless

\* Inserting at the caret is harmless.
LEMMA InsertHarmless ==
    ASSUME NEW w, IsWorld(w), NEW c, NEW pieces
    PROVE  Harmless(w, InsertAtCaret(w, c, pieces))
BY DEF InsertAtCaret, IsWorld, Field, Harmless, Composing

\* Setting the text of the composition is harmless.
LEMMA SetTextHarmless ==
    ASSUME NEW w, IsWorld(w), NEW c, NEW t, NEW n
    PROVE  Harmless(w, SetText(w, c, t, n))
BY DEF SetText, IsWorld, Field, Harmless, Composing

\* Deleting a piece of text is harmless.
LEMMA DeleteHarmless ==
    ASSUME NEW w, IsWorld(w), NEW c
    PROVE  Harmless(w, Delete(w, c))
BY DEF Delete, IsWorld, Field, Harmless, Composing

\* DocOp::Preview shows the word the engine has and makes none.
LEMMA PreviewHarmless ==
    ASSUME NEW w, IsWorld(w), NEW c
    PROVE  Harmless(w, Preview(w, c))
<1>1. Harmless(w, SetText(w, c, Shown(w), w.composition))
  BY SetTextHarmless
<1>2. Harmless(w, StartComposition(w, c))
  <2> DEFINE v == InsertAtCaret(w, c, <<[text |-> Shown(w), comp |-> Fresh(w)]>>)
  <2>1. Harmless(w, v)
    BY InsertHarmless
  <2> HIDE DEF v
  <2>2. Harmless(w, [v EXCEPT !.composition = Fresh(w), !.compCtx = c])
    BY <2>1 DEF IsWorld, Field, Harmless, Composing
  <2> QED BY <2>2 DEF StartComposition, v
<1>3. \A v : Harmless(w, v) => Harmless(w, [v EXCEPT !.popup = TRUE])
  BY DEF IsWorld, Field, Harmless, Composing
<1>4. Harmless(w, w)
  BY DEF Harmless
<1> QED BY <1>1, <1>2, <1>3, <1>4 DEF Preview

\* A Backspace in the document is harmless.
LEMMA DeleteCharHarmless ==
    ASSUME NEW w, IsWorld(w), NEW c
    PROVE  Harmless(w, DeleteChar(w, c))
<1> DEFINE noted == [w EXCEPT !.erased = @ \union {w.doc[c][w.caret[c]].text.word}]
<1>1. Harmless(w, noted)
  BY DEF IsWorld, Field, Harmless, Composing
<1>2. IsWorld(noted)
  BY <1>1 DEF Harmless
<1> HIDE DEF noted
<1>3. Harmless(w, Delete(noted, c))
  BY <1>1, <1>2, DeleteHarmless, HarmlessTransitive
<1>4. Harmless(noted, [noted EXCEPT !.doc[c][w.caret[c]].text.len = @ - 1])
  BY <1>2 DEF IsWorld, Field, Harmless, Composing
<1>5. Harmless(w, w)
  BY DEF Harmless
<1> QED BY <1>1, <1>3, <1>4, <1>5, HarmlessTransitive DEF DeleteChar, noted

\* DocOp::ReEdit may drop the word the key restored, it makes none.
LEMMA ReEditHarmless ==
    ASSUME NEW w, IsWorld(w), NEW c, NEW op
    PROVE  Harmless(w, ReEdit(w, c, op))
<1>1. Harmless(w, Preview(Delete(w, c), c))
  BY DeleteHarmless, PreviewHarmless, HarmlessTransitive DEF Harmless
<1>2. Harmless(w, [w EXCEPT !.session = NoWord, !.popup = FALSE])
  BY DEF IsWorld, Field, Harmless, Composing
<1>3. Harmless(w, DeleteChar([w EXCEPT !.session = NoWord, !.popup = FALSE], c))
  BY <1>2, DeleteCharHarmless, HarmlessTransitive DEF Harmless
<1> QED BY <1>1, <1>3 DEF ReEdit

\* DocOp::Finalize only ends the composition.
LEMMA FinalizeHarmless ==
    ASSUME NEW w, IsWorld(w), NEW c
    PROVE  Harmless(w, Finalize(w, c))
BY DEF Finalize, IsWorld, Field, Harmless, Composing

\* DocOp::Commit lands its own commit and nothing else.
LEMMA CommitLanded ==
    ASSUME NEW w, IsWorld(w), NEW c, NEW op
    PROVE  /\ IsWorld(Commit(w, c, op))
           /\ Composing(Commit(w, c, op)) => Composing(w)
           /\ Commit(w, c, op).landed =
                  IF op.nth = 0 THEN w.landed ELSE Append(w.landed, op.nth)
<1> DEFINE done == [w EXCEPT !.composition = 0, !.compCtx = NoContext,
                             !.landed = IF op.nth = 0 THEN @ ELSE Append(@, op.nth)]
           set == SetText(w, c, op.text, 0)
           shown == [done EXCEPT !.doc = set.doc, !.caret = set.caret]
           word == IF op.text = NoWord THEN <<>> ELSE <<Plain(op.text)>>
<1>1. /\ IsWorld(done)
      /\ Composing(done) => Composing(w)
      /\ done.landed = IF op.nth = 0 THEN w.landed ELSE Append(w.landed, op.nth)
  BY DEF IsWorld, Field, Composing
<1> HIDE DEF done, set
<1>2. Harmless(done, shown)
  BY <1>1 DEF IsWorld, Field, Harmless, Composing
<1> HIDE DEF shown
<1>3. IsWorld(shown)
  BY <1>2 DEF Harmless
<1>4. Harmless(done, InsertAtCaret(done, c, word \o op.suffix))
  BY <1>1, InsertHarmless
<1>5. Harmless(done, Delete(shown, c))
  BY <1>2, <1>3, DeleteHarmless, HarmlessTransitive
<1>6. Harmless(done, InsertAtCaret(shown, c, op.suffix))
  BY <1>2, <1>3, InsertHarmless, HarmlessTransitive
<1>7. Harmless(done, Commit(w, c, op))
  BY <1>4, <1>5, <1>6 DEF Commit, done, shown, set, word
<1> QED BY <1>1, <1>7 DEF Harmless

Op == {"preview", "commit", "finalize", "insert", "reedit"}

\* An edit session lands its own commit if it has one, and never starts a word.
LEMMA ApplyLanded ==
    ASSUME NEW w, IsWorld(w), NEW r, r.op \in Op
    PROVE  /\ IsWorld(Apply(w, r))
           /\ Composing(Apply(w, r)) => Composing(w)
           /\ \/ Apply(w, r).landed = w.landed
              \/ r.nth # 0 /\ Apply(w, r).landed = Append(w.landed, r.nth)
<1>1. CASE r.op = "preview"
  <2>1. Apply(w, r) = Preview(w, r.ctx)
    BY <1>1 DEF Apply
  <2> QED BY <2>1, PreviewHarmless DEF Harmless
<1>2. CASE r.op = "commit"
  <2>1. Apply(w, r) = Commit(w, r.ctx, r)
    BY <1>2 DEF Apply
  <2>2. /\ IsWorld(Commit(w, r.ctx, r))
        /\ Composing(Commit(w, r.ctx, r)) => Composing(w)
        /\ \/ Commit(w, r.ctx, r).landed = w.landed
           \/ r.nth # 0 /\ Commit(w, r.ctx, r).landed = Append(w.landed, r.nth)
    BY CommitLanded
  <2> QED BY <2>1, <2>2
<1>3. CASE r.op = "finalize"
  <2>1. Apply(w, r) = Finalize(w, r.ctx)
    BY <1>3 DEF Apply
  <2> QED BY <2>1, FinalizeHarmless DEF Harmless
<1>4. CASE r.op = "insert"
  <2>1. Apply(w, r) = InsertAtCaret(w, r.ctx, <<Plain(r.text)>>)
    BY <1>4 DEF Apply
  <2> QED BY <2>1, InsertHarmless DEF Harmless
<1>5. CASE r.op = "reedit"
  <2>1. Apply(w, r) = ReEdit(w, r.ctx, r)
    BY <1>5 DEF Apply
  <2> QED BY <2>1, ReEditHarmless DEF Harmless
<1> QED BY <1>1, <1>2, <1>3, <1>4, <1>5 DEF Op

-----------------------------------------------------------------------------
(* The order of commits: l has landed, q is queued, n have been made.      *)

IsRequests(q) == \E S : q \in Seq(S) /\ \A r \in S : r.op \in Op /\ r.nth \in Nat

Ordered(l, q, n) ==
    /\ l \in Seq(Nat)
    /\ \A i \in 1..Len(l) : l[i] <= n /\ \A j \in 1..i-1 : l[j] < l[i]
    /\ \A i \in 1..Len(q) : q[i].nth # 0 =>
           /\ q[i].nth <= n
           /\ \A j \in 1..i-1 : q[j].nth # 0 => q[j].nth < q[i].nth
           /\ \A j \in 1..Len(l) : l[j] < q[i].nth

\* A sequence of elements that are requests is a sequence of requests.
LEMMA RequestsFrom ==
    ASSUME NEW S, NEW q, q \in Seq(S), \A r \in S : r.op \in Op /\ r.nth \in Nat
    PROVE  IsRequests(q)
BY DEF IsRequests

\* Requests that are appended, or removed, leave requests.
LEMMA RequestsConcat ==
    ASSUME NEW q, NEW rs, IsRequests(q), IsRequests(rs)
    PROVE  /\ IsRequests(q \o rs)
           /\ Len(q \o rs) = Len(q) + Len(rs)
           /\ Len(q) \in Nat /\ Len(rs) \in Nat
           /\ \A i \in 1..Len(q) + Len(rs) :
                  (q \o rs)[i] = IF i <= Len(q) THEN q[i] ELSE rs[i - Len(q)]
<1>1. PICK S : q \in Seq(S) /\ \A r \in S : r.op \in Op /\ r.nth \in Nat
  BY DEF IsRequests
<1>2. PICK T : rs \in Seq(T) /\ \A r \in T : r.op \in Op /\ r.nth \in Nat
  BY DEF IsRequests
<1>3. q \in Seq(S \union T) /\ rs \in Seq(S \union T)
  BY <1>1, <1>2, SeqMonotonic
<1>4. \A r \in S \union T : r.op \in Op /\ r.nth \in Nat
  BY <1>1, <1>2
<1> QED BY <1>3, <1>4, ConcatProperties, LenProperties DEF IsRequests

\* A part of a sequence of requests is one.
LEMMA RequestsPart ==
    ASSUME NEW q, IsRequests(q), NEW a \in Nat \ {0}, NEW b \in Nat, b <= Len(q)
    PROVE  /\ IsRequests(SubSeq(q, a, b))
           /\ Len(SubSeq(q, a, b)) = IF a <= b THEN b - a + 1 ELSE 0
           /\ \A i \in 1..Len(SubSeq(q, a, b)) : SubSeq(q, a, b)[i] = q[a + i - 1]
<1>1. PICK S : q \in Seq(S) /\ \A r \in S : r.op \in Op /\ r.nth \in Nat
  BY DEF IsRequests
<1>2. Len(q) \in Nat
  BY <1>1
<1>3. \A i \in a..b : q[i] \in S
  BY <1>1, <1>2, ElementOfSeq
<1>4. /\ SubSeq(q, a, b) \in Seq(S)
      /\ Len(SubSeq(q, a, b)) = IF a <= b THEN b - a + 1 ELSE 0
      /\ \A i \in 1..b-a+1 : SubSeq(q, a, b)[i] = q[a + i - 1]
  BY <1>3, SubSeqProperties
<1>5. IsRequests(SubSeq(q, a, b))
  BY <1>1, <1>4, Zenon DEF IsRequests
<1> QED BY <1>4, <1>5

\* The oldest request, and the ones after it.
LEMMA RequestsHead ==
    ASSUME NEW q, IsRequests(q), q # <<>>
    PROVE  /\ IsRequests(Tail(q))
           /\ Len(q) \in Nat \ {0} /\ Len(Tail(q)) = Len(q) - 1
           /\ \A i \in 1..Len(q) - 1 : Tail(q)[i] = q[i + 1]
           /\ Head(q) = q[1] /\ q[1].op \in Op /\ q[1].nth \in Nat
<1>1. PICK S : q \in Seq(S) /\ \A r \in S : r.op \in Op /\ r.nth \in Nat
  BY DEF IsRequests
<1>2. Tail(q) \in Seq(S) /\ Head(q) = q[1] /\ q[1] \in S
  BY <1>1
<1> QED BY <1>1, <1>2, EmptySeq, HeadTailProperties DEF IsRequests

\* A handler may request nothing, ...
LEMMA RequestsNone == IsRequests(<<>>) /\ Len(<<>>) = 0
<1>1. <<>> \in Seq({})
  BY EmptySeq
<1> QED BY <1>1, EmptySeq DEF IsRequests

\* ... one session, ...
LEMMA RequestsOne ==
    ASSUME NEW r, r.op \in Op, r.nth \in Nat
    PROVE  IsRequests(<<r>>) /\ Len(<<r>>) = 1 /\ <<r>>[1] = r
<1> DEFINE rs == <<r>>
<1>1. rs \in Seq({r}) /\ Len(rs) = 1 /\ rs[1] = r
  OBVIOUS
<1> HIDE DEF rs
<1>2. IsRequests(rs)
  BY <1>1, RequestsFrom
<1> QED BY <1>1, <1>2 DEF rs

\* ... or two.
LEMMA RequestsTwo ==
    ASSUME NEW r, r.op \in Op, r.nth \in Nat, NEW s, s.op \in Op, s.nth \in Nat
    PROVE  /\ IsRequests(<<r, s>>) /\ Len(<<r, s>>) = 2
           /\ <<r, s>>[1] = r /\ <<r, s>>[2] = s
<1> DEFINE rs == <<r, s>>
<1>1. rs \in Seq({r, s}) /\ Len(rs) = 2 /\ rs[1] = r /\ rs[2] = s
  OBVIOUS
<1> HIDE DEF rs
<1>2. IsRequests(rs)
  BY <1>1, RequestsFrom
<1> QED BY <1>1, <1>2 DEF rs

\* New requests keep the order when at most one of them is a commit, the next one.
LEMMA OrderedConcat ==
    ASSUME NEW l, NEW q, NEW rs, NEW n \in Nat, NEW m \in Nat, n <= m,
           IsRequests(q), IsRequests(rs), Ordered(l, q, n),
           \A i \in 1..Len(rs) : rs[i].nth # 0 => i = 1 /\ n < rs[i].nth /\ rs[i].nth <= m
    PROVE  Ordered(l, q \o rs, m)
<1> DEFINE qr == q \o rs
<1>1. /\ Len(qr) = Len(q) + Len(rs) /\ Len(q) \in Nat /\ Len(rs) \in Nat
      /\ \A i \in 1..Len(q) + Len(rs) : qr[i] = IF i <= Len(q) THEN q[i] ELSE rs[i - Len(q)]
  BY RequestsConcat
<1>2. \A i \in 1..Len(q) : q[i].nth \in Nat
  BY ElementOfSeq DEF IsRequests
<1>3. l \in Seq(Nat) /\ Len(l) \in Nat /\ \A i \in 1..Len(l) : l[i] \in Nat
  BY DEF Ordered
<1>r. \A i \in 1..Len(rs) : rs[i].nth \in Nat
  BY ElementOfSeq DEF IsRequests
<1>4. ASSUME NEW i \in 1..Len(l)
      PROVE  l[i] <= m /\ \A j \in 1..i-1 : l[j] < l[i]
  BY <1>3 DEF Ordered
<1>5. ASSUME NEW i \in 1..Len(qr), qr[i].nth # 0
      PROVE  /\ qr[i].nth <= m
             /\ \A j \in 1..i-1 : qr[j].nth # 0 => qr[j].nth < qr[i].nth
             /\ \A j \in 1..Len(l) : l[j] < qr[i].nth
  <2> HIDE DEF qr
  <2>1. CASE i <= Len(q)
    <3>1. i \in 1..Len(q) /\ qr[i] = q[i] /\ \A j \in 1..i-1 : qr[j] = q[j] /\ j \in 1..Len(q)
      BY <1>1, <2>1
    <3>2. /\ q[i].nth \in Nat /\ q[i].nth <= n
          /\ \A j \in 1..i-1 : q[j].nth # 0 => q[j].nth < q[i].nth
          /\ \A j \in 1..Len(l) : l[j] < q[i].nth
      BY <3>1, <1>2, <1>5 DEF Ordered
    <3>3. q[i].nth <= m
      BY <3>2
    <3> QED BY <3>1, <3>2, <3>3
  <2>2. CASE i > Len(q)
    <3> DEFINE k == i - Len(q)
    <3>1. k \in 1..Len(rs) /\ qr[i] = rs[k]
      BY <1>1, <2>2
    <3>2. k = 1 /\ n < qr[i].nth /\ qr[i].nth <= m
      BY <3>1, <1>5
    <3>3. \A j \in 1..i-1 : qr[j] = q[j] /\ j \in 1..Len(q)
      BY <3>2, <1>1
    <3>4. qr[i].nth \in Nat
      BY <3>1, <1>r
    <3>5. ASSUME NEW j \in 1..i-1, qr[j].nth # 0 PROVE qr[j].nth < qr[i].nth
      <4>1. qr[j] = q[j] /\ j \in 1..Len(q)
        BY <3>3
      <4>2. q[j].nth \in Nat /\ q[j].nth <= n
        BY <4>1, <1>2, <3>5 DEF Ordered
      <4> QED BY <3>2, <3>4, <4>1, <4>2
    <3>6. \A j \in 1..Len(l) : l[j] <= n
      BY DEF Ordered
    <3>7. \A j \in 1..Len(l) : l[j] < qr[i].nth
      BY <3>2, <3>4, <3>6, <1>3
    <3> QED BY <3>2, <3>5, <3>7
  <2> QED BY <2>1, <2>2, <1>1
<1> QED BY <1>3, <1>4, <1>5 DEF Ordered

\* The order survives when requests are removed.
LEMMA OrderedSubsequence ==
    ASSUME NEW l, NEW q, NEW p, NEW n \in Nat, Ordered(l, q, n),
           NEW at \in [1..Len(p) -> 1..Len(q)],
           \A i \in 1..Len(p) : p[i] = q[at[i]],
           \A i \in 1..Len(p) : \A j \in 1..i-1 : at[j] \in 1..at[i]-1 /\ j \in 1..Len(p)
    PROVE  Ordered(l, p, n)
<1>1. ASSUME NEW i \in 1..Len(p), p[i].nth # 0
      PROVE  /\ p[i].nth <= n
             /\ \A j \in 1..i-1 : p[j].nth # 0 => p[j].nth < p[i].nth
             /\ \A j \in 1..Len(l) : l[j] < p[i].nth
  <2>1. at[i] \in 1..Len(q) /\ q[at[i]].nth # 0 /\ p[i] = q[at[i]]
    BY <1>1
  <2>2. \A j \in 1..i-1 : p[j] = q[at[j]] /\ at[j] \in 1..at[i]-1
    OBVIOUS
  <2> QED BY <2>1, <2>2 DEF Ordered
<1> QED BY <1>1 DEF Ordered

\* The order survives when the oldest session runs.
LEMMA OrderedHead ==
    ASSUME NEW l, NEW q, NEW n \in Nat, IsRequests(q), q # <<>>, Ordered(l, q, n),
           NEW k, k = l \/ (Head(q).nth # 0 /\ k = Append(l, Head(q).nth))
    PROVE  Ordered(k, Tail(q), n)
<1>1. /\ Len(q) \in Nat \ {0} /\ Len(Tail(q)) = Len(q) - 1
      /\ \A i \in 1..Len(q) - 1 : Tail(q)[i] = q[i + 1]
      /\ Head(q) = q[1] /\ q[1].nth \in Nat
  BY RequestsHead
<1>2. l \in Seq(Nat) /\ Len(l) \in Nat /\ \A i \in 1..Len(l) : l[i] \in Nat
  BY DEF Ordered
<1>3. Ordered(l, Tail(q), n)
  <2> DEFINE at == [i \in 1..Len(Tail(q)) |-> i + 1]
  <2>1. /\ at \in [1..Len(Tail(q)) -> 1..Len(q)]
        /\ \A i \in 1..Len(Tail(q)) : Tail(q)[i] = q[at[i]]
        /\ \A i \in 1..Len(Tail(q)) : \A j \in 1..i-1 :
               at[j] \in 1..at[i]-1 /\ j \in 1..Len(Tail(q))
    BY <1>1
  <2> HIDE DEF at
  <2> QED BY <2>1, OrderedSubsequence
<1>4. CASE q[1].nth # 0 /\ k = Append(l, q[1].nth)
  <2>1. /\ k \in Seq(Nat) /\ Len(k) = Len(l) + 1 /\ k[Len(k)] = q[1].nth
        /\ \A i \in 1..Len(l) : k[i] = l[i]
    BY <1>1, <1>2, <1>4
  <2>2. q[1].nth <= n /\ \A j \in 1..Len(l) : l[j] < q[1].nth
    BY <1>1, <1>4 DEF Ordered
  <2>3. ASSUME NEW i \in 1..Len(k)
        PROVE  k[i] <= n /\ \A j \in 1..i-1 : k[j] < k[i]
    <3>1. CASE i = Len(k)
      BY <3>1, <2>1, <2>2, <1>2
    <3>2. CASE i # Len(k)
      <4>1. i \in 1..Len(l) /\ k[i] = l[i] /\ \A j \in 1..i-1 : k[j] = l[j]
        BY <3>2, <2>1, <1>2
      <4> QED BY <4>1 DEF Ordered
    <3> QED BY <3>1, <3>2
  <2>4. ASSUME NEW i \in 1..Len(Tail(q)), Tail(q)[i].nth # 0
        PROVE  \A j \in 1..Len(k) : k[j] < Tail(q)[i].nth
    <3>1. q[1].nth < Tail(q)[i].nth /\ \A j \in 1..Len(l) : l[j] < Tail(q)[i].nth
      <4>1. i + 1 \in 1..Len(q) /\ q[i + 1].nth # 0 /\ 1 \in 1..(i + 1) - 1
            /\ Tail(q)[i] = q[i + 1]
        BY <2>4, <1>1
      <4> QED BY <4>1, <1>4 DEF Ordered
    <3>2. ASSUME NEW j \in 1..Len(k) PROVE j \in 1..Len(l) \/ j = Len(k)
      BY <2>1, <1>2
    <3> QED BY <3>1, <3>2, <2>1
  <2> QED BY <2>1, <2>3, <2>4, <1>3 DEF Ordered
<1> QED BY <1>1, <1>3, <1>4

\* After the first k sessions of rs the commits among the others are still to come.
LEMMA AfterLanded ==
    ASSUME NEW w, IsWorld(w), NEW rs, IsRequests(rs), Len(rs) <= 2,
           NEW n \in Nat, Ordered(w.landed, rs, n), NEW k \in 0..Len(rs)
    PROVE  /\ IsWorld(After(w, rs, k))
           /\ Composing(After(w, rs, k)) => Composing(w)
           /\ Ordered(After(w, rs, k).landed, SubSeq(rs, k + 1, Len(rs)), n)
<1> DEFINE Rest(j) == SubSeq(rs, j + 1, Len(rs))
<1>1. PICK S : rs \in Seq(S) /\ \A r \in S : r.op \in Op /\ r.nth \in Nat
  BY DEF IsRequests
<1>2. Len(rs) \in Nat /\ \A j \in 1..Len(rs) : rs[j].op \in Op
  BY <1>1, LenProperties, ElementOfSeq
<1>3. ASSUME NEW v, IsWorld(v), NEW j \in 0..Len(rs) - 1, Ordered(v.landed, Rest(j), n)
      PROVE  /\ IsWorld(Apply(v, rs[j + 1])) /\ (Composing(Apply(v, rs[j + 1])) => Composing(v))
             /\ Ordered(Apply(v, rs[j + 1]).landed, Rest(j + 1), n)
  <2>1. Head(Rest(j)) = rs[j + 1] /\ Tail(Rest(j)) = Rest(j + 1)
    <3>1. j + 1 \in 1..Len(rs) /\ Len(rs) \in j + 1..Len(rs)
      BY <1>2
    <3> QED BY <3>1, <1>1, HeadTailOfSubSeq
  <2>2. IsRequests(Rest(j)) /\ Len(Rest(j)) = Len(rs) - j
    <3>1. /\ j + 1 \in Nat \ {0} /\ Len(rs) \in Nat /\ Len(rs) <= Len(rs) /\ j + 1 <= Len(rs)
          /\ Len(rs) - (j + 1) + 1 = Len(rs) - j
      BY <1>2
    <3> QED BY <3>1, RequestsPart
  <2> HIDE DEF Rest
  <2>3. Rest(j) # <<>>
    <3>1. Len(rs) - j # 0
      BY <1>2
    <3> QED BY <3>1, <2>2, RequestsNone
  <2>4. rs[j + 1].op \in Op
    BY <1>2
  <2>5. /\ IsWorld(Apply(v, rs[j + 1])) /\ (Composing(Apply(v, rs[j + 1])) => Composing(v))
        /\ \/ Apply(v, rs[j + 1]).landed = v.landed
           \/ /\ rs[j + 1].nth # 0
              /\ Apply(v, rs[j + 1]).landed = Append(v.landed, rs[j + 1].nth)
    BY <1>3, <2>4, ApplyLanded
  <2> QED BY <1>3, <2>1, <2>2, <2>3, <2>5, OrderedHead
<1>4. Rest(0) = rs
  BY <1>1, SubSeqFull
<1>5. CASE k = 0
  <2>1. After(w, rs, k) = w
    BY <1>5 DEF After
  <2> QED BY <2>1, <1>4, <1>5
<1> HIDE DEF Rest
<1>6. ASSUME Len(rs) >= 1
      PROVE  /\ IsWorld(Apply(w, rs[1])) /\ (Composing(Apply(w, rs[1])) => Composing(w))
             /\ Ordered(Apply(w, rs[1]).landed, Rest(1), n)
  <2>1. 0 \in 0..Len(rs) - 1 /\ 0 + 1 = 1
    BY <1>2, <1>6
  <2> QED BY <2>1, <1>3, <1>4
<1>7. CASE k = 1
  <2>1. After(w, rs, k) = Apply(w, rs[1])
    BY <1>7 DEF After
  <2> QED BY <2>1, <1>2, <1>6, <1>7 DEF Rest
<1>8. CASE k = 2
  <2>1. After(w, rs, k) = Apply(Apply(w, rs[1]), rs[2])
    BY <1>8 DEF After
  <2>2. 1 \in 0..Len(rs) - 1 /\ 1 + 1 = 2 /\ Len(rs) >= 1
    BY <1>2, <1>8
  <2>3. /\ IsWorld(Apply(Apply(w, rs[1]), rs[2]))
        /\ Composing(Apply(Apply(w, rs[1]), rs[2])) => Composing(Apply(w, rs[1]))
        /\ Ordered(Apply(Apply(w, rs[1]), rs[2]).landed, Rest(2), n)
    BY <2>2, <1>3, <1>6
  <2> QED BY <2>1, <2>2, <2>3, <1>6, <1>8 DEF Rest
<1>9. k = 0 \/ k = 1 \/ k = 2
  BY <1>2
<1> QED BY <1>5, <1>7, <1>8, <1>9

-----------------------------------------------------------------------------
(* The invariant of the service.                                           *)

QueueInv ==
    /\ IsRequests(queue) /\ pending = Len(queue)
    /\ \E S : committed \in Seq(S)
    /\ Ordered(landed, queue, Len(committed))

\* `run` keeps the invariant for any sessions a handler requests: only the first
\* may be a commit, and it is the next one.
LEMMA RunStep ==
    ASSUME QueueInv, NEW w, IsWorld(w), w.landed = landed,
           NEW rs, IsRequests(rs), Len(rs) <= 2, Run(w, rs),
           \E S : committed' \in Seq(S), Len(committed) <= Len(committed'),
           \A i \in 1..Len(rs) : rs[i].nth # 0 =>
               i = 1 /\ Len(committed) < rs[i].nth /\ rs[i].nth <= Len(committed')
    PROVE  QueueInv' /\ (Composing(World)' => Composing(w))
<1> DEFINE n == Len(committed)
           m == Len(committed')
<1>1. n \in Nat /\ m \in Nat /\ Len(rs) \in Nat /\ Len(queue) \in Nat
  BY LenProperties DEF QueueInv, IsRequests
<1> HIDE DEF n, m
<1>2. PICK k \in 0..Len(rs), accepted \in BOOLEAN :
        /\ pending > 0 => k = 0
        /\ Become(After(w, rs, k))
        /\ queue' = IF accepted THEN queue \o SubSeq(rs, k + 1, Len(rs)) ELSE queue
        /\ pending' = IF accepted THEN pending + Len(rs) - k ELSE pending
  BY DEF Run
<1> DEFINE v == After(w, rs, k)
           rest == SubSeq(rs, k + 1, Len(rs))
<1>3. Ordered(landed, queue, n)
  BY DEF QueueInv, n
<1>4. Ordered(landed, queue \o rs, m) /\ Ordered(landed, queue, m)
  <2>1. \A i \in 1..Len(rs) : rs[i].nth # 0 => i = 1 /\ n < rs[i].nth /\ rs[i].nth <= m
    BY DEF n, m
  <2>2. n <= m
    BY DEF n, m
  <2>3. Ordered(landed, queue \o rs, m)
    BY <1>1, <1>3, <2>1, <2>2, OrderedConcat DEF QueueInv
  <2>4. Ordered(landed, queue \o <<>>, m)
    <3>1. \A i \in 1..Len(<<>>) : <<>>[i].nth # 0 => i = 1 /\ n < <<>>[i].nth /\ <<>>[i].nth <= m
      BY RequestsNone
    <3> QED BY <1>1, <1>3, <2>2, <3>1, RequestsNone, OrderedConcat DEF QueueInv
  <2>5. queue \o <<>> = queue
    BY ConcatEmptySeq DEF QueueInv, IsRequests
  <2> QED BY <2>3, <2>4, <2>5
<1>5. IsRequests(rest) /\ Len(rest) = Len(rs) - k
  <2>1. k + 1 \in Nat \ {0} /\ Len(rs) \in Nat /\ Len(rs) <= Len(rs)
        /\ (IF k + 1 <= Len(rs) THEN Len(rs) - (k + 1) + 1 ELSE 0) = Len(rs) - k
    BY <1>1
  <2> QED BY <2>1, RequestsPart
<1>6. IsRequests(queue') /\ pending' = Len(queue')
  <2>1. IsRequests(queue \o rest) /\ Len(queue \o rest) = Len(queue) + (Len(rs) - k)
    BY <1>5, RequestsConcat DEF QueueInv
  <2>2. pending = Len(queue)
    BY DEF QueueInv
  <2> HIDE DEF rest
  <2>3. CASE accepted
    <3>1. queue' = queue \o rest /\ pending' = pending + Len(rs) - k
      BY <1>2, <2>3 DEF rest
    <3> QED BY <3>1, <2>1, <2>2, <1>1
  <2>4. CASE ~accepted
    <3>1. queue' = queue /\ pending' = pending
      BY <1>2, <2>4
    <3> QED BY <3>1, <2>2 DEF QueueInv
  <2> QED BY <2>3, <2>4
<1>7. landed' = v.landed /\ (Composing(World)' => Composing(v))
  BY <1>2 DEF Become, Composing, World
<1>8. (Composing(v) => Composing(w)) /\ Ordered(landed', queue', m)
  <2>1. CASE k = 0
    <3>1. v = w
      BY <2>1 DEF After
    <3>2. rest = rs
      BY <2>1, SubSeqFull DEF IsRequests
    <3>3. landed' = landed /\ (queue' = queue \o rs \/ queue' = queue)
      BY <3>1, <3>2, <1>2, <1>7
    <3> QED BY <3>1, <3>3, <1>4
  <2>2. CASE k # 0
    <3>1. queue = <<>>
      <4>1. Len(queue) = 0
        BY <1>1, <1>2, <2>2 DEF QueueInv
      <4> QED BY <4>1, EmptySeq DEF QueueInv, IsRequests
    <3>2. queue \o rs = rs /\ queue \o rest = rest
      BY <3>1, <1>5, ConcatEmptySeq DEF IsRequests
    <3>3. (Composing(v) => Composing(w)) /\ Ordered(v.landed, rest, m)
      BY <1>1, <1>4, <3>2, AfterLanded
    <3>4. Ordered(v.landed, <<>>, m)
      <4>1. Len(<<>>) = 0 /\ \A i : i \notin 1..0
        BY RequestsNone
      <4>2. /\ v.landed \in Seq(Nat)
            /\ \A i \in 1..Len(v.landed) : v.landed[i] <= m /\ \A j \in 1..i-1 : v.landed[j] < v.landed[i]
        BY <3>3, Zenon DEF Ordered
      <4> QED BY <4>1, <4>2, Zenon DEF Ordered
    <3>5. queue' = rest \/ queue' = <<>>
      BY <1>2, <3>1, <3>2
    <3> QED BY <3>3, <3>4, <3>5, <1>7
  <2> QED BY <2>1, <2>2
<1> QED BY <1>6, <1>7, <1>8 DEF QueueInv, m

ServiceInv == QueueInv /\ ArabicWhileComposing

\* A handler that commits nothing keeps the invariant if it starts no word in
\* Latin mode.
LEMMA PlainStep ==
    ASSUME ServiceInv, NEW w, IsWorld(w), w.landed = landed, Composing(w) => arabic',
           committed' = committed, NEW rs, Run(w, rs),
           rs = <<>> \/ \E r : rs = <<r>> /\ r.op \in Op /\ r.nth = 0
    PROVE  ServiceInv'
<1>1. /\ IsRequests(rs) /\ Len(rs) <= 2
      /\ \A i \in 1..Len(rs) : rs[i].nth = 0
  <2>1. CASE rs = <<>>
    BY <2>1, RequestsNone
  <2>2. ASSUME NEW r, rs = <<r>>, r.op \in Op, r.nth = 0
        PROVE  /\ IsRequests(rs) /\ Len(rs) <= 2
               /\ \A i \in 1..Len(rs) : rs[i].nth = 0
    <3>1. IsRequests(rs) /\ Len(rs) = 1 /\ rs[1] = r
      BY <2>2, RequestsOne
    <3> QED BY <3>1, <2>2
  <2> QED BY <2>1, <2>2
<1>2. /\ \E S : committed' \in Seq(S)
      /\ Len(committed) <= Len(committed')
  <2>1. Len(committed) \in Nat
    BY LenProperties DEF ServiceInv, QueueInv
  <2> QED BY <2>1 DEF ServiceInv, QueueInv
<1>3. QueueInv' /\ (Composing(World)' => Composing(w))
  BY <1>1, <1>2, RunStep DEF ServiceInv
<1> QED BY <1>3 DEF ServiceInv, ArabicWhileComposing

\* So does a handler that commits the word, and perhaps starts another one.
LEMMA CommitStep ==
    ASSUME ServiceInv, NEW w, IsWorld(w), w.landed = landed, Composing(w) => arabic',
           NEW t, committed' = Append(committed, t),
           NEW r, r.op = "commit", r.nth = Len(committed) + 1,
           NEW rs, Run(w, rs),
           rs = <<r>> \/ \E s : rs = <<r, s>> /\ s.op \in Op /\ s.nth = 0
    PROVE  ServiceInv'
<1>0. PICK S : committed \in Seq(S)
  BY DEF ServiceInv, QueueInv
<1>1. /\ committed' \in Seq(S \union {t})
      /\ Len(committed) \in Nat /\ Len(committed') = Len(committed) + 1
  <2>1. committed \in Seq(S \union {t}) /\ t \in S \union {t}
    BY <1>0, SeqMonotonic
  <2> QED BY <2>1, AppendProperties, LenProperties
<1>2. /\ IsRequests(rs) /\ Len(rs) <= 2
      /\ \A i \in 1..Len(rs) : rs[i].nth # 0 => i = 1 /\ rs[i].nth = Len(committed) + 1
  <2>0. r.op \in Op /\ r.nth \in Nat
    BY <1>1 DEF Op
  <2>1. CASE rs = <<r>>
    <3>1. IsRequests(rs) /\ Len(rs) = 1 /\ rs[1] = r
      BY <2>0, <2>1, RequestsOne
    <3> QED BY <3>1
  <2>2. ASSUME NEW s, rs = <<r, s>>, s.op \in Op, s.nth = 0
        PROVE  /\ IsRequests(rs) /\ Len(rs) <= 2
               /\ \A i \in 1..Len(rs) : rs[i].nth # 0 => i = 1 /\ rs[i].nth = Len(committed) + 1
    <3>1. IsRequests(rs) /\ Len(rs) = 2 /\ rs[1] = r /\ rs[2] = s
      BY <2>0, <2>2, RequestsTwo
    <3>2. \A i \in 1..2 : i = 1 \/ i = 2
      OBVIOUS
    <3> QED BY <3>1, <3>2, <2>2
  <2> QED BY <2>1, <2>2
<1>3. QueueInv' /\ (Composing(World)' => Composing(w))
  <2>1. \A i \in 1..Len(rs) : rs[i].nth # 0 =>
            i = 1 /\ Len(committed) < rs[i].nth /\ rs[i].nth <= Len(committed')
    BY <1>1, <1>2
  <2>2. Len(committed) <= Len(committed')
    BY <1>1
  <2> QED BY <1>1, <1>2, <2>1, <2>2, RunStep DEF ServiceInv
<1> QED BY <1>3 DEF ServiceInv, ArabicWhileComposing

\* finalize_composition leaves no word.
LEMMA FinalizeStep ==
    ASSUME ServiceInv, NEW w, IsWorld(w), w.landed = landed,
           committed' = committed, FinalizeComposition(w)
    PROVE  ServiceInv'
<1> DEFINE fields == {c \in Context : Lives(w.doc[c], w.composition)}
           left == [w EXCEPT !.session = NoWord, !.editor = NoWord, !.compCtx = NoContext,
                        !.popup = FALSE,
                        !.finalized = @ \union
                            {w.doc[c][Place(w.doc[c], w.composition)].text.word : c \in fields}]
           r == Request("finalize", CHOOSE c \in fields : TRUE, NoWord)
           rs == IF fields = {} THEN <<>> ELSE <<r>>
<1>1. Run(left, rs)
  BY DEF FinalizeComposition
<1>2. IsWorld(left) /\ left.landed = landed /\ ~Composing(left)
  BY DEF IsWorld, Field, Composing
<1>3. rs = <<>> \/ (rs = <<r>> /\ r.op \in Op /\ r.nth = 0)
  BY DEF Request, Op
<1> HIDE DEF left, rs, r, fields
<1> QED BY <1>1, <1>2, <1>3, PlainStep

\* TSF runs the oldest session, or releases one unrun.
LEMMA QueueStep ==
    ASSUME ServiceInv, RunQueued \/ Discard
    PROVE  ServiceInv'
<1>1. CASE RunQueued
  <2> DEFINE r == Head(queue)
             v == Apply(World, r)
  <2>1. /\ queue # <<>> /\ queue' = Tail(queue) /\ pending' = pending - 1
        /\ Become(v) /\ committed' = committed /\ arabic' = arabic
    BY <1>1 DEF RunQueued, history, bounds
  <2>2. /\ IsRequests(Tail(queue)) /\ Len(Tail(queue)) = Len(queue) - 1
        /\ r.op \in Op
    BY <2>1, RequestsHead DEF ServiceInv, QueueInv
  <2>3. /\ Composing(v) => Composing(World)
        /\ v.landed = landed \/ (r.nth # 0 /\ v.landed = Append(landed, r.nth))
    <3>1. World.landed = landed
      BY DEF World
    <3> QED BY <3>1, <2>2, WorldIsWorld, ApplyLanded
  <2>4. landed' = v.landed /\ (Composing(World)' => Composing(v))
    BY <2>1 DEF Become, Composing, World
  <2> HIDE DEF v
  <2>5. Ordered(landed', queue', Len(committed'))
    <3>1. Len(committed) \in Nat
      BY LenProperties DEF ServiceInv, QueueInv
    <3> QED BY <3>1, <2>1, <2>3, <2>4, OrderedHead DEF ServiceInv, QueueInv
  <2> QED BY <2>1, <2>2, <2>3, <2>4, <2>5 DEF ServiceInv, QueueInv, ArabicWhileComposing
<1>2. CASE Discard
  <2>1. PICK i \in DOMAIN queue : queue' = RemoveAt(queue, i)
    BY <1>2 DEF Discard
  <2>2. /\ pending' = pending - 1 /\ UNCHANGED <<engine, screen, history>>
    BY <1>2 DEF Discard
  <2>3. /\ Len(queue) \in Nat /\ i \in 1..Len(queue) /\ Len(committed) \in Nat
    BY <2>1, LenProperties DEF ServiceInv, QueueInv, IsRequests
  <2> DEFINE a == SubSeq(queue, 1, i - 1)
             b == SubSeq(queue, i + 1, Len(queue))
  <2>4. /\ IsRequests(a) /\ Len(a) = i - 1
        /\ \A j \in 1..Len(a) : a[j] = queue[j]
    <3>1. /\ 1 \in Nat \ {0} /\ i - 1 \in Nat /\ i - 1 <= Len(queue)
          /\ (IF 1 <= i - 1 THEN (i - 1) - 1 + 1 ELSE 0) = i - 1
      BY <2>3
    <3>2. /\ IsRequests(a) /\ Len(a) = i - 1
          /\ \A j \in 1..Len(a) : a[j] = queue[1 + j - 1]
      BY <3>1, RequestsPart DEF ServiceInv, QueueInv
    <3>3. \A j \in 1..Len(a) : 1 + j - 1 = j
      OBVIOUS
    <3> QED BY <3>2, <3>3
  <2>5. /\ IsRequests(b) /\ Len(b) = Len(queue) - i
        /\ \A j \in 1..Len(b) : b[j] = queue[(i + 1) + j - 1]
    <3>1. /\ i + 1 \in Nat \ {0} /\ Len(queue) \in Nat /\ Len(queue) <= Len(queue)
          /\ (IF i + 1 <= Len(queue) THEN Len(queue) - (i + 1) + 1 ELSE 0) = Len(queue) - i
      BY <2>3
    <3>2. IsRequests(queue)
      BY DEF ServiceInv, QueueInv
    <3>3. /\ IsRequests(b)
          /\ Len(b) = IF i + 1 <= Len(queue) THEN Len(queue) - (i + 1) + 1 ELSE 0
          /\ \A j \in 1..Len(b) : b[j] = queue[(i + 1) + j - 1]
      BY <3>1, <3>2, RequestsPart
    <3> QED BY <3>1, <3>3
  <2> HIDE DEF a, b
  <2>6. /\ IsRequests(a \o b) /\ Len(a \o b) = Len(queue) - 1
        /\ \A j \in 1..Len(queue) - 1 :
               (a \o b)[j] = IF j < i THEN queue[j] ELSE queue[j + 1]
    <3>1. /\ IsRequests(a \o b) /\ Len(a \o b) = Len(a) + Len(b)
          /\ \A j \in 1..Len(a) + Len(b) :
                 (a \o b)[j] = IF j <= Len(a) THEN a[j] ELSE b[j - Len(a)]
      BY <2>4, <2>5, RequestsConcat
    <3>2. Len(a) + Len(b) = Len(queue) - 1
      BY <2>3, <2>4, <2>5
    <3>3. ASSUME NEW j \in 1..Len(queue) - 1
          PROVE  (a \o b)[j] = IF j < i THEN queue[j] ELSE queue[j + 1]
      <4>1. CASE j < i
        BY <4>1, <3>1, <3>2, <2>3, <2>4
      <4>2. CASE ~(j < i)
        <5>1. /\ j - (i - 1) \in 1..Len(queue) - i /\ ~(j <= i - 1)
              /\ (i + 1) + (j - (i - 1)) - 1 = j + 1
          BY <4>2, <2>3
        <5>2. (a \o b)[j] = b[j - Len(a)]
          BY <5>1, <3>1, <3>2, <2>4
        <5>3. b[j - Len(a)] = queue[j + 1]
          BY <5>1, <2>4, <2>5
        <5> QED BY <5>2, <5>3, <4>2
      <4> QED BY <4>1, <4>2
    <3> QED BY <3>1, <3>2, <3>3
  <2>7. queue' = a \o b
    BY <2>1 DEF RemoveAt, a, b
  <2>8. Ordered(landed, queue', Len(committed))
    <3> DEFINE at == [j \in 1..Len(queue') |-> IF j < i THEN j ELSE j + 1]
    <3>1. /\ at \in [1..Len(queue') -> 1..Len(queue)]
          /\ \A j \in 1..Len(queue') : queue'[j] = queue[at[j]]
          /\ \A j \in 1..Len(queue') : \A k \in 1..j-1 :
                 at[k] \in 1..at[j]-1 /\ k \in 1..Len(queue')
      BY <2>3, <2>6, <2>7
    <3> HIDE DEF at
    <3> QED BY <2>3, <3>1, OrderedSubsequence DEF ServiceInv, QueueInv
  <2> QED BY <2>2, <2>3, <2>6, <2>7, <2>8
      DEF ServiceInv, QueueInv, ArabicWhileComposing, Composing, World, engine, screen, history
<1> QED BY <1>1, <1>2

-----------------------------------------------------------------------------
(* The handlers.                                                           *)

\* The invariant holds initially ...
LEMMA ServiceInit == Init => ServiceInv
<1> SUFFICES ASSUME Init PROVE ServiceInv
  OBVIOUS
<1>1. queue = <<>> /\ pending = 0 /\ committed = <<>> /\ landed = <<>>
  BY DEF Init
<1>2. IsRequests(queue) /\ Len(queue) = 0 /\ Len(landed) = 0 /\ Len(committed) = 0
  BY <1>1, RequestsNone
<1>3. landed \in Seq(Nat) /\ committed \in Seq(Nat)
  BY <1>1, EmptySeq
<1>4. Ordered(landed, queue, Len(committed))
  BY <1>2, <1>3 DEF Ordered
<1>5. ~Composing(World)
  BY DEF Init, Composing, World
<1> QED BY <1>1, <1>2, <1>3, <1>4, <1>5 DEF ServiceInv, QueueInv, ArabicWhileComposing

\* A key that leaves nothing or one request without a commit.
LEMMA PlainKeyStep ==
    ASSUME ServiceInv, NEW c \in Context,
           \/ DropDeadState(c) \/ AppendChar(c) \/ Backspace(c) \/ MoveHighlight(c)
           \/ SwitchEditor(c) \/ InsertKey(c) \/ ReEditKey(c) \/ PassKey(c)
    PROVE  ServiceInv'
<1>a. Composing(World) => arabic
  BY DEF ServiceInv, ArabicWhileComposing
<1>w. /\ IsWorld(World) /\ World.landed = landed
      /\ World.session = session /\ World.editor = editor
  BY WorldIsWorld DEF World
<1>r. \A op \in Op : \A t : Request(op, c, t).op \in Op /\ Request(op, c, t).nth = 0
  BY DEF Request
<1>1. CASE DropDeadState(c)
  <2> DEFINE w == IF ~terminated THEN World
                  ELSE [World EXCEPT !.session = NoWord, !.editor = NoWord, !.popup = FALSE,
                                     !.composition = 0, !.compCtx = NoContext]
  <2>1. /\ IsWorld(w) /\ w.landed = landed
        /\ Composing(w) => Composing(World)
    BY <1>w DEF IsWorld, Field, Composing
  <2>2. /\ FinalizeComposition(w) \/ Run(w, <<>>)
        /\ committed' = committed /\ arabic' = arabic
    BY <1>1 DEF DropDeadState, history
  <2> HIDE DEF w
  <2> QED BY <2>1, <2>2, <1>a, FinalizeStep, PlainStep
<1>2. CASE AppendChar(c)
  <2> DEFINE w == [World EXCEPT !.session = Typed]
  <2>1. Run(w, <<Request("preview", c, NoWord)>>) /\ arabic /\ arabic' = arabic /\ committed' = committed
    BY <1>2 DEF AppendChar, history
  <2>2. IsWorld(w) /\ w.landed = landed
    BY <1>w DEF IsWorld, Field
  <2> HIDE DEF w
  <2> QED BY <2>1, <2>2, <1>r, PlainStep DEF Op
<1>3. CASE Backspace(c)
  <2>0. Composing(World) /\ arabic' = arabic /\ committed' = committed
    BY <1>3, <1>w DEF Backspace, history, Composing
  <2>1. CASE session.len > 1
    <3> DEFINE w == [World EXCEPT !.session = [session EXCEPT !.len = @ - 1, !.pick = 0]]
    <3>1. Run(w, <<Request("preview", c, NoWord)>>)
      BY <1>3, <2>1 DEF Backspace
    <3>2. IsWorld(w) /\ w.landed = landed
      BY <1>w DEF IsWorld, Field
    <3> HIDE DEF w
    <3> QED BY <2>0, <3>1, <3>2, <1>a, <1>r, PlainStep DEF Op
  <2>2. CASE ~(session.len > 1)
    <3> DEFINE w == [World EXCEPT !.session = NoWord, !.popup = FALSE,
                                  !.erased = @ \union {session.word}]
    <3>1. Run(w, <<Request("commit", c, NoWord)>>)
      BY <1>3, <2>2 DEF Backspace
    <3>2. IsWorld(w) /\ w.landed = landed
      BY <1>w DEF IsWorld, Field
    <3> HIDE DEF w
    <3> QED BY <2>0, <3>1, <3>2, <1>a, <1>r, PlainStep DEF Op
  <2> QED BY <2>1, <2>2
<1>4. CASE MoveHighlight(c)
  <2> DEFINE w == [World EXCEPT !.session.pick = 1 - @]
  <2>1. /\ Run(w, <<Request("preview", c, NoWord)>>)
        /\ Composing(World) /\ arabic' = arabic /\ committed' = committed
    BY <1>4, <1>w DEF MoveHighlight, history, Composing
  <2>2. IsWorld(w) /\ w.landed = landed
    BY <1>w DEF IsWorld, Field
  <2> HIDE DEF w
  <2> QED BY <2>1, <2>2, <1>a, <1>r, PlainStep DEF Op
<1>5. CASE SwitchEditor(c)
  <2> DEFINE w == [World EXCEPT !.editor = IF @ = NoWord THEN session ELSE NoWord]
  <2>1. /\ Run(w, <<Request("preview", c, NoWord)>>)
        /\ Composing(World) /\ arabic' = arabic /\ committed' = committed
    BY <1>5 DEF SwitchEditor, history
  <2>2. IsWorld(w) /\ w.landed = landed
    BY <1>w DEF IsWorld, Field
  <2> HIDE DEF w
  <2> QED BY <2>1, <2>2, <1>a, <1>r, PlainStep DEF Op
<1>6. CASE InsertKey(c)
  <2>1. /\ Run(World, <<Request("insert", c, Character)>>)
        /\ arabic' = arabic /\ committed' = committed
    BY <1>6 DEF InsertKey, history
  <2> QED BY <2>1, <1>a, <1>w, <1>r, PlainStep DEF Op
<1>7. CASE ReEditKey(c)
  <2>1. arabic /\ arabic' = arabic /\ committed' = committed
    BY <1>7 DEF ReEditKey
  <2>2. CASE anchor.space
    <3> DEFINE v == DeleteChar(World, c)
    <3>1. Become(v) /\ queue' = queue /\ pending' = pending
      BY <1>7, <2>2 DEF ReEditKey, tsf
    <3>2. v.landed = landed
      BY <1>w, DeleteCharHarmless DEF Harmless
    <3> HIDE DEF v
    <3>3. landed' = landed
      BY <3>1, <3>2 DEF Become
    <3> QED BY <2>1, <3>1, <3>3 DEF ServiceInv, QueueInv, ArabicWhileComposing
  <2>3. CASE ~anchor.space
    <3> DEFINE w == [World EXCEPT !.session = anchor.text]
    <3>1. Run(w, <<Request("reedit", c, anchor.text)>>)
      BY <1>7, <2>3 DEF ReEditKey
    <3>2. IsWorld(w) /\ w.landed = landed
      BY <1>w DEF IsWorld, Field
    <3> HIDE DEF w
    <3> QED BY <2>1, <3>1, <3>2, <1>r, PlainStep DEF Op
  <2> QED BY <2>2, <2>3
<1>8. CASE PassKey(c)
  BY <1>8 DEF PassKey, ServiceInv, QueueInv, ArabicWhileComposing, Composing, World,
              screen, tsf, history
<1> QED BY <1>1, <1>2, <1>3, <1>4, <1>5, <1>6, <1>7, <1>8

\* A key, a toggle or a click that commits the word, if there is one.
LEMMA CommitKeyStep ==
    ASSUME ServiceInv,
           \/ \E c \in Context : CommitKey(c) \/ CommitThenType(c) \/ ToggleKey(c) \/ PreservedKey(c)
           \/ ClickRow
    PROVE  ServiceInv'
<1>a. Composing(World) => arabic
  BY DEF ServiceInv, ArabicWhileComposing
<1>w. /\ IsWorld(World) /\ World.landed = landed
      /\ World.session = session /\ World.editor = editor
  BY WorldIsWorld DEF World
<1>d. IsWorld(Committed(World)) /\ Committed(World).landed = landed /\ ~Composing(Committed(World))
  BY <1>w DEF Committed, IsWorld, Field, Composing
<1>c. \A c, t, s : /\ CommitRequest(c, t, s).op = "commit"
                   /\ CommitRequest(c, t, s).nth = Len(committed) + 1
  BY DEF CommitRequest
<1>1. ASSUME NEW c, NEW t, NEW s, committed' = Append(committed, t),
             Run(Committed(World), <<CommitRequest(c, t, s)>>)
      PROVE  ServiceInv'
  BY <1>1, <1>c, <1>d, CommitStep
<1>2. ASSUME NEW c \in Context, CommitKey(c) PROVE ServiceInv'
  BY <1>1, <1>2 DEF CommitKey
<1>3. ASSUME NEW c \in Context, CommitThenType(c) PROVE ServiceInv'
  <2> DEFINE w == [Committed(World) EXCEPT !.session = [word |-> keys + 1, len |-> 1, pick |-> 0]]
             r == CommitRequest(c, editor, <<>>)
             s == Request("preview", c, NoWord)
  <2>1. /\ Run(w, <<r, s>>)
        /\ Composing(World) /\ arabic' = arabic /\ committed' = Append(committed, editor)
    BY <1>3, <1>w DEF CommitThenType, Composing
  <2>2. IsWorld(w) /\ w.landed = landed
    BY <1>d DEF IsWorld, Field
  <2>3. r.op = "commit" /\ r.nth = Len(committed) + 1 /\ s.op \in Op /\ s.nth = 0
    BY <1>c DEF Request, Op
  <2> HIDE DEF w, r, s
  <2> QED BY <2>1, <2>2, <2>3, <1>a, CommitStep
<1>4. ASSUME NEW c \in Context, NEW left, Toggle(c, left) PROVE ServiceInv'
  <2>1. CASE Composing(World)
    BY <1>1, <1>4, <2>1 DEF Toggle
  <2>2. CASE ~Composing(World)
    BY <1>4, <2>2, <1>w, PlainStep DEF Toggle
  <2> QED BY <2>1, <2>2
<1>5. CASE ClickRow
  BY <1>1, <1>5 DEF ClickRow
<1> QED BY <1>2, <1>3, <1>4, <1>5 DEF ToggleKey, PreservedKey

\* Focus, the caret, and what the host does to compositions.
LEMMA HostStep ==
    ASSUME ServiceInv,
           \/ SetFocus \/ \E gained \in BOOLEAN : ThreadFocus(gained)
           \/ \E c \in Context : MoveCaret(c) \/ CompositionTerminated(c) \/ CompositionLost(c)
    PROVE  ServiceInv'
<1>a. Composing(World) => arabic
  BY DEF ServiceInv, ArabicWhileComposing
<1>w. /\ IsWorld(World) /\ World.landed = landed
      /\ World.session = session /\ World.editor = editor
  BY WorldIsWorld DEF World
<1>1. CASE SetFocus
  BY <1>1, <1>w, FinalizeStep DEF SetFocus, history
<1>2. ASSUME NEW gained \in BOOLEAN, ThreadFocus(gained) PROVE ServiceInv'
  BY <1>2 DEF ThreadFocus, ServiceInv, QueueInv, ArabicWhileComposing, Composing, World,
              engine, tsf, history
<1>3. ASSUME NEW c \in Context, MoveCaret(c) PROVE ServiceInv'
  <2>1. PICK at \in 0..Len(doc[c]) :
           LET w == [World EXCEPT !.caret[c] = at]
           IN  /\ FinalizeComposition(w) \/ Run(w, <<>>)
               /\ committed' = committed /\ arabic' = arabic
    BY <1>3 DEF MoveCaret, history
  <2> DEFINE w == [World EXCEPT !.caret[c] = at]
  <2>2. IsWorld(w) /\ w.landed = landed /\ (Composing(w) => Composing(World))
    BY <1>w DEF IsWorld, Field, Composing
  <2> HIDE DEF w
  <2>3. /\ FinalizeComposition(w) \/ Run(w, <<>>)
        /\ committed' = committed /\ arabic' = arabic
    BY <2>1 DEF w
  <2> QED BY <2>2, <2>3, <1>a, FinalizeStep, PlainStep
<1>4. ASSUME NEW c \in Context, CompositionTerminated(c) PROVE ServiceInv'
  <2>1. PICK i \in DOMAIN doc[c], busy \in BOOLEAN :
          /\ Run(IF busy THEN [World EXCEPT !.doc[c] = Ended(@, i)]
                 ELSE [World EXCEPT !.doc[c] = Ended(@, i), !.session = NoWord, !.editor = NoWord,
                                    !.popup = FALSE, !.composition = 0, !.compCtx = NoContext],
                 <<>>)
          /\ committed' = committed /\ arabic' = arabic
    BY <1>4 DEF CompositionTerminated, history
  <2> DEFINE w == IF busy THEN [World EXCEPT !.doc[c] = Ended(@, i)]
                  ELSE [World EXCEPT !.doc[c] = Ended(@, i), !.session = NoWord, !.editor = NoWord,
                                     !.popup = FALSE, !.composition = 0, !.compCtx = NoContext]
  <2>2. IsWorld(w) /\ w.landed = landed /\ (Composing(w) => Composing(World))
    BY <1>w DEF IsWorld, Field, Composing
  <2>3. Run(w, <<>>)
    BY <2>1
  <2> HIDE DEF w
  <2> QED BY <2>1, <2>2, <2>3, <1>a, PlainStep
<1>5. ASSUME NEW c \in Context, CompositionLost(c) PROVE ServiceInv'
  BY <1>5 DEF CompositionLost, ServiceInv, QueueInv, ArabicWhileComposing, Composing, World,
              engine, tsf, history
<1> QED BY <1>1, <1>2, <1>3, <1>4, <1>5

\* ... and every step keeps it.
LEMMA ServiceStep == ServiceInv /\ [Next]_vars => ServiceInv'
<1> SUFFICES ASSUME ServiceInv, [Next]_vars PROVE ServiceInv'
  OBVIOUS
<1>1. CASE UNCHANGED vars
  BY <1>1 DEF vars, engine, screen, tsf, history, ServiceInv, QueueInv, ArabicWhileComposing,
              Composing, World
<1>2. CASE Next
  BY <1>2, PlainKeyStep, CommitKeyStep, HostStep, QueueStep DEF Next, KeyDown
<1> QED BY <1>1, <1>2

\* Commits land in the order the user made them, for any number of fields, keys and
\* losses, and whatever the host grants at once, queues, refuses or discards (`run`).
THEOREM CommitsLandInOrder == Spec => []LandInOrder
<1>1. ServiceInv => LandInOrder
  <2> SUFFICES ASSUME ServiceInv PROVE LandInOrder
    OBVIOUS
  <2>1. Ordered(landed, queue, Len(committed))
    BY DEF ServiceInv, QueueInv
  <2>2. DOMAIN landed = 1..Len(landed)
    BY <2>1 DEF Ordered
  <2> QED BY <2>1, <2>2 DEF Ordered, LandInOrder
<1> QED BY <1>1, ServiceInit, ServiceStep, PTL DEF Spec

\* `pending` is the number of queued sessions in every state, so a later session is
\* granted at once exactly when none is queued (the condition `run` tests).
THEOREM PendingCountsTheQueue == Spec => [](pending = Len(queue))
<1>1. ServiceInv => pending = Len(queue)
  BY DEF ServiceInv, QueueInv
<1> QED BY <1>1, ServiceInit, ServiceStep, PTL DEF Spec

\* Nothing is being typed in Latin mode: no toggle, and no edit session that runs
\* late, leaves a word behind for a mode that does not show it.
THEOREM LatinComposesNothing == Spec => []ArabicWhileComposing
<1>1. ServiceInv => ArabicWhileComposing
  BY DEF ServiceInv
<1> QED BY <1>1, ServiceInit, ServiceStep, PTL DEF Spec

-----------------------------------------------------------------------------
(* The popup, where TSF grants every session at once.                      *)

\* An edit that touches only the document.
Keeps(w, v) == IsWorld(v) /\ v.session = w.session /\ v.editor = w.editor /\ v.popup = w.popup

\* What the theorem says, of a world.
PopupOK(w) == w.popup => Composing(w)

\* The edits of the document leave the word and the popup alone.
LEMMA DocumentOnly ==
    ASSUME NEW w, IsWorld(w), NEW c
    PROVE  /\ \A pieces : Keeps(w, InsertAtCaret(w, c, pieces))
           /\ \A t, n : Keeps(w, SetText(w, c, t, n))
           /\ Keeps(w, Delete(w, c)) /\ Keeps(w, Finalize(w, c))
<1>1. ASSUME NEW pieces PROVE Keeps(w, InsertAtCaret(w, c, pieces))
  <2> DEFINE v == InsertAtCaret(w, c, pieces)
  <2>1. /\ IsWorld(v) /\ v.session = w.session /\ v.editor = w.editor /\ v.popup = w.popup
    BY DEF InsertAtCaret, IsWorld, Field
  <2> HIDE DEF v
  <2>2. Keeps(w, v)
    BY <2>1 DEF Keeps
  <2> QED BY <2>2 DEF v
<1>2. ASSUME NEW t, NEW n PROVE Keeps(w, SetText(w, c, t, n))
  BY DEF SetText, IsWorld, Field, Keeps
<1>3. Keeps(w, Delete(w, c))
  BY DEF Delete, IsWorld, Field, Keeps
<1>4. Keeps(w, Finalize(w, c))
  BY DEF Finalize, IsWorld, Field, Keeps
<1> QED BY <1>1, <1>2, <1>3, <1>4

\* A Backspace in the document does, too.
LEMMA DeleteCharOnly ==
    ASSUME NEW w, IsWorld(w), NEW c
    PROVE  Keeps(w, DeleteChar(w, c))
<1> DEFINE noted == [w EXCEPT !.erased = @ \union {w.doc[c][w.caret[c]].text.word}]
<1>1. Keeps(w, noted) /\ IsWorld(noted)
  BY DEF IsWorld, Field, Keeps
<1> HIDE DEF noted
<1>2. Keeps(noted, Delete(noted, c))
  BY <1>1, DocumentOnly
<1>3. Keeps(noted, [noted EXCEPT !.doc[c][w.caret[c]].text.len = @ - 1])
  BY <1>1 DEF IsWorld, Field, Keeps
<1>4. Keeps(w, w)
  BY DEF Keeps
<1>5. DeleteChar(w, c) \in {w, Delete(noted, c), [noted EXCEPT !.doc[c][w.caret[c]].text.len = @ - 1]}
  BY DEF DeleteChar, noted
<1> QED BY <1>1, <1>2, <1>3, <1>4, <1>5 DEF Keeps

\* DocOp::Preview shows the popup for a word only.
LEMMA PreviewPopup ==
    ASSUME NEW w, IsWorld(w), PopupOK(w), NEW c
    PROVE  LET v == Preview(w, c)
           IN  IsWorld(v) /\ v.session = w.session /\ v.editor = w.editor /\ PopupOK(v)
<1>1. Keeps(w, SetText(w, c, Shown(w), w.composition))
  BY DocumentOnly
<1>2. Keeps(w, StartComposition(w, c))
  <2> DEFINE v == InsertAtCaret(w, c, <<[text |-> Shown(w), comp |-> Fresh(w)]>>)
  <2>1. Keeps(w, v)
    BY DocumentOnly
  <2> HIDE DEF v
  <2>2. Keeps(w, [v EXCEPT !.composition = Fresh(w), !.compCtx = c])
    BY <2>1 DEF IsWorld, Field, Keeps
  <2> QED BY <2>2 DEF StartComposition, v
<1>3. ASSUME NEW v, Keeps(w, v), Composing(w)
      PROVE  LET u == [v EXCEPT !.popup = TRUE]
             IN  IsWorld(u) /\ u.session = w.session /\ u.editor = w.editor /\ Composing(u)
  BY <1>3 DEF IsWorld, Field, Keeps, Composing
<1> QED BY <1>1, <1>2, <1>3 DEF Preview, PopupOK

\* DocOp::Commit leaves the word, which the key took away, and the popup.
LEMMA CommitKeepsWord ==
    ASSUME NEW w, IsWorld(w), NEW c, NEW op
    PROVE  Keeps(w, Commit(w, c, op))
<1> DEFINE done == [w EXCEPT !.composition = 0, !.compCtx = NoContext,
                             !.landed = IF op.nth = 0 THEN @ ELSE Append(@, op.nth)]
           set == SetText(w, c, op.text, 0)
           shown == [done EXCEPT !.doc = set.doc, !.caret = set.caret]
           word == IF op.text = NoWord THEN <<>> ELSE <<Plain(op.text)>>
<1>1. Keeps(w, done)
  BY DEF IsWorld, Field, Keeps
<1> HIDE DEF done, set
<1>2. Keeps(w, shown)
  BY <1>1 DEF IsWorld, Field, Keeps
<1> HIDE DEF shown
<1>3. IsWorld(done) /\ IsWorld(shown)
  BY <1>1, <1>2 DEF Keeps
<1>4. Keeps(done, InsertAtCaret(done, c, word \o op.suffix))
  BY <1>3, DocumentOnly
<1>5. Keeps(shown, Delete(shown, c)) /\ Keeps(shown, InsertAtCaret(shown, c, op.suffix))
  BY <1>3, DocumentOnly
<1>6. Commit(w, c, op) \in {InsertAtCaret(done, c, word \o op.suffix), Delete(shown, c),
                           InsertAtCaret(shown, c, op.suffix)}
  BY DEF Commit, done, shown, set, word
<1> QED BY <1>1, <1>2, <1>4, <1>5, <1>6 DEF Keeps

\* DocOp::ReEdit: the word the key restored, or no word and no popup.
LEMMA ReEditPopup ==
    ASSUME NEW w, IsWorld(w), PopupOK(w), NEW c, NEW op
    PROVE  LET v == ReEdit(w, c, op)
           IN  /\ IsWorld(v) /\ v.session \in {w.session, NoWord} /\ v.editor = w.editor
               /\ PopupOK(v)
<1>1. Keeps(w, Delete(w, c))
  BY DocumentOnly
<1>2. IsWorld(Delete(w, c)) /\ PopupOK(Delete(w, c))
  BY <1>1 DEF Keeps, PopupOK, Composing
<1> DEFINE empty == [w EXCEPT !.session = NoWord, !.popup = FALSE]
<1>3. /\ IsWorld(empty) /\ empty.session = NoWord /\ empty.editor = w.editor /\ empty.popup = FALSE
  BY DEF IsWorld, Field
<1> HIDE DEF empty
<1>4. Keeps(empty, DeleteChar(empty, c))
  BY <1>3, DeleteCharOnly
<1>5. ReEdit(w, c, op) \in {Preview(Delete(w, c), c), DeleteChar(empty, c)}
  BY DEF ReEdit, empty
<1>6. LET v == Preview(Delete(w, c), c)
      IN  IsWorld(v) /\ v.session = w.session /\ v.editor = w.editor /\ PopupOK(v)
  BY <1>1, <1>2, PreviewPopup DEF Keeps
<1> QED BY <1>3, <1>4, <1>5, <1>6 DEF Keeps, PopupOK

\* No edit session shows the popup without a word; only a ReEdit takes the word.
LEMMA ApplyPopup ==
    ASSUME NEW w, IsWorld(w), PopupOK(w), NEW r, r.op \in Op
    PROVE  LET v == Apply(w, r)
           IN  /\ IsWorld(v) /\ v.editor = w.editor /\ PopupOK(v)
               /\ v.session = w.session \/ (r.op = "reedit" /\ v.session = NoWord)
<1>k. \A v : Keeps(w, v) => IsWorld(v) /\ v.editor = w.editor /\ PopupOK(v) /\ v.session = w.session
  BY DEF Keeps, PopupOK, Composing
<1>1. CASE r.op = "preview"
  <2>1. Apply(w, r) = Preview(w, r.ctx)
    BY <1>1 DEF Apply
  <2> QED BY <2>1, PreviewPopup
<1>2. CASE r.op = "commit"
  <2>1. Apply(w, r) = Commit(w, r.ctx, r)
    BY <1>2 DEF Apply
  <2> QED BY <1>k, <2>1, CommitKeepsWord
<1>3. CASE r.op = "finalize"
  <2>1. Apply(w, r) = Finalize(w, r.ctx)
    BY <1>3 DEF Apply
  <2> QED BY <1>k, <2>1, DocumentOnly
<1>4. CASE r.op = "insert"
  <2>1. Apply(w, r) = InsertAtCaret(w, r.ctx, <<Plain(r.text)>>)
    BY <1>4 DEF Apply
  <2> QED BY <1>k, <2>1, DocumentOnly
<1>5. CASE r.op = "reedit"
  <2>1. Apply(w, r) = ReEdit(w, r.ctx, r)
    BY <1>5 DEF Apply
  <2> QED BY <1>5, <2>1, ReEditPopup
<1> QED BY <1>1, <1>2, <1>3, <1>4, <1>5 DEF Op

Real == [word : Nat \ {0}, len : Nat \ {0}, pick : 0..1]
Letters == Real \union {NoWord}
Anchors == [text : Letters, space : BOOLEAN]

\* The editor is open over a word only, which a ReEdit that is queued while it
\* is opened could take away: hence no session is queued here.
PopupInv ==
    /\ queue = <<>> /\ Len(committed) \in Nat
    /\ session \in Letters /\ editor \in Letters /\ anchor \in Anchors /\ keys \in Nat
    /\ editor # NoWord => session # NoWord
    /\ PopupWhileComposing

\* What a handler leaves for its sessions.
Ready(w) ==
    /\ IsWorld(w) /\ PopupOK(w) /\ w.session \in Letters /\ w.editor \in Letters
    /\ w.editor # NoWord => w.session # NoWord

\* Sessions that run at once keep the invariant; a ReEdit finds no editor.
LEMMA RunPopup ==
    ASSUME PopupInv, ~Deferred, NEW w, Ready(w), NEW rs, IsRequests(rs), Len(rs) \in 0..2,
           \A i \in 1..Len(rs) : rs[i].op = "reedit" => w.editor = NoWord,
           Run(w, rs), anchor' \in Anchors, keys' \in Nat
    PROVE  PopupInv'
<1>1. /\ Become(After(w, rs, Len(rs)))
      /\ queue' = queue \/ queue' = queue \o SubSeq(rs, Len(rs) + 1, Len(rs))
  BY DEF Run
<1>2. queue' = <<>>
  <2>1. SubSeq(rs, Len(rs) + 1, Len(rs)) = <<>>
    <3>1. IsRequests(SubSeq(rs, Len(rs) + 1, Len(rs))) /\ Len(SubSeq(rs, Len(rs) + 1, Len(rs))) = 0
      BY RequestsPart
    <3> QED BY <3>1, EmptySeq DEF IsRequests
  <2> QED BY <1>1, <2>1 DEF PopupInv
<1>3. \A i \in 1..Len(rs) : rs[i].op \in Op
  BY ElementOfSeq DEF IsRequests
<1>4. NoWord \in Letters
  BY DEF Letters
<1>5. ASSUME NEW v, Ready(v), v.editor = w.editor, NEW i \in 1..Len(rs)
      PROVE  Ready(Apply(v, rs[i])) /\ Apply(v, rs[i]).editor = w.editor
  BY <1>3, <1>4, <1>5, ApplyPopup DEF Ready
<1>6. Ready(After(w, rs, Len(rs)))
  <2>1. CASE Len(rs) = 0
    BY <2>1 DEF After
  <2>2. CASE Len(rs) = 1
    BY <2>2, <1>5 DEF After
  <2>3. CASE Len(rs) = 2
    <3>1. Ready(Apply(w, rs[1])) /\ Apply(w, rs[1]).editor = w.editor
      BY <2>3, <1>5
    <3>2. Ready(Apply(Apply(w, rs[1]), rs[2]))
      BY <2>3, <3>1, <1>5
    <3> QED BY <2>3, <3>2 DEF After
  <2> QED BY <2>1, <2>2, <2>3
<1> DEFINE v == After(w, rs, Len(rs))
<1>7. session' = v.session /\ editor' = v.editor /\ popup' = v.popup
  BY <1>1 DEF Become
<1> HIDE DEF v
<1>8. Ready(v)
  BY <1>6 DEF v
<1> QED BY <1>2, <1>7, <1>8
      DEF Ready, PopupOK, PopupInv, PopupWhileComposing, Composing, World

\* The state that handlers start from is ready for sessions.
LEMMA WorldReady == PopupInv => Ready(World)
BY WorldIsWorld DEF PopupInv, Ready, PopupOK, PopupWhileComposing, World

\* finalize_composition hides the popup with the word.
LEMMA FinalizePopup ==
    ASSUME PopupInv, ~Deferred, NEW w, IsWorld(w), FinalizeComposition(w),
           anchor' \in Anchors, keys' \in Nat
    PROVE  PopupInv'
<1> DEFINE fields == {c \in Context : Lives(w.doc[c], w.composition)}
           v == [w EXCEPT !.session = NoWord, !.editor = NoWord, !.compCtx = NoContext,
                      !.popup = FALSE,
                      !.finalized = @ \union {w.doc[c][Place(w.doc[c], w.composition)].text.word :
                                                 c \in fields}]
           r == Request("finalize", CHOOSE c \in fields : TRUE, NoWord)
<1>1. Ready(v)
  <2>1. NoWord \in Letters
    BY DEF Letters
  <2>2. IsWorld(v) /\ v.session = NoWord /\ v.editor = NoWord /\ v.popup = FALSE
    BY DEF IsWorld, Field
  <2> QED BY <2>1, <2>2 DEF Ready, PopupOK
<1>2. r.op = "finalize" /\ r.nth = 0
  BY DEF Request
<1>3. Run(v, <<>>) \/ Run(v, <<r>>)
  BY DEF FinalizeComposition
<1> HIDE DEF v, r
<1>4. CASE Run(v, <<>>)
  BY <1>1, <1>4, RequestsNone, RunPopup
<1>5. CASE Run(v, <<r>>)
  BY <1>1, <1>2, <1>5, RequestsOne, RunPopup DEF Op
<1> QED BY <1>3, <1>4, <1>5

\* A handler that requests nothing.
LEMMA NonePopup ==
    ASSUME PopupInv, ~Deferred, NEW w, Ready(w), Run(w, <<>>), anchor' \in Anchors, keys' \in Nat
    PROVE  PopupInv'
<1> DEFINE rs == <<>>
<1>1. IsRequests(rs) /\ Len(rs) = 0 /\ Run(w, rs)
  BY RequestsNone
<1> HIDE DEF rs
<1>2. Len(rs) \in 0..2 /\ \A i \in 1..Len(rs) : rs[i].op = "reedit" => w.editor = NoWord
  BY <1>1
<1> QED BY <1>1, <1>2, RunPopup

\* A handler that requests at most one session, not a ReEdit, or finds no editor.
LEMMA OnePopup ==
    ASSUME PopupInv, ~Deferred, NEW w, Ready(w), NEW r, r.op \in Op, r.nth \in Nat,
           r.op = "reedit" => w.editor = NoWord,
           Run(w, <<>>) \/ Run(w, <<r>>), anchor' \in Anchors, keys' \in Nat
    PROVE  PopupInv'
<1>1. CASE Run(w, <<>>)
  BY <1>1, NonePopup
<1>2. CASE Run(w, <<r>>)
  <2> DEFINE rs == <<r>>
  <2>1. IsRequests(rs) /\ Len(rs) = 1 /\ rs[1] = r
    BY RequestsOne
  <2>2. Run(w, rs)
    BY <1>2
  <2> HIDE DEF rs
  <2>3. Len(rs) \in 0..2 /\ \A i \in 1..Len(rs) : rs[i] = r
    BY <2>1
  <2> QED BY <2>1, <2>2, <2>3, RunPopup
<1> QED BY <1>1, <1>2

\* The keys that commit nothing keep it.
LEMMA PlainKeyPopup ==
    ASSUME PopupInv, ~Deferred, ServiceAssumption, NEW c \in Context,
           \/ DropDeadState(c) \/ AppendChar(c) \/ Backspace(c) \/ MoveHighlight(c)
           \/ SwitchEditor(c) \/ InsertKey(c) \/ ReEditKey(c) \/ PassKey(c)
    PROVE  PopupInv'
<1>w. /\ Ready(World) /\ IsWorld(World)
      /\ World.session = session /\ World.editor = editor /\ World.popup = popup
  BY WorldReady DEF World, Ready
<1>n. NoWord \in Letters /\ NoAnchor \in Anchors
  BY DEF Letters, NoAnchor, Anchors
<1>r. \A op \in Op : \A t : Request(op, c, t).op = op /\ Request(op, c, t).nth = 0
  BY DEF Request
<1>x. \A t \in Real : t \in Letters /\ t # NoWord
  BY DEF Real, Letters, NoWord
<1>k. keys \in Nat /\ keys + 1 \in Nat /\ anchor \in Anchors
  BY DEF PopupInv
<1>1. CASE DropDeadState(c)
  <2> DEFINE w == IF ~terminated THEN World
                  ELSE [World EXCEPT !.session = NoWord, !.editor = NoWord, !.popup = FALSE,
                                     !.composition = 0, !.compCtx = NoContext]
  <2>1. FinalizeComposition(w) \/ Run(w, <<>>)
    BY <1>1 DEF DropDeadState
  <2>2. anchor' = anchor /\ keys' = keys
    BY <1>1 DEF DropDeadState, bounds
  <2>3. Ready(w)
    BY <1>w, <1>n DEF Ready, IsWorld, Field, PopupOK
  <2> HIDE DEF w
  <2>4. CASE FinalizeComposition(w)
    BY <2>2, <2>3, <2>4, <1>k, FinalizePopup DEF Ready
  <2>5. CASE Run(w, <<>>)
    BY <2>2, <2>3, <2>5, <1>k, NonePopup
  <2> QED BY <2>1, <2>4, <2>5
<1>2. CASE AppendChar(c)
  <2> DEFINE w == [World EXCEPT !.session = Typed]
             r == Request("preview", c, NoWord)
  <2>1. Run(w, <<r>>) /\ anchor' = NoAnchor /\ keys' = keys + 1 /\ editor = NoWord
    BY <1>2 DEF AppendChar, Key
  <2>2. Typed \in Real
    <3>1. CASE session = NoWord
      BY <3>1, <1>k DEF Typed, NoWord, Real
    <3>2. CASE session \in Real
      <4>1. session # NoWord
        BY <3>2 DEF Real, NoWord
      <4>2. /\ session = [word |-> session.word, len |-> session.len, pick |-> session.pick]
            /\ session.word \in Nat \ {0} /\ session.len \in Nat
        BY <3>2 DEF Real
      <4>3. Typed = [word |-> session.word, len |-> session.len + 1, pick |-> 0]
        BY <4>1, <4>2 DEF Typed
      <4>4. session.len + 1 \in Nat \ {0}
        BY <4>2
      <4> QED BY <4>2, <4>3, <4>4 DEF Real
    <3> QED BY <3>1, <3>2 DEF PopupInv, Letters
  <2>3. Ready(w)
    <3>1. IsWorld(w) /\ w.session = Typed /\ w.editor = NoWord
      BY <1>w, <2>1 DEF IsWorld, Field
    <3> QED BY <2>2, <3>1, <1>n, <1>x DEF Ready, PopupOK, Composing
  <2>4. r.op = "preview" /\ r.nth = 0
    BY DEF Request
  <2> HIDE DEF w, r
  <2> QED BY <2>1, <2>3, <2>4, <1>k, <1>n, OnePopup DEF Op
<1>3. CASE Backspace(c)
  <2>0. anchor' = NoAnchor /\ keys' = keys + 1 /\ session # NoWord /\ editor = NoWord
    BY <1>3 DEF Backspace, Key
  <2>1. CASE session.len > 1
    <3> DEFINE w == [World EXCEPT !.session = [session EXCEPT !.len = @ - 1, !.pick = 0]]
               r == Request("preview", c, NoWord)
               t == [session EXCEPT !.len = @ - 1, !.pick = 0]
    <3>1. Run(w, <<r>>)
      BY <1>3, <2>1 DEF Backspace
    <3>2. t \in Letters /\ t # NoWord
      <4>1. session \in Real
        BY <2>0 DEF PopupInv, Letters
      <4>2. session.len \in Nat /\ session.len - 1 \in Nat \ {0}
        BY <4>1, <2>1 DEF Real
      <4> DEFINE q == [session EXCEPT !.len = session.len - 1]
      <4>3. q \in Real
        <5> DEFINE n == session.len - 1
        <5>1. n \in Nat \ {0}
          BY <4>2
        <5> HIDE DEF n
        <5>2. [session EXCEPT !.len = n] \in Real
          BY <4>1, <5>1 DEF Real
        <5> QED BY <5>2 DEF n
      <4>4. t = [q EXCEPT !.pick = 0]
        BY <4>1 DEF Real
      <4> HIDE DEF q
      <4>5. [q EXCEPT !.pick = 0] \in Real
        BY <4>3 DEF Real
      <4> HIDE DEF t
      <4> QED BY <4>4, <4>5, <1>x
    <3>3. w.session = t
      BY <1>w DEF IsWorld
    <3> HIDE DEF t
    <3>6. IsWorld(w) /\ w.editor = NoWord
      BY <1>w, <2>0 DEF IsWorld, Field
    <3>4. r.op = "preview" /\ r.nth = 0
      BY DEF Request
    <3> HIDE DEF w, r
    <3>5. Ready(w)
      BY <3>2, <3>3, <3>6, <1>n DEF Ready, PopupOK, Composing
    <3> QED BY <2>0, <3>1, <3>4, <3>5, <1>k, <1>n, OnePopup DEF Op
  <2>2. CASE ~(session.len > 1)
    <3> DEFINE w == [World EXCEPT !.session = NoWord, !.popup = FALSE,
                                  !.erased = @ \union {session.word}]
               r == Request("commit", c, NoWord)
    <3>1. Run(w, <<r>>)
      BY <1>3, <2>2 DEF Backspace
    <3>2. IsWorld(w) /\ w.session = NoWord /\ w.editor = NoWord /\ w.popup = FALSE
      BY <1>w, <2>0 DEF IsWorld, Field
    <3>3. r.op = "commit" /\ r.nth = 0
      BY DEF Request
    <3> HIDE DEF w, r
    <3>4. Ready(w)
      BY <3>2, <1>n DEF Ready, PopupOK
    <3> QED BY <2>0, <3>1, <3>3, <3>4, <1>k, <1>n, OnePopup DEF Op
  <2> QED BY <2>1, <2>2
<1>4. CASE MoveHighlight(c)
  <2> DEFINE w == [World EXCEPT !.session.pick = 1 - @]
             r == Request("preview", c, NoWord)
             t == [session EXCEPT !.pick = 1 - @]
  <2>1. Run(w, <<r>>) /\ anchor' = NoAnchor /\ keys' = keys + 1 /\ session # NoWord /\ editor = NoWord
    BY <1>4 DEF MoveHighlight, Key
  <2>2. t \in Letters /\ t # NoWord
    <3>1. session \in Real
      BY <2>1 DEF PopupInv, Letters
    <3>2. t \in Real
      BY <3>1 DEF Real
    <3> QED BY <3>2, <1>x
  <2>3. IsWorld(w) /\ w.session = t /\ w.editor = NoWord
    BY <1>w, <2>1 DEF IsWorld, Field
  <2>4. r.op = "preview" /\ r.nth = 0
    BY DEF Request
  <2> HIDE DEF w, r, t
  <2>5. Ready(w)
    BY <2>2, <2>3, <1>n DEF Ready, PopupOK, Composing
  <2> QED BY <2>1, <2>4, <2>5, <1>k, <1>n, OnePopup DEF Op
<1>5. CASE SwitchEditor(c)
  <2> DEFINE w == [World EXCEPT !.editor = IF @ = NoWord THEN session ELSE NoWord]
             r == Request("preview", c, NoWord)
  <2>1. Run(w, <<r>>) /\ anchor' = NoAnchor /\ keys' = keys + 1
    BY <1>5 DEF SwitchEditor, Key
  <2>2. session # NoWord /\ session \in Letters
    BY <1>5, <1>w DEF SwitchEditor, Composing, PopupInv
  <2>3. IsWorld(w) /\ w.session = session /\ w.editor \in {session, NoWord}
    BY <1>w DEF IsWorld, Field
  <2>4. r.op = "preview" /\ r.nth = 0
    BY DEF Request
  <2> HIDE DEF w, r
  <2>5. Ready(w)
    BY <2>2, <2>3, <1>n DEF Ready, PopupOK, Composing
  <2> QED BY <2>1, <2>4, <2>5, <1>k, <1>n, OnePopup DEF Op
<1>6. CASE InsertKey(c)
  <2> DEFINE r == Request("insert", c, Character)
  <2>1. Run(World, <<r>>) /\ anchor' = NoAnchor /\ keys' = keys + 1
    BY <1>6 DEF InsertKey, Key
  <2>2. r.op = "insert" /\ r.nth = 0
    BY DEF Request
  <2> HIDE DEF r
  <2> QED BY <2>1, <2>2, <1>w, <1>k, <1>n, OnePopup DEF Op
<1>7. CASE ReEditKey(c)
  <2>1. ~Composing(World) /\ session = NoWord /\ editor = NoWord /\ keys' = keys + 1
    BY <1>7, <1>w DEF ReEditKey, Key, Composing
  <2>2. CASE anchor.space
    <3> DEFINE v == DeleteChar(World, c)
    <3>1. Become(v) /\ queue' = queue /\ anchor' = [anchor EXCEPT !.space = FALSE]
      BY <1>7, <2>2 DEF ReEditKey, tsf
    <3>2. Keeps(World, v)
      BY <1>w, DeleteCharOnly
    <3> HIDE DEF v
    <3>3. session' = session /\ editor' = editor /\ popup' = popup
      BY <3>1, <3>2, <1>w DEF Become, Keeps
    <3>4. anchor' \in Anchors
      BY <3>1, <1>k DEF Anchors
    <3> QED BY <2>1, <3>1, <3>3, <3>4, <1>k DEF PopupInv, PopupWhileComposing, Composing, World
  <2>3. CASE ~anchor.space
    <3> DEFINE w == [World EXCEPT !.session = anchor.text]
               r == Request("reedit", c, anchor.text)
    <3>1. Run(w, <<r>>) /\ anchor' = NoAnchor
      BY <1>7, <2>3 DEF ReEditKey
    <3>2. IsWorld(w) /\ w.session = anchor.text /\ w.editor = NoWord /\ w.popup = popup
      BY <1>w, <2>1 DEF IsWorld, Field
    <3>3. r.op = "reedit" /\ r.nth = 0
      BY DEF Request
    <3> HIDE DEF w, r
    <3>4. Ready(w)
      <4>1. anchor.text \in Letters
        BY <1>k DEF Anchors
      <4>2. ~popup
        BY <2>1 DEF PopupInv, PopupWhileComposing
      <4> QED BY <3>2, <4>1, <4>2, <1>n DEF Ready, PopupOK
    <3> QED BY <2>1, <3>1, <3>2, <3>3, <3>4, <1>k, <1>n, OnePopup DEF Op
  <2> QED BY <2>2, <2>3
<1>8. CASE PassKey(c)
  <2>1. /\ UNCHANGED <<session, editor, popup, queue>>
        /\ anchor' = NoAnchor /\ keys' = keys + 1
    BY <1>8 DEF PassKey, screen, tsf
  <2> QED BY <2>1, <1>k, <1>n DEF PopupInv, PopupWhileComposing, Composing, World
<1> QED BY <1>1, <1>2, <1>3, <1>4, <1>5, <1>6, <1>7, <1>8

\* A commit hides the popup with the word.
LEMMA CommitKeyPopup ==
    ASSUME PopupInv, ~Deferred,
           \/ \E c \in Context : CommitKey(c) \/ CommitThenType(c) \/ ToggleKey(c) \/ PreservedKey(c)
           \/ ClickRow
    PROVE  PopupInv'
<1>w. /\ Ready(World) /\ IsWorld(World)
      /\ World.session = session /\ World.editor = editor /\ World.popup = popup
  BY WorldReady DEF World, Ready
<1>n. NoWord \in Letters /\ NoAnchor \in Anchors
  BY DEF Letters, NoAnchor, Anchors
<1>k. keys \in Nat /\ keys + 1 \in Nat /\ anchor \in Anchors
  BY DEF PopupInv
<1>d. /\ IsWorld(Committed(World)) /\ Committed(World).session = NoWord
      /\ Committed(World).editor = NoWord /\ Committed(World).popup = FALSE
  BY <1>w DEF Committed, IsWorld, Field
<1>e. Ready(Committed(World))
  BY <1>d, <1>n DEF Ready, PopupOK
<1>c. \A c, t, s : CommitRequest(c, t, s).op = "commit" /\ CommitRequest(c, t, s).nth = Len(committed) + 1
  BY DEF CommitRequest
<1>l. Len(committed) + 1 \in Nat
  BY LenProperties DEF PopupInv
<1>a. \A s : AnchorAfter(s) \in Anchors
  BY <1>w, <1>n DEF AnchorAfter, Anchors, Shown, PopupInv
<1>1. ASSUME NEW c, NEW t, NEW s, Run(Committed(World), <<CommitRequest(c, t, s)>>),
             anchor' \in Anchors, keys' = keys + 1
      PROVE  PopupInv'
  <2> DEFINE r == CommitRequest(c, t, s)
  <2>1. r.op = "commit" /\ r.nth \in Nat
    BY <1>c, <1>l
  <2>2. Run(Committed(World), <<r>>)
    BY <1>1
  <2> HIDE DEF r
  <2> QED BY <1>1, <2>1, <2>2, <1>e, <1>k, OnePopup DEF Op
<1>2. ASSUME NEW c \in Context, CommitKey(c) PROVE PopupInv'
  BY <1>1, <1>2, <1>a DEF CommitKey, Key
<1>3. ASSUME NEW c \in Context, CommitThenType(c) PROVE PopupInv'
  <2> DEFINE t == [word |-> keys + 1, len |-> 1, pick |-> 0]
             w == [Committed(World) EXCEPT !.session = t]
             r == CommitRequest(c, editor, <<>>)
             s == Request("preview", c, NoWord)
             rs == <<r, s>>
  <2>1. Run(w, rs) /\ anchor' = NoAnchor /\ keys' = keys + 1
    BY <1>3 DEF CommitThenType, Key
  <2>2. t \in Letters /\ t # NoWord
    BY <1>k DEF Letters, Real, NoWord
  <2>3. IsWorld(w) /\ w.session = t /\ w.editor = NoWord
    BY <1>d DEF IsWorld, Field
  <2>4. r.op = "commit" /\ r.nth \in Nat /\ s.op = "preview" /\ s.nth = 0
    BY <1>c, <1>l DEF Request
  <2> HIDE DEF w, r, s, t
  <2>5. Ready(w)
    BY <2>2, <2>3, <1>n DEF Ready, PopupOK, Composing
  <2>6. IsRequests(rs) /\ Len(rs) = 2 /\ rs[1] = r /\ rs[2] = s
    BY <2>4, RequestsTwo DEF Op
  <2> HIDE DEF rs
  <2>7. Len(rs) \in 0..2 /\ \A i \in 1..Len(rs) : rs[i].op # "reedit"
    <3>1. \A i \in 1..2 : i = 1 \/ i = 2
      OBVIOUS
    <3> QED BY <2>4, <2>6, <3>1
  <2> QED BY <2>1, <2>5, <2>6, <2>7, <1>k, <1>n, RunPopup
<1>4. ASSUME NEW c \in Context, NEW left \in Anchors, Toggle(c, left), keys' = keys + 1 PROVE PopupInv'
  <2>1. CASE Composing(World)
    BY <1>1, <1>4, <2>1, <1>a DEF Toggle
  <2>2. CASE ~Composing(World)
    <3>1. Run(World, <<>>) /\ anchor' = left
      BY <1>4, <2>2 DEF Toggle
    <3> QED BY <3>1, <1>4, <1>w, <1>k, NonePopup
  <2> QED BY <2>1, <2>2
<1>5. CASE ClickRow
  <2>1. PICK pick \in 0..1 :
          LET text == [session EXCEPT !.pick = pick]
          IN  /\ anchor' = [text |-> text, space |-> TRUE]
              /\ Run(Committed(World), <<CommitRequest(context, text, <<Plain(Space)>>)>>)
    BY <1>5 DEF ClickRow
  <2>2. session \in Real /\ keys' = keys + 1
    BY <1>5 DEF ClickRow, PopupInv, Letters
  <2>3. [session EXCEPT !.pick = pick] \in Letters
    BY <2>2 DEF Real, Letters
  <2>4. anchor' \in Anchors
    BY <2>1, <2>3 DEF Anchors
  <2> QED BY <2>1, <2>2, <2>4, <1>1
<1> QED BY <1>2, <1>3, <1>4, <1>5, <1>k, <1>n DEF ToggleKey, PreservedKey, Key

\* What the host and the user do outside the keys.
LEMMA HostPopup ==
    ASSUME PopupInv, ~Deferred,
           \/ SetFocus \/ \E gained \in BOOLEAN : ThreadFocus(gained)
           \/ \E c \in Context : MoveCaret(c) \/ CompositionTerminated(c) \/ CompositionLost(c)
           \/ RunQueued \/ Discard
    PROVE  PopupInv'
<1>w. /\ Ready(World) /\ IsWorld(World)
      /\ World.session = session /\ World.editor = editor /\ World.popup = popup
  BY WorldReady DEF World, Ready
<1>n. NoWord \in Letters /\ NoAnchor \in Anchors
  BY DEF Letters, NoAnchor, Anchors
<1>k. keys \in Nat /\ keys + 1 \in Nat /\ anchor \in Anchors
  BY DEF PopupInv
<1>r. ASSUME NEW w, Ready(w), Run(w, <<>>), anchor' = anchor, keys' = keys PROVE PopupInv'
  BY <1>r, <1>k, NonePopup
<1>1. CASE SetFocus
  BY <1>1, <1>w, <1>k, <1>n, FinalizePopup DEF SetFocus
<1>2. ASSUME NEW gained \in BOOLEAN, ThreadFocus(gained) PROVE PopupInv'
  <2>1. /\ UNCHANGED <<session, editor, anchor, queue>> /\ keys' = keys + 1
        /\ popup' = (gained /\ (popup \/ Composing(World)))
    BY <1>2 DEF ThreadFocus, engine, tsf
  <2>2. PopupWhileComposing'
    BY <2>1 DEF PopupInv, PopupWhileComposing, Composing, World
  <2>3. popup' \in BOOLEAN
    BY <2>1
  <2> QED BY <2>1, <2>2, <2>3, <1>k DEF PopupInv
<1>3. ASSUME NEW c \in Context, MoveCaret(c) PROVE PopupInv'
  <2>1. PICK at \in 0..Len(doc[c]) :
           LET w == [World EXCEPT !.caret[c] = at]
           IN  (FinalizeComposition(w) \/ Run(w, <<>>)) /\ anchor' = anchor /\ keys' = keys
    BY <1>3 DEF MoveCaret
  <2> DEFINE w == [World EXCEPT !.caret[c] = at]
  <2>2. Ready(w)
    BY <1>w DEF Ready, IsWorld, Field, PopupOK, Composing
  <2> HIDE DEF w
  <2>3. (FinalizeComposition(w) \/ Run(w, <<>>)) /\ anchor' = anchor /\ keys' = keys
    BY <2>1 DEF w
  <2> QED BY <2>2, <2>3, <1>r, <1>k, FinalizePopup DEF Ready
<1>4. ASSUME NEW c \in Context, CompositionTerminated(c) PROVE PopupInv'
  <2>1. PICK i \in DOMAIN doc[c], busy \in BOOLEAN :
          /\ Run(IF busy THEN [World EXCEPT !.doc[c] = Ended(@, i)]
                 ELSE [World EXCEPT !.doc[c] = Ended(@, i), !.session = NoWord, !.editor = NoWord,
                                    !.popup = FALSE, !.composition = 0, !.compCtx = NoContext],
                 <<>>)
          /\ anchor' = anchor /\ keys' = keys
    BY <1>4 DEF CompositionTerminated
  <2> DEFINE w == IF busy THEN [World EXCEPT !.doc[c] = Ended(@, i)]
                  ELSE [World EXCEPT !.doc[c] = Ended(@, i), !.session = NoWord, !.editor = NoWord,
                                     !.popup = FALSE, !.composition = 0, !.compCtx = NoContext]
  <2>2. Ready(w)
    BY <1>w, <1>n DEF Ready, IsWorld, Field, PopupOK, Composing
  <2>3. Run(w, <<>>)
    BY <2>1
  <2> HIDE DEF w
  <2> QED BY <2>1, <2>2, <2>3, <1>r
<1>5. ASSUME NEW c \in Context, CompositionLost(c) PROVE PopupInv'
  <2>1. UNCHANGED <<session, editor, anchor, queue, keys, popup>>
    BY <1>5 DEF CompositionLost, engine, tsf
  <2> QED BY <2>1 DEF PopupInv, PopupWhileComposing, Composing, World
<1>6. ~RunQueued
  BY DEF RunQueued, PopupInv
<1>7. ~Discard
  <2>1. DOMAIN queue = {}
    BY DEF PopupInv
  <2> QED BY <2>1 DEF Discard
<1> QED BY <1>1, <1>2, <1>3, <1>4, <1>5, <1>6, <1>7

\* The invariant holds at first ...
LEMMA PopupInit == Init => PopupInv
BY DEF Init, PopupInv, Letters, NoAnchor, Anchors, PopupWhileComposing

\* ... and every step keeps it.
LEMMA PopupStep ==
    ASSUME ServiceAssumption, Deferred = FALSE, PopupInv, [Next]_vars
    PROVE  PopupInv'
<1>1. CASE UNCHANGED vars
  BY <1>1 DEF vars, engine, screen, tsf, bounds, PopupInv, PopupWhileComposing, Composing, World
<1>2. CASE Next
  BY <1>2, PlainKeyPopup, CommitKeyPopup, HostPopup DEF Next, KeyDown
<1> QED BY <1>1, <1>2

\* Where TSF grants every session at once, the list and the editor are on screen
\* only while a word is being typed, for any number of fields, keys and letters
\* (show_popup, hide_popup and what `apply` does to the session).
THEOREM PopupOnlyWhileComposing ==
    ASSUME ServiceAssumption, Deferred = FALSE
    PROVE  Spec => []PopupWhileComposing
<1>1. PopupInv /\ [Next]_vars => PopupInv'
  BY PopupStep
<1>2. PopupInv => PopupWhileComposing
  BY DEF PopupInv
<1> QED BY <1>1, <1>2, PopupInit, PTL DEF Spec

-----------------------------------------------------------------------------
(* Documents as what stands in them.                                       *)

AnyText == [word : Nat, len : Nat, pick : 0..1]
APiece == [text : AnyText, comp : Nat]

\* Spaces and characters: pieces of no word and no composition.
Blank == {p \in APiece : p.comp = 0 /\ p.text.word = 0}

\* The pieces of a composition, and those of a word.
ByComp(n) == {p \in APiece : p.comp = n}
ByWord(n) == {p \in APiece : p.text.word = n}
Kinds == {ByComp(n) : n \in Nat \ {0}} \union {ByWord(n) : n \in Nat \ {0}}

Here(d, c) == {d[c][i] : i \in DOMAIN d[c]}
Absent(d, Q) == \A c \in Context : \A p \in Here(d, c) : p \notin Q
Single(d, Q) == \A b, c \in Context : \A i \in DOMAIN d[b], j \in DOMAIN d[c] :
                    d[b][i] \in Q /\ d[c][j] \in Q => b = c /\ i = j

\* e is d after the piece in A, if any, made room for the one in X, if any, in f;
\* blanks come and go.
Edit(d, e, f, A, X) ==
    /\ \A c \in Context : \A p \in Here(e, c) : p \in Here(d, c) \/ p \in Blank \/ (c = f /\ p \in X)
    /\ \A c \in Context : \A p \in Here(d, c) : p \in Here(e, c) \/ p \in Blank \/ (c = f /\ p \in A)
    /\ A \subseteq Here(d, f) /\ X \subseteq Here(e, f)
    /\ \A Q \in Kinds : Single(d, Q) /\ (X \cap Q = {} \/ A \cap Q # {} \/ Absent(d, Q)) => Single(e, Q)
    /\ \A Q \in Kinds : Single(d, Q) /\ A \cap Q # {} /\ X \cap Q = {} => Absent(e, Q)

\* e comes from s: the piece at k was at m[k], or is new; the piece at `at` is gone.
Mapped(s, e, m, at, new) ==
    /\ s \in Seq(APiece) /\ e \in Seq(APiece)
    /\ m \in [1..Len(e) -> 0..Len(s)] /\ at \in 0..Len(s) /\ new \in 0..Len(e)
    /\ \A k \in 1..Len(e) : m[k] # 0 => m[k] # at /\ e[k] = s[m[k]]
    /\ \A k \in 1..Len(e) : m[k] = 0 /\ k # new => e[k] \in Blank
    /\ new # 0 => m[new] = 0
    /\ \A k, l \in 1..Len(e) : m[k] = m[l] /\ m[k] # 0 => k = l
    /\ \A i \in 1..Len(s) : i = at \/ \E k \in 1..Len(e) : m[k] = i
At(s, i) == IF i = 0 THEN {} ELSE {s[i]}

\* A piece of a word or of a composition is no blank.
LEMMA KindsNotBlank ==
    ASSUME NEW Q \in Kinds
    PROVE  Q \cap Blank = {} /\ Q \subseteq APiece
BY DEF Kinds, Blank, ByComp, ByWord

\* What stands in a field, by position.
LEMMA HereIs ==
    ASSUME NEW d, NEW c, d[c] \in Seq(APiece)
    PROVE  /\ DOMAIN d[c] = 1..Len(d[c]) /\ Len(d[c]) \in Nat
           /\ \A i \in 1..Len(d[c]) : d[c][i] \in Here(d, c) /\ d[c][i] \in APiece
           /\ \A p \in Here(d, c) : p \in APiece /\ \E i \in 1..Len(d[c]) : p = d[c][i]
<1>1. DOMAIN d[c] = 1..Len(d[c]) /\ Len(d[c]) \in Nat /\ \A i \in 1..Len(d[c]) : d[c][i] \in APiece
  OBVIOUS
<1> QED BY <1>1 DEF Here

\* A sequence made of another one's pieces is an edit of the document.
LEMMA MappedEdit ==
    ASSUME NEW d \in [Context -> Seq(APiece)], NEW f \in Context, NEW t, NEW m, NEW at, NEW new,
           Mapped(d[f], t, m, at, new), NEW e \in [Context -> Seq(APiece)],
           e[f] = t, \A c \in Context : c # f => e[c] = d[c]
    PROVE  Edit(d, e, f, At(d[f], at), At(t, new))
<1> DEFINE s == d[f]
           A == At(s, at)
           X == At(t, new)
<1>1. e \in [Context -> Seq(APiece)] /\ e[f] = t /\ \A c \in Context : c # f => e[c] = d[c]
  OBVIOUS
<1>2. \A c \in Context : c # f => Here(e, c) = Here(d, c)
  BY <1>1 DEF Here
<1>s. /\ DOMAIN s = 1..Len(s) /\ Len(s) \in Nat
      /\ \A i \in 1..Len(s) : s[i] \in Here(d, f) /\ s[i] \in APiece
      /\ \A p \in Here(d, f) : \E i \in 1..Len(s) : p = s[i]
  BY HereIs
<1>t. /\ DOMAIN t = 1..Len(t) /\ Len(t) \in Nat /\ \A i \in 1..Len(t) : t[i] \in APiece
      /\ \A i \in 1..Len(t) : t[i] \in Here(e, f)
      /\ \A p \in Here(e, f) : \E i \in 1..Len(t) : p = t[i]
  <2>1. t \in Seq(APiece) /\ e[f] \in Seq(APiece)
    BY <1>1 DEF Mapped
  <2>2. /\ DOMAIN e[f] = 1..Len(e[f]) /\ Len(e[f]) \in Nat
        /\ \A i \in 1..Len(e[f]) : e[f][i] \in Here(e, f) /\ e[f][i] \in APiece
        /\ \A p \in Here(e, f) : p \in APiece /\ \E i \in 1..Len(e[f]) : p = e[f][i]
    BY <2>1, HereIs
  <2> HIDE DEF Here
  <2> QED BY <1>1, <2>2
<1>k. \A k \in 1..Len(t) : m[k] \in 0..Len(s)
  BY <1>t DEF Mapped
<1>m. /\ \A k \in 1..Len(t) : m[k] \in 0..Len(s)
      /\ \A k \in 1..Len(t) : m[k] # 0 => m[k] # at /\ t[k] = s[m[k]] /\ m[k] \in 1..Len(s)
      /\ \A k \in 1..Len(t) : m[k] = 0 /\ k # new => t[k] \in Blank
      /\ new # 0 => m[new] = 0 /\ new \in 1..Len(t)
      /\ \A k, l \in 1..Len(t) : m[k] = m[l] /\ m[k] # 0 => k = l
      /\ \A i \in 1..Len(s) : i = at \/ \E k \in 1..Len(t) : m[k] = i
      /\ at # 0 => at \in 1..Len(s)
  <2>1. at \in 0..Len(s) /\ new \in 0..Len(t)
    BY DEF Mapped
  <2>2. /\ at # 0 => at \in 1..Len(s)
        /\ new # 0 => new \in 1..Len(t)
        /\ \A k \in 1..Len(t) : m[k] # 0 => m[k] \in 1..Len(s)
    BY <1>s, <1>t, <1>k, <2>1
  <2> QED BY <1>s, <1>t, <1>k, <2>2 DEF Mapped
<1>a. /\ at # 0 => A = {s[at]}
      /\ at = 0 => A = {}
      /\ new # 0 => X = {t[new]}
      /\ new = 0 => X = {}
  BY DEF At
<1> HIDE DEF s, A, X
<1>3. \A c \in Context : \A p \in Here(e, c) : p \in Here(d, c) \/ p \in Blank \/ (c = f /\ p \in X)
  <2> SUFFICES ASSUME NEW k \in 1..Len(t)
               PROVE  t[k] \in Here(d, f) \/ t[k] \in Blank \/ t[k] \in X
    BY <1>2, <1>t
  <2>1. CASE m[k] # 0
    BY <2>1, <1>m, <1>s
  <2>2. CASE m[k] = 0 /\ k = new
    <3>1. new # 0
      BY <2>2, <1>t
    <3> QED BY <2>2, <3>1, <1>a
  <2>3. CASE m[k] = 0 /\ k # new
    BY <2>3, <1>m
  <2> QED BY <2>1, <2>2, <2>3
<1>4. \A c \in Context : \A p \in Here(d, c) : p \in Here(e, c) \/ p \in Blank \/ (c = f /\ p \in A)
  <2> SUFFICES ASSUME NEW i \in 1..Len(s)
               PROVE  s[i] \in Here(e, f) \/ s[i] \in A
    BY <1>2, <1>s
  <2>1. CASE i = at
    <3>1. at # 0
      BY <2>1, <1>s
    <3> QED BY <2>1, <3>1, <1>a
  <2>2. ASSUME NEW k \in 1..Len(t), m[k] = i PROVE s[i] \in Here(e, f)
    <3>1. m[k] # 0
      BY <2>2, <1>s
    <3>2. t[k] = s[m[k]] /\ t[k] \in Here(e, f)
      BY <3>1, <1>m, <1>t
    <3> QED BY <2>2, <3>2
  <2> QED BY <2>1, <2>2, <1>m
<1>5. A \subseteq Here(d, f) /\ X \subseteq Here(e, f)
  BY <1>a, <1>m, <1>s, <1>t
\* A piece of e in Q was one of d, at another place than `at`, or is the new one.
<1>6. ASSUME NEW Q \in Kinds, NEW c \in Context, NEW i \in DOMAIN e[c], e[c][i] \in Q
      PROVE  \/ c = f /\ i = new /\ new # 0 /\ t[new] \in Q
             \/ c = f /\ m[i] # 0 /\ m[i] \in DOMAIN d[c] /\ m[i] # at /\ d[c][m[i]] \in Q
             \/ c # f /\ i \in DOMAIN d[c] /\ d[c][i] \in Q
  <2>1. CASE c # f
    BY <2>1, <1>1, <1>6
  <2>2. CASE c = f
    <3>1. i \in 1..Len(t) /\ t[i] \in Q
      BY <2>2, <1>1, <1>6, <1>t
    <3>2. t[i] \notin Blank
      BY <3>1, KindsNotBlank
    <3>3. CASE m[i] = 0
      BY <2>2, <3>1, <3>2, <3>3, <1>m, <1>t
    <3>4. CASE m[i] # 0
      BY <2>2, <3>1, <3>4, <1>m, <1>s DEF s
    <3> QED BY <3>3, <3>4
  <2> QED BY <2>1, <2>2
<1>q. ASSUME NEW Q \in Kinds, Single(d, Q)
      PROVE  \A c \in Context : \A j \in DOMAIN d[c] : A \cap Q # {} /\ d[c][j] \in Q => c = f /\ j = at
  <2> SUFFICES ASSUME A \cap Q # {}
               PROVE  \A c \in Context : \A j \in DOMAIN d[c] : d[c][j] \in Q => c = f /\ j = at
    OBVIOUS
  <2>1. at # 0 /\ at \in DOMAIN d[f] /\ d[f][at] \in Q
    BY <1>a, <1>m, <1>s DEF s
  <2> QED BY <2>1, <1>q DEF Single
<1>7. ASSUME NEW Q \in Kinds, Single(d, Q), X \cap Q = {} \/ A \cap Q # {} \/ Absent(d, Q)
      PROVE  Single(e, Q)
  <2> SUFFICES ASSUME NEW b \in Context, NEW c \in Context, NEW i \in DOMAIN e[b], NEW j \in DOMAIN e[c],
                      e[b][i] \in Q, e[c][j] \in Q
               PROVE  b = c /\ i = j
    BY DEF Single
  <2>n. ASSUME new # 0, t[new] \in Q
        PROVE  \A a \in Context : \A k \in DOMAIN d[a] : d[a][k] \in Q => a = f /\ k = at
    <3>1. X \cap Q # {}
      BY <1>a, <2>n
    <3>2. CASE A \cap Q # {}
      BY <3>2, <1>7, <1>q
    <3>3. CASE Absent(d, Q)
      BY <3>3 DEF Absent, Here
    <3> QED BY <3>1, <3>2, <3>3, <1>7
  <2>1. \/ b = f /\ i = new /\ new # 0 /\ t[new] \in Q
        \/ b = f /\ m[i] # 0 /\ m[i] \in DOMAIN d[b] /\ m[i] # at /\ d[b][m[i]] \in Q
        \/ b # f /\ i \in DOMAIN d[b] /\ d[b][i] \in Q
    BY <1>6
  <2>2. \/ c = f /\ j = new /\ new # 0 /\ t[new] \in Q
        \/ c = f /\ m[j] # 0 /\ m[j] \in DOMAIN d[c] /\ m[j] # at /\ d[c][m[j]] \in Q
        \/ c # f /\ j \in DOMAIN d[c] /\ d[c][j] \in Q
    BY <1>6
  <2>3. CASE new # 0 /\ t[new] \in Q
    BY <2>1, <2>2, <2>3, <2>n
  <2>4. CASE ~(new # 0 /\ t[new] \in Q)
    <3>1. \A x, y : x \in DOMAIN d[b] /\ y \in DOMAIN d[c] /\ d[b][x] \in Q /\ d[c][y] \in Q => b = c /\ x = y
      BY <1>7 DEF Single
    <3>2. CASE b = f /\ c = f
      <4>1. m[i] = m[j] /\ m[i] # 0
        BY <3>1, <3>2, <2>1, <2>2, <2>4
      <4>2. i \in 1..Len(t) /\ j \in 1..Len(t)
        BY <3>2, <1>1, <1>t
      <4> QED BY <3>2, <4>1, <4>2, <1>m
    <3>3. CASE ~(b = f /\ c = f)
      BY <3>1, <3>3, <2>1, <2>2, <2>4
    <3> QED BY <3>2, <3>3
  <2> QED BY <2>3, <2>4
<1>8. ASSUME NEW Q \in Kinds, Single(d, Q), A \cap Q # {}, X \cap Q = {}
      PROVE  Absent(e, Q)
  <2> SUFFICES ASSUME NEW c \in Context, NEW i \in DOMAIN e[c], e[c][i] \in Q PROVE FALSE
    BY DEF Absent, Here
  <2>1. ~(new # 0 /\ t[new] \in Q)
    BY <1>8, <1>a
  <2> QED BY <2>1, <1>6, <1>8, <1>q
<1> QED BY <1>1, <1>3, <1>4, <1>5, <1>7, <1>8 DEF Edit, A, X, s

\* A part of a sequence.
LEMMA PartOf ==
    ASSUME NEW s \in Seq(APiece), NEW a \in Nat \ {0}, NEW b \in Nat, b <= Len(s)
    PROVE  /\ SubSeq(s, a, b) \in Seq(APiece)
           /\ Len(SubSeq(s, a, b)) = IF a <= b THEN b - a + 1 ELSE 0
           /\ \A i \in 1..Len(SubSeq(s, a, b)) : SubSeq(s, a, b)[i] = s[a + i - 1]
<1>1. \A i \in a..b : s[i] \in APiece
  BY ElementOfSeq
<1>2. /\ SubSeq(s, a, b) \in Seq(APiece)
      /\ Len(SubSeq(s, a, b)) = IF a <= b THEN b - a + 1 ELSE 0
      /\ \A i \in 1..b-a+1 : SubSeq(s, a, b)[i] = s[a + i - 1]
  BY <1>1, SubSeqProperties
<1> QED BY <1>2

Insertion(s, k, ps) == SubSeq(s, 1, k) \o ps \o SubSeq(s, k + 1, Len(s))

\* Pieces inserted after the first k: what stands where.
LEMMA Inserted ==
    ASSUME NEW s \in Seq(APiece), NEW k \in 0..Len(s), NEW ps \in Seq(APiece),
           NEW t, t = Insertion(s, k, ps)
    PROVE  /\ t \in Seq(APiece) /\ Len(t) = Len(s) + Len(ps)
           /\ \A j \in 1..Len(t) : t[j] = IF j <= k THEN s[j]
                                          ELSE IF j <= k + Len(ps) THEN ps[j - k] ELSE s[j - Len(ps)]
<1> DEFINE a == SubSeq(s, 1, k)
           b == SubSeq(s, k + 1, Len(s))
           ab == a \o ps
<1>0. Len(s) \in Nat /\ Len(ps) \in Nat /\ k \in Nat /\ k <= Len(s)
  OBVIOUS
<1>1. a \in Seq(APiece) /\ Len(a) = k /\ \A i \in 1..k : a[i] = s[i]
  <2>1. /\ a \in Seq(APiece) /\ Len(a) = (IF 1 <= k THEN k - 1 + 1 ELSE 0)
        /\ \A i \in 1..Len(a) : a[i] = s[1 + i - 1]
    BY <1>0, PartOf
  <2> HIDE DEF a
  <2>2. Len(a) = k
    BY <1>0, <2>1
  <2>3. \A i \in 1..k : 1 + i - 1 = i
    OBVIOUS
  <2> QED BY <2>1, <2>2, <2>3
<1>2. /\ b \in Seq(APiece) /\ Len(b) = Len(s) - k
      /\ \A i \in 1..Len(s) - k : b[i] = s[k + i]
  <2>1. k + 1 \in Nat \ {0} /\ Len(s) <= Len(s)
    BY <1>0
  <2>2. /\ b \in Seq(APiece) /\ Len(b) = (IF k + 1 <= Len(s) THEN Len(s) - (k + 1) + 1 ELSE 0)
        /\ \A i \in 1..Len(b) : b[i] = s[(k + 1) + i - 1]
    BY <1>0, <2>1, PartOf
  <2> HIDE DEF b
  <2>3. Len(b) = Len(s) - k
    BY <1>0, <2>2
  <2>4. \A i \in 1..Len(b) : (k + 1) + i - 1 = k + i
    BY <1>0, <2>3
  <2> QED BY <2>2, <2>3, <2>4
<1> HIDE DEF a, b
<1>3. /\ ab \in Seq(APiece) /\ Len(ab) = k + Len(ps)
      /\ \A j \in 1..k + Len(ps) : ab[j] = IF j <= k THEN a[j] ELSE ps[j - k]
  BY <1>1, ConcatProperties
<1>4. Insertion(s, k, ps) = ab \o b
  BY DEF a, b, Insertion
<1> HIDE DEF ab
<1>5. /\ t \in Seq(APiece) /\ Len(t) = (k + Len(ps)) + (Len(s) - k)
      /\ \A j \in 1..(k + Len(ps)) + (Len(s) - k) :
             t[j] = IF j <= k + Len(ps) THEN ab[j] ELSE b[j - (k + Len(ps))]
  <2>1. /\ ab \o b \in Seq(APiece) /\ Len(ab \o b) = Len(ab) + Len(b)
        /\ \A j \in 1..Len(ab) + Len(b) :
               (ab \o b)[j] = IF j <= Len(ab) THEN ab[j] ELSE b[j - Len(ab)]
    BY <1>2, <1>3, ConcatProperties
  <2> QED BY <1>2, <1>3, <1>4, <2>1
<1>6. Len(t) = Len(s) + Len(ps)
  BY <1>0, <1>5
<1>7. ASSUME NEW j \in 1..Len(t)
      PROVE  t[j] = IF j <= k THEN s[j]
                    ELSE IF j <= k + Len(ps) THEN ps[j - k] ELSE s[j - Len(ps)]
  <2>0. t[j] = IF j <= k + Len(ps) THEN ab[j] ELSE b[j - (k + Len(ps))]
    BY <1>5
  <2>1. CASE j <= k
    <3>1. j <= k + Len(ps) /\ j \in 1..k + Len(ps) /\ j \in 1..k
      BY <1>0, <2>1
    <3> QED BY <2>0, <2>1, <3>1, <1>1, <1>3
  <2>2. CASE ~(j <= k) /\ j <= k + Len(ps)
    <3>1. j \in 1..k + Len(ps)
      BY <1>0, <2>2
    <3> QED BY <2>0, <2>2, <3>1, <1>3
  <2>3. CASE ~(j <= k) /\ ~(j <= k + Len(ps))
    <3>1. /\ j - (k + Len(ps)) \in 1..Len(s) - k
          /\ k + (j - (k + Len(ps))) = j - Len(ps)
      BY <1>0, <1>6, <2>3
    <3>2. b[j - (k + Len(ps))] = s[k + (j - (k + Len(ps)))]
      BY <1>2, <3>1
    <3> QED BY <2>0, <2>3, <3>1, <3>2
  <2> QED BY <2>1, <2>2, <2>3
<1> QED BY <1>5, <1>6, <1>7

\* Inserting is an edit: of ps only the first piece may be more than a blank.
LEMMA InsertMapped ==
    ASSUME NEW s \in Seq(APiece), NEW k \in 0..Len(s), NEW ps \in Seq(APiece), NEW n \in 0..1,
           n <= Len(ps), \A j \in 1..Len(ps) : j # n => ps[j] \in Blank,
           NEW t, t = Insertion(s, k, ps)
    PROVE  \E m, new : Mapped(s, t, m, 0, new) /\ At(t, new) = At(ps, n)
<1> DEFINE L == Len(ps)
           m == [j \in 1..Len(t) |-> IF j <= k THEN j ELSE IF j <= k + L THEN 0 ELSE j - L]
           new == IF n = 0 THEN 0 ELSE k + 1
<1>1. /\ t \in Seq(APiece) /\ Len(t) = Len(s) + L
      /\ \A j \in 1..Len(t) : t[j] = IF j <= k THEN s[j]
                                     ELSE IF j <= k + L THEN ps[j - k] ELSE s[j - L]
  BY Inserted
<1>2. Len(s) \in Nat /\ L \in Nat /\ k \in Nat /\ k <= Len(s) /\ Len(t) \in Nat
  BY <1>1
<1> HIDE DEF L
<1>3. m \in [1..Len(t) -> 0..Len(s)]
  BY <1>1, <1>2
<1>4. new \in 0..Len(t)
  BY <1>1, <1>2 DEF L
<1>5. ASSUME NEW j \in 1..Len(t)
      PROVE  /\ m[j] # 0 => t[j] = s[m[j]]
             /\ m[j] = 0 /\ j # new => t[j] \in Blank
  <2>1. CASE j <= k
    BY <2>1, <1>1, <1>2
  <2>2. CASE ~(j <= k) /\ j <= k + L
    <3>1. m[j] = 0 /\ t[j] = ps[j - k] /\ j - k \in 1..L
      BY <2>2, <1>1, <1>2
    <3>2. j # new => j - k # n
      BY <2>2, <1>2
    <3> QED BY <3>1, <3>2 DEF L
  <2>3. CASE ~(j <= k) /\ ~(j <= k + L)
    BY <2>3, <1>1, <1>2
  <2> QED BY <2>1, <2>2, <2>3
<1>6. new # 0 => m[new] = 0
  BY <1>1, <1>2 DEF L
<1>7. \A i, j \in 1..Len(t) : m[i] = m[j] /\ m[i] # 0 => i = j
  BY <1>1, <1>2
<1>8. ASSUME NEW i \in 1..Len(s) PROVE \E j \in 1..Len(t) : m[j] = i
  <2>1. CASE i <= k
    BY <2>1, <1>1, <1>2
  <2>2. CASE ~(i <= k)
    <3>1. i + L \in 1..Len(t) /\ m[i + L] = i
      BY <2>2, <1>1, <1>2
    <3> QED BY <3>1
  <2> QED BY <2>1, <2>2
<1>9. At(t, new) = At(ps, n)
  <2>1. CASE n = 0
    BY <2>1 DEF At
  <2>2. CASE n = 1
    <3>1. k + 1 \in 1..Len(t) /\ ~(k + 1 <= k) /\ k + 1 <= k + L /\ (k + 1) - k = 1 /\ k + 1 # 0
      BY <2>2, <1>1, <1>2 DEF L
    <3>2. t[k + 1] = ps[1]
      BY <3>1, <1>1
    <3> QED BY <2>2, <3>1, <3>2 DEF At
  <2> QED BY <2>1, <2>2
<1> HIDE DEF m, new
<1>10. Mapped(s, t, m, 0, new)
  BY <1>1, <1>2, <1>3, <1>4, <1>5, <1>6, <1>7, <1>8 DEF Mapped
<1> QED BY <1>9, <1>10

\* Replacing a piece is an edit.
LEMMA ReplaceMapped ==
    ASSUME NEW s \in Seq(APiece), NEW at \in 1..Len(s), NEW x \in APiece,
           NEW t, t = [s EXCEPT ![at] = x]
    PROVE  /\ t \in Seq(APiece) /\ Len(t) = Len(s) /\ t[at] = x
           /\ \E m : Mapped(s, t, m, at, IF x \in Blank THEN 0 ELSE at)
<1> DEFINE m == [j \in 1..Len(s) |-> IF j = at THEN 0 ELSE j]
<1>1. /\ t \in Seq(APiece) /\ Len(t) = Len(s) /\ t[at] = x
      /\ \A j \in 1..Len(s) : j # at => t[j] = s[j]
  OBVIOUS
<1>2. Len(s) \in Nat
  OBVIOUS
<1>3. /\ m \in [1..Len(t) -> 0..Len(s)]
      /\ \A j \in 1..Len(t) : m[j] = IF j = at THEN 0 ELSE j
  BY <1>1, <1>2
<1> HIDE DEF m
<1>4. \A j \in 1..Len(t) : /\ m[j] # 0 => m[j] # at /\ t[j] = s[m[j]]
                           /\ m[j] = 0 => j = at
  BY <1>1, <1>2, <1>3
<1>5. \A i, j \in 1..Len(t) : m[i] = m[j] /\ m[i] # 0 => i = j
  BY <1>3
<1>6. \A i \in 1..Len(s) : i = at \/ \E j \in 1..Len(t) : m[j] = i
  BY <1>1, <1>3
<1>7. Mapped(s, t, m, at, IF x \in Blank THEN 0 ELSE at)
  <2>1. CASE x \in Blank
    <3>1. at \in 0..Len(s) /\ 0 \in 0..Len(t)
      BY <1>1, <1>2
    <3>2. Mapped(s, t, m, at, 0)
      BY <1>1, <1>3, <1>4, <1>5, <1>6, <2>1, <3>1 DEF Mapped
    <3> QED BY <2>1, <3>2
  <2>2. CASE x \notin Blank
    <3>1. at \in 0..Len(s) /\ at \in 0..Len(t) /\ m[at] = 0
      BY <1>1, <1>2, <1>3
    <3>2. Mapped(s, t, m, at, at)
      BY <1>1, <1>3, <1>4, <1>5, <1>6, <2>2, <3>1 DEF Mapped
    <3> QED BY <2>2, <3>2
  <2> QED BY <2>1, <2>2
<1> QED BY <1>1, <1>7

\* Removing a piece is an edit.
LEMMA RemoveMapped ==
    ASSUME NEW s \in Seq(APiece), NEW at \in 1..Len(s), NEW t, t = RemoveAt(s, at)
    PROVE  /\ t \in Seq(APiece) /\ Len(t) = Len(s) - 1
           /\ \E m : Mapped(s, t, m, at, 0)
<1> DEFINE a == SubSeq(s, 1, at - 1)
           b == SubSeq(s, at + 1, Len(s))
           m == [j \in 1..Len(s) - 1 |-> IF j < at THEN j ELSE j + 1]
<1>0. Len(s) \in Nat /\ at \in Nat /\ at >= 1 /\ at <= Len(s)
  OBVIOUS
<1>1. a \in Seq(APiece) /\ Len(a) = at - 1 /\ \A i \in 1..at - 1 : a[i] = s[i]
  <2>0. 1 \in Nat \ {0} /\ at - 1 \in Nat /\ at - 1 <= Len(s)
    BY <1>0
  <2>1. /\ a \in Seq(APiece) /\ Len(a) = (IF 1 <= at - 1 THEN (at - 1) - 1 + 1 ELSE 0)
        /\ \A i \in 1..Len(a) : a[i] = s[1 + i - 1]
    BY <2>0, PartOf
  <2> HIDE DEF a
  <2>2. Len(a) = at - 1
    BY <1>0, <2>1
  <2>3. \A i \in 1..at - 1 : 1 + i - 1 = i
    BY <1>0
  <2> QED BY <2>1, <2>2, <2>3
<1>2. /\ b \in Seq(APiece) /\ Len(b) = Len(s) - at
      /\ \A i \in 1..Len(s) - at : b[i] = s[at + i]
  <2>1. at + 1 \in Nat \ {0} /\ Len(s) <= Len(s)
    BY <1>0
  <2>2. /\ b \in Seq(APiece) /\ Len(b) = (IF at + 1 <= Len(s) THEN Len(s) - (at + 1) + 1 ELSE 0)
        /\ \A i \in 1..Len(b) : b[i] = s[(at + 1) + i - 1]
    BY <1>0, <2>1, PartOf
  <2> HIDE DEF b
  <2>3. Len(b) = Len(s) - at
    BY <1>0, <2>2
  <2>4. \A i \in 1..Len(b) : (at + 1) + i - 1 = at + i
    BY <1>0, <2>3
  <2> QED BY <2>2, <2>3, <2>4
<1>3. RemoveAt(s, at) = a \o b
  BY DEF RemoveAt
<1> HIDE DEF a, b
<1>4. /\ t \in Seq(APiece) /\ Len(t) = (at - 1) + (Len(s) - at)
      /\ \A j \in 1..(at - 1) + (Len(s) - at) : t[j] = IF j <= at - 1 THEN a[j] ELSE b[j - (at - 1)]
  <2>1. /\ a \o b \in Seq(APiece) /\ Len(a \o b) = Len(a) + Len(b)
        /\ \A j \in 1..Len(a) + Len(b) :
               (a \o b)[j] = IF j <= Len(a) THEN a[j] ELSE b[j - Len(a)]
    BY <1>1, <1>2, ConcatProperties
  <2> QED BY <1>1, <1>2, <1>3, <2>1
<1>5. Len(t) = Len(s) - 1
  BY <1>0, <1>4
<1>6. ASSUME NEW j \in 1..Len(s) - 1 PROVE t[j] = s[IF j < at THEN j ELSE j + 1]
  <2>0. t[j] = IF j <= at - 1 THEN a[j] ELSE b[j - (at - 1)]
    BY <1>4, <1>5
  <2>1. CASE j < at
    <3>1. j \in 1..at - 1 /\ j <= at - 1
      BY <1>0, <2>1
    <3> QED BY <2>0, <2>1, <3>1, <1>1
  <2>2. CASE ~(j < at)
    <3>1. /\ ~(j <= at - 1) /\ j - (at - 1) \in 1..Len(s) - at
          /\ at + (j - (at - 1)) = j + 1
      BY <1>0, <2>2
    <3>2. b[j - (at - 1)] = s[at + (j - (at - 1))]
      BY <1>2, <3>1
    <3> QED BY <2>0, <2>2, <3>1, <3>2
  <2> QED BY <2>1, <2>2
<1>7. /\ m \in [1..Len(t) -> 0..Len(s)]
      /\ \A j \in 1..Len(t) : m[j] = IF j < at THEN j ELSE j + 1
  BY <1>0, <1>5
<1> HIDE DEF m
<1>8. \A j \in 1..Len(t) : m[j] # 0 /\ m[j] # at /\ t[j] = s[m[j]]
  BY <1>0, <1>5, <1>6, <1>7
<1>9. \A i, j \in 1..Len(t) : m[i] = m[j] /\ m[i] # 0 => i = j
  BY <1>0, <1>7
<1>10. ASSUME NEW i \in 1..Len(s), i # at PROVE \E j \in 1..Len(t) : m[j] = i
  <2>1. CASE i < at
    <3>1. i \in 1..Len(t) /\ m[i] = i
      BY <2>1, <1>0, <1>5, <1>7
    <3> QED BY <3>1
  <2>2. CASE ~(i < at)
    <3>1. i - 1 \in 1..Len(t) /\ m[i - 1] = i
      BY <2>2, <1>0, <1>5, <1>7, <1>10
    <3> QED BY <3>1
  <2> QED BY <2>1, <2>2
<1>11. at \in 0..Len(s) /\ 0 \in 0..Len(t)
  BY <1>0, <1>5
<1>12. Mapped(s, t, m, at, 0)
  BY <1>4, <1>7, <1>8, <1>9, <1>10, <1>11 DEF Mapped
<1> QED BY <1>4, <1>5, <1>12

-----------------------------------------------------------------------------
(* What each edit session does to a document.                              *)

\* A world whose documents and carets are such; v is w with another document.
DocOK(w) ==
    /\ IsWorld(w) /\ w.doc \in [Context -> Seq(APiece)] /\ w.caret \in [Context -> Nat]
    /\ \A c \in Context : w.caret[c] <= Len(w.doc[c])
Frame(w, v) ==
    /\ v.session = w.session /\ v.editor = w.editor /\ v.composition = w.composition
    /\ v.compCtx = w.compCtx /\ v.popup = w.popup
    /\ v.erased = w.erased /\ v.finalized = w.finalized

\* What the edits do to the text and the caret of one field.
LEMMA InsertFields ==
    ASSUME NEW w, DocOK(w), NEW c \in Context, NEW ps
    PROVE  LET v == InsertAtCaret(w, c, ps)
           IN  /\ IsWorld(v) /\ Frame(w, v)
               /\ v.doc = [w.doc EXCEPT ![c] = Insertion(w.doc[c], w.caret[c], ps)]
               /\ v.caret = [w.caret EXCEPT ![c] = w.caret[c] + Len(ps)]
BY DEF InsertAtCaret, DocOK, IsWorld, Field, Frame, Insertion

\* ... SetText replaces the piece of the composition ...
LEMMA SetTextFields ==
    ASSUME NEW w, DocOK(w), NEW c \in Context, NEW t, NEW n
    PROVE  LET v == SetText(w, c, t, n)
               at == Place(w.doc[c], w.composition)
           IN  /\ IsWorld(v) /\ Frame(w, v)
               /\ v.doc = [w.doc EXCEPT ![c] = [w.doc[c] EXCEPT ![at] = [text |-> t, comp |-> n]]]
               /\ v.caret = [w.caret EXCEPT ![c] = at]
BY DEF SetText, DocOK, IsWorld, Field, Frame

\* ... and Delete takes the piece before the caret.
LEMMA DeleteFields ==
    ASSUME NEW w, DocOK(w), NEW c \in Context
    PROVE  LET v == Delete(w, c)
           IN  /\ IsWorld(v) /\ Frame(w, v)
               /\ v.doc = [w.doc EXCEPT ![c] = RemoveAt(w.doc[c], w.caret[c])]
               /\ v.caret = [w.caret EXCEPT ![c] = w.caret[c] - 1]
BY DEF Delete, DocOK, IsWorld, Field, Frame

\* A field whose text comes from its old text by an edit.
LEMMA FieldEdit ==
    ASSUME NEW w, DocOK(w), NEW c \in Context, NEW v, IsWorld(v),
           v.doc \in [Context -> Seq(APiece)], \A b \in Context : b # c => v.doc[b] = w.doc[b],
           v.caret \in [Context -> Nat], \A b \in Context : b # c => v.caret[b] = w.caret[b],
           v.caret[c] <= Len(v.doc[c]),
           NEW m, NEW at, NEW new, Mapped(w.doc[c], v.doc[c], m, at, new)
    PROVE  DocOK(v) /\ Edit(w.doc, v.doc, c, At(w.doc[c], at), At(v.doc[c], new))
<1>1. w.doc \in [Context -> Seq(APiece)]
  BY DEF DocOK
<1>2. Edit(w.doc, v.doc, c, At(w.doc[c], at), At(v.doc[c], new))
  BY <1>1, MappedEdit
<1>3. \A b \in Context : v.caret[b] <= Len(v.doc[b])
  BY DEF DocOK
<1> QED BY <1>2, <1>3 DEF DocOK

\* insert_at_caret: of ps only the first piece may be more than a blank.
LEMMA InsertOp ==
    ASSUME NEW w, DocOK(w), NEW c \in Context, NEW ps \in Seq(APiece), NEW n \in 0..1,
           n <= Len(ps), \A j \in 1..Len(ps) : j # n => ps[j] \in Blank
    PROVE  LET v == InsertAtCaret(w, c, ps)
           IN  Frame(w, v) /\ DocOK(v) /\ Edit(w.doc, v.doc, c, {}, At(ps, n))
<1> DEFINE v == InsertAtCaret(w, c, ps)
           s == w.doc[c]
           k == w.caret[c]
           t == Insertion(s, k, ps)
<1>1. /\ IsWorld(v) /\ Frame(w, v)
      /\ v.doc = [w.doc EXCEPT ![c] = t] /\ v.caret = [w.caret EXCEPT ![c] = k + Len(ps)]
  BY InsertFields
<1>2. s \in Seq(APiece) /\ k \in 0..Len(s) /\ Len(s) \in Nat /\ Len(ps) \in Nat
  BY DEF DocOK
<1> HIDE DEF v, s, k, t
<1>3. t \in Seq(APiece) /\ Len(t) = Len(s) + Len(ps)
  BY <1>2, Inserted DEF t
<1>4. PICK m, new : Mapped(s, t, m, 0, new) /\ At(t, new) = At(ps, n)
  BY <1>2, InsertMapped DEF t
<1>5. k + Len(ps) \in Nat /\ k + Len(ps) <= Len(t)
  BY <1>2, <1>3
<1>6. DocOK(v) /\ Edit(w.doc, v.doc, c, At(w.doc[c], 0), At(t, new))
  <2>1. /\ v.doc \in [Context -> Seq(APiece)] /\ v.doc[c] = t
        /\ \A b \in Context : b # c => v.doc[b] = w.doc[b]
        /\ v.caret \in [Context -> Nat] /\ v.caret[c] = k + Len(ps)
        /\ \A b \in Context : b # c => v.caret[b] = w.caret[b]
    BY <1>1, <1>3, <1>5 DEF DocOK
  <2>2. Mapped(w.doc[c], v.doc[c], m, 0, new) /\ v.caret[c] <= Len(v.doc[c])
    BY <1>4, <1>5, <2>1 DEF s
  <2>3. DocOK(v) /\ Edit(w.doc, v.doc, c, At(w.doc[c], 0), At(v.doc[c], new))
    BY <1>1, <2>1, <2>2, FieldEdit
  <2> QED BY <2>1, <2>3
<1>7. At(w.doc[c], 0) = {}
  BY DEF At
<1> QED BY <1>1, <1>4, <1>6, <1>7 DEF v

\* The live composition n of a field has a place there.
LEMMA PlaceIs ==
    ASSUME NEW s \in Seq(APiece), NEW n, Lives(s, n)
    PROVE  Place(s, n) \in 1..Len(s) /\ s[Place(s, n)].comp = n /\ n # 0
<1>1. DOMAIN s = 1..Len(s) /\ \E i \in DOMAIN s : s[i].comp = n
  BY DEF Lives
<1>2. Place(s, n) \in DOMAIN s /\ s[Place(s, n)].comp = n
  BY <1>1 DEF Place
<1> QED BY <1>1, <1>2 DEF Lives

\* A piece that replaces another one, unless it is blank.
LEMMA AtReplaced ==
    ASSUME NEW t, NEW i \in Nat \ {0}, NEW x, t[i] = x
    PROVE  At(t, IF x \in Blank THEN 0 ELSE i) = {x} \ Blank
BY DEF At

\* SetText in the field where the composition lives.
LEMMA SetTextOp ==
    ASSUME NEW w, DocOK(w), NEW c \in Context, Lives(w.doc[c], w.composition),
           NEW y \in AnyText, NEW n \in Nat
    PROVE  LET v == SetText(w, c, y, n)
               x == [text |-> y, comp |-> n]
           IN  /\ Frame(w, v) /\ DocOK(v)
               /\ \E a \in Here(w.doc, c) :
                      a.comp = w.composition /\ Edit(w.doc, v.doc, c, {a}, {x} \ Blank)
               /\ v.caret[c] \in 1..Len(v.doc[c])
               /\ x \in Blank => v.doc[c][v.caret[c]] \in Blank
<1> DEFINE v == SetText(w, c, y, n)
           x == [text |-> y, comp |-> n]
           s == w.doc[c]
           at == Place(s, w.composition)
           t == [s EXCEPT ![at] = x]
<1>1. /\ IsWorld(v) /\ Frame(w, v)
      /\ v.doc = [w.doc EXCEPT ![c] = t] /\ v.caret = [w.caret EXCEPT ![c] = at]
  BY SetTextFields
<1>2. s \in Seq(APiece)
  BY DEF DocOK
<1>3. at \in 1..Len(s) /\ s[at].comp = w.composition
  BY <1>2, PlaceIs
<1>x. x \in APiece
  BY DEF APiece
<1> HIDE DEF v, s, at, x
<1>4. /\ t \in Seq(APiece) /\ Len(t) = Len(s) /\ t[at] = x
      /\ \E m : Mapped(s, t, m, at, IF x \in Blank THEN 0 ELSE at)
  BY <1>2, <1>3, <1>x, ReplaceMapped
<1> HIDE DEF t
<1>5. PICK m : Mapped(s, t, m, at, IF x \in Blank THEN 0 ELSE at)
  BY <1>4
<1>6. at \in Nat \ {0} /\ at <= Len(t) /\ Len(t) \in Nat
  BY <1>2, <1>3, <1>4
<1>7. /\ DocOK(v) /\ v.doc[c] = t /\ v.caret[c] = at
      /\ Edit(w.doc, v.doc, c, At(w.doc[c], at), At(t, IF x \in Blank THEN 0 ELSE at))
  <2> DEFINE new == IF x \in Blank THEN 0 ELSE at
  <2>1. /\ v.doc \in [Context -> Seq(APiece)] /\ v.doc[c] = t
        /\ \A b \in Context : b # c => v.doc[b] = w.doc[b]
        /\ v.caret \in [Context -> Nat] /\ v.caret[c] = at
        /\ \A b \in Context : b # c => v.caret[b] = w.caret[b]
    BY <1>1, <1>4, <1>6 DEF DocOK
  <2>2. Mapped(w.doc[c], v.doc[c], m, at, new) /\ v.caret[c] <= Len(v.doc[c])
    BY <1>5, <1>6, <2>1 DEF s
  <2> HIDE DEF new
  <2>3. DocOK(v) /\ Edit(w.doc, v.doc, c, At(w.doc[c], at), At(v.doc[c], new))
    BY <1>1, <2>1, <2>2, FieldEdit
  <2> QED BY <2>1, <2>3 DEF new
<1>8. At(t, IF x \in Blank THEN 0 ELSE at) = {x} \ Blank
  BY <1>4, <1>6, AtReplaced
<1>9. At(w.doc[c], at) = {s[at]} /\ s[at] \in Here(w.doc, c)
  <2>1. At(w.doc[c], at) = {s[at]}
    BY <1>6 DEF At, s
  <2> QED BY <2>1, <1>2, <1>3, HereIs DEF s
<1>10. v.caret[c] \in 1..Len(v.doc[c]) /\ v.doc[c][v.caret[c]] = x
  BY <1>3, <1>4, <1>7
<1>11. \E a \in Here(w.doc, c) : a.comp = w.composition /\ Edit(w.doc, v.doc, c, {a}, {x} \ Blank)
  BY <1>3, <1>7, <1>8, <1>9
<1> QED BY <1>1, <1>7, <1>10, <1>11 DEF v, x

\* Delete the piece before the caret.
LEMMA DeleteOp ==
    ASSUME NEW w, DocOK(w), NEW c \in Context, w.caret[c] # 0
    PROVE  LET v == Delete(w, c)
               a == w.doc[c][w.caret[c]]
           IN  /\ Frame(w, v) /\ DocOK(v) /\ a \in Here(w.doc, c)
               /\ Edit(w.doc, v.doc, c, {a}, {})
<1> DEFINE v == Delete(w, c)
           s == w.doc[c]
           at == w.caret[c]
           t == RemoveAt(s, at)
<1>1. /\ IsWorld(v) /\ Frame(w, v)
      /\ v.doc = [w.doc EXCEPT ![c] = t] /\ v.caret = [w.caret EXCEPT ![c] = at - 1]
  BY DeleteFields
<1>2. s \in Seq(APiece) /\ at \in 1..Len(s)
  BY DEF DocOK
<1>3. s[at] \in Here(w.doc, c)
  BY <1>2, HereIs
<1> HIDE DEF v, s, at
<1>4. t \in Seq(APiece) /\ Len(t) = Len(s) - 1 /\ \E m : Mapped(s, t, m, at, 0)
  BY <1>2, RemoveMapped
<1> HIDE DEF t
<1>5. PICK m : Mapped(s, t, m, at, 0)
  BY <1>4
<1>6. at - 1 \in Nat /\ at - 1 <= Len(t) /\ at # 0
  BY <1>2, <1>4
<1>7. DocOK(v) /\ Edit(w.doc, v.doc, c, At(w.doc[c], at), At(t, 0))
  <2>1. /\ v.doc \in [Context -> Seq(APiece)] /\ v.doc[c] = t
        /\ \A b \in Context : b # c => v.doc[b] = w.doc[b]
        /\ v.caret \in [Context -> Nat] /\ v.caret[c] = at - 1
        /\ \A b \in Context : b # c => v.caret[b] = w.caret[b]
    BY <1>1, <1>4, <1>6 DEF DocOK
  <2>2. Mapped(w.doc[c], v.doc[c], m, at, 0) /\ v.caret[c] <= Len(v.doc[c])
    BY <1>5, <1>6, <2>1 DEF s
  <2>3. DocOK(v) /\ Edit(w.doc, v.doc, c, At(w.doc[c], at), At(v.doc[c], 0))
    BY <1>1, <2>1, <2>2, FieldEdit
  <2> QED BY <2>1, <2>3
<1>8. At(w.doc[c], at) = {s[at]} /\ At(t, 0) = {}
  BY <1>6 DEF At, s
<1> QED BY <1>1, <1>3, <1>7, <1>8 DEF v, s, at

\* Nothing changed.
LEMMA EditNone ==
    ASSUME NEW d, NEW e, \A c \in Context : e[c] = d[c], NEW f
    PROVE  Edit(d, e, f, {}, {})
<1>1. \A c \in Context : Here(e, c) = Here(d, c)
  BY DEF Here
<1>2. \A Q : Single(d, Q) => Single(e, Q)
  BY DEF Single
<1> QED BY <1>1, <1>2 DEF Edit

\* Blanks that come or go afterwards do not count.
LEMMA EditThenBlank ==
    ASSUME NEW d, NEW u, NEW e, NEW f \in Context, NEW A, NEW X, NEW B, Edit(d, u, f, A, X),
           Edit(u, e, f, B, {}), B \subseteq Blank, X \cap Blank = {}
    PROVE  Edit(d, e, f, A, X)
<1>1. \A c \in Context : \A p \in Here(e, c) : p \in Here(u, c) \/ p \in Blank
  BY DEF Edit
<1>2. \A c \in Context : \A p \in Here(u, c) : p \in Here(e, c) \/ p \in Blank
  BY DEF Edit
<1>3. \A Q \in Kinds : Single(u, Q) => Single(e, Q)
  BY DEF Edit
<1>4. ASSUME NEW Q \in Kinds, Absent(u, Q) PROVE Absent(e, Q)
  BY <1>1, <1>4, KindsNotBlank DEF Absent
<1>5. A \subseteq Here(d, f) /\ X \subseteq Here(u, f)
  BY DEF Edit
<1>6. X \subseteq Here(e, f)
  BY <1>2, <1>5
<1>7. \A c \in Context : \A p \in Here(e, c) : p \in Here(d, c) \/ p \in Blank \/ (c = f /\ p \in X)
  BY <1>1 DEF Edit
<1>8. \A c \in Context : \A p \in Here(d, c) : p \in Here(e, c) \/ p \in Blank \/ (c = f /\ p \in A)
  BY <1>2 DEF Edit
<1>9. \A Q \in Kinds : Single(d, Q) /\ (X \cap Q = {} \/ A \cap Q # {} \/ Absent(d, Q)) => Single(e, Q)
  BY <1>3 DEF Edit
<1>10. \A Q \in Kinds : Single(d, Q) /\ A \cap Q # {} /\ X \cap Q = {} => Absent(e, Q)
  BY <1>4 DEF Edit
<1> QED BY <1>5, <1>6, <1>7, <1>8, <1>9, <1>10 DEF Edit

\* The pieces a commit brings.
Word(t) == IF t = NoWord THEN {} ELSE {Plain(t)}

\* What `commit` may put after the word.
LEMMA SuffixIsBlank ==
    ASSUME NEW s \in Suffix
    PROVE  s \in Seq(APiece) /\ Len(s) \in Nat /\ \A j \in 1..Len(s) : s[j] \in Blank
<1>1. Plain(Space) \in APiece /\ Plain(Character) \in APiece
  BY DEF Plain, Space, NoWord, Character, APiece, AnyText
<1>2. Plain(Space) \in Blank /\ Plain(Character) \in Blank
  BY <1>1 DEF Plain, Space, NoWord, Character, Blank
<1> HIDE DEF Space, Character
<1>3. CASE s = <<>>
  BY <1>3
<1>4. CASE s = <<Plain(Space)>>
  BY <1>4, <1>1, <1>2
<1>5. CASE s = <<Plain(Character)>>
  BY <1>5, <1>1, <1>2
<1> QED BY <1>3, <1>4, <1>5 DEF Suffix

\* A word is no blank.
LEMMA WordIsText ==
    ASSUME NEW t \in Letters
    PROVE  /\ t \in AnyText /\ Plain(t) \in APiece /\ Word(t) \cap Blank = {}
           /\ {Plain(t)} \ Blank = Word(t)
           /\ t # NoWord => t \in Real /\ t.word \in Nat \ {0}
<1>1. t \in AnyText /\ (t # NoWord => t \in Real /\ t.word \in Nat \ {0})
  BY DEF Letters, Real, NoWord, AnyText
<1>2. Plain(t) \in APiece /\ Plain(t).text = t /\ Plain(t).comp = 0
  BY <1>1 DEF Plain, APiece
<1>3. t = NoWord => Plain(t) \in Blank
  BY <1>2 DEF Blank, NoWord
<1>4. t # NoWord => Plain(t) \notin Blank
  BY <1>1, <1>2 DEF Blank
<1> QED BY <1>1, <1>2, <1>3, <1>4 DEF Word

\* v is w with another document and no composition.
Ends(w, v) ==
    /\ v.session = w.session /\ v.editor = w.editor /\ v.popup = w.popup
    /\ v.erased = w.erased /\ v.finalized = w.finalized
    /\ v.composition = 0 /\ v.compCtx = NoContext

\* The word with what follows it.
LEMMA WordAndSuffix ==
    ASSUME NEW t \in Letters, t # NoWord, NEW s \in Suffix
    PROVE  LET ps == <<Plain(t)>> \o s
           IN  ps \in Seq(APiece) /\ 1 <= Len(ps) /\ ps[1] = Plain(t)
               /\ \A j \in 1..Len(ps) : j # 1 => ps[j] \in Blank
<1> DEFINE q == <<Plain(t)>>
           ps == q \o s
<1>1. s \in Seq(APiece) /\ Len(s) \in Nat /\ \A j \in 1..Len(s) : s[j] \in Blank
  BY SuffixIsBlank
<1>2. q \in Seq(APiece) /\ Len(q) = 1 /\ q[1] = Plain(t)
  <2>1. Plain(t) \in APiece
    BY WordIsText
  <2> HIDE DEF Plain
  <2> QED BY <2>1
<1> HIDE DEF q
<1>3. /\ ps \in Seq(APiece) /\ Len(ps) = Len(q) + Len(s)
      /\ \A i \in 1..Len(q) + Len(s) : ps[i] = IF i <= Len(q) THEN q[i] ELSE s[i - Len(q)]
  BY <1>1, <1>2, ConcatProperties
<1> HIDE DEF ps
<1>4. 1 <= Len(ps) /\ ps[1] = Plain(t)
  BY <1>1, <1>2, <1>3
<1>5. ASSUME NEW j \in 1..Len(ps), j # 1 PROVE ps[j] \in Blank
  <2>1. j - 1 \in 1..Len(s) /\ ps[j] = s[j - 1]
    BY <1>1, <1>2, <1>3, <1>5
  <2> QED BY <2>1, <1>1
<1> QED BY <1>3, <1>4, <1>5 DEF ps, q

\* DocOp::Commit: the word replaces the composition, or goes to the caret.
LEMMA CommitOp ==
    ASSUME NEW w, DocOK(w), NEW c \in Context, NEW op, op.text \in Letters, op.suffix \in Suffix
    PROVE  LET v == Commit(w, c, op)
           IN  /\ Ends(w, v) /\ DocOK(v)
               /\ TakesText(w, c) =>
                      \E a \in Here(w.doc, c) :
                          a.comp = w.composition /\ a.comp # 0 /\ Edit(w.doc, v.doc, c, {a}, Word(op.text))
               /\ ~TakesText(w, c) => Edit(w.doc, v.doc, c, {}, Word(op.text))
<1> DEFINE v == Commit(w, c, op)
           done == [w EXCEPT !.composition = 0, !.compCtx = NoContext,
                             !.landed = IF op.nth = 0 THEN @ ELSE Append(@, op.nth)]
           set == SetText(w, c, op.text, 0)
           shown == [done EXCEPT !.doc = set.doc, !.caret = set.caret]
           word == IF op.text = NoWord THEN <<>> ELSE <<Plain(op.text)>>
           X == Word(op.text)
<1>0. v = IF ~TakesText(w, c) THEN InsertAtCaret(done, c, word \o op.suffix)
          ELSE IF op.text = NoWord THEN Delete(shown, c)
          ELSE InsertAtCaret(shown, c, op.suffix)
  BY DEF Commit
<1>1. IsWorld(w)
  BY DEF DocOK
<1>2. IsWorld(done) /\ Ends(w, done) /\ done.doc = w.doc /\ done.caret = w.caret
  BY <1>1 DEF IsWorld, Field, Ends
<1> HIDE DEF v, done
<1>3. DocOK(done)
  BY <1>2 DEF DocOK
<1>t. /\ op.text \in AnyText /\ Plain(op.text) \in APiece /\ X \cap Blank = {}
      /\ {Plain(op.text)} \ Blank = X
  BY WordIsText
<1>s. op.suffix \in Seq(APiece) /\ Len(op.suffix) \in Nat /\ \A j \in 1..Len(op.suffix) : op.suffix[j] \in Blank
  BY SuffixIsBlank
<1>f. \A u, x : Ends(w, u) /\ Frame(u, x) => Ends(w, x)
  BY DEF Ends, Frame
<1>4. ASSUME ~TakesText(w, c)
      PROVE  Ends(w, v) /\ DocOK(v) /\ Edit(w.doc, v.doc, c, {}, X)
  <2> DEFINE ps == word \o op.suffix
  <2>1. CASE op.text = NoWord
    <3>1. ps = op.suffix
      <4>1. ps = <<>> \o op.suffix
        BY <2>1
      <4> QED BY <4>1, <1>s, ConcatEmptySeq
    <3>2. v = InsertAtCaret(done, c, op.suffix)
      BY <1>0, <1>4, <3>1
    <3>3. /\ Frame(done, v) /\ DocOK(v) /\ Edit(done.doc, v.doc, c, {}, At(op.suffix, 0))
      BY <1>3, <1>s, <3>2, InsertOp
    <3>4. At(op.suffix, 0) = {} /\ X = {}
      BY <2>1 DEF At, Word
    <3> QED BY <1>2, <1>f, <3>3, <3>4
  <2>2. CASE op.text # NoWord
    <3>1. /\ ps \in Seq(APiece) /\ 1 <= Len(ps) /\ ps[1] = Plain(op.text)
          /\ \A j \in 1..Len(ps) : j # 1 => ps[j] \in Blank
      <4>1. ps = <<Plain(op.text)>> \o op.suffix
        BY <2>2
      <4> QED BY <4>1, <2>2, WordAndSuffix
    <3>2. v = InsertAtCaret(done, c, ps)
      BY <1>0, <1>4
    <3> HIDE DEF ps
    <3>3. /\ Frame(done, v) /\ DocOK(v) /\ Edit(done.doc, v.doc, c, {}, At(ps, 1))
      BY <1>3, <3>1, <3>2, InsertOp
    <3>4. At(ps, 1) = X
      BY <2>2, <3>1 DEF At, Word
    <3> QED BY <1>2, <1>f, <3>3, <3>4
  <2> QED BY <2>1, <2>2
<1>5. ASSUME TakesText(w, c)
      PROVE  /\ Ends(w, v) /\ DocOK(v)
             /\ \E a \in Here(w.doc, c) :
                    a.comp = w.composition /\ a.comp # 0 /\ Edit(w.doc, v.doc, c, {a}, X)
  <2>1. Lives(w.doc[c], w.composition)
    BY <1>5 DEF TakesText
  <2>2. w.composition # 0
    BY <2>1 DEF Lives
  <2> DEFINE x == [text |-> op.text, comp |-> 0]
  <2>3. /\ Frame(w, set) /\ DocOK(set)
        /\ \E a \in Here(w.doc, c) :
               a.comp = w.composition /\ Edit(w.doc, set.doc, c, {a}, {x} \ Blank)
        /\ set.caret[c] \in 1..Len(set.doc[c])
        /\ x \in Blank => set.doc[c][set.caret[c]] \in Blank
    BY <1>t, <2>1, SetTextOp
  <2>4. {x} \ Blank = X
    BY <1>t DEF Plain
  <2> HIDE DEF set
  <2>5. PICK a \in Here(w.doc, c) : a.comp = w.composition /\ Edit(w.doc, set.doc, c, {a}, X)
    BY <2>3, <2>4
  <2>6. IsWorld(shown) /\ Ends(w, shown) /\ shown.doc = set.doc /\ shown.caret = set.caret
    BY <1>2 DEF IsWorld, Field, Ends
  <2> HIDE DEF shown
  <2>7. DocOK(shown)
    BY <2>3, <2>6 DEF DocOK
  <2>8. CASE op.text = NoWord
    <3>1. v = Delete(shown, c)
      BY <1>0, <1>5, <2>8
    <3>2. shown.caret[c] # 0
      BY <2>3, <2>6
    <3>3. LET b == shown.doc[c][shown.caret[c]]
          IN  /\ Frame(shown, v) /\ DocOK(v) /\ Edit(shown.doc, v.doc, c, {b}, {})
      BY <2>7, <3>1, <3>2, DeleteOp
    <3>4. shown.doc[c][shown.caret[c]] \in Blank
      <4>1. X = {}
        BY <2>8 DEF Word
      <4>2. x \in Blank
        BY <2>4, <4>1
      <4> QED BY <2>3, <2>6, <4>2
    <3> DEFINE B == {shown.doc[c][shown.caret[c]]}
    <3>5. B \subseteq Blank /\ Edit(set.doc, v.doc, c, B, {})
      BY <2>6, <3>3, <3>4
    <3> HIDE DEF B
    <3>6. Edit(w.doc, v.doc, c, {a}, X)
      BY <1>t, <2>5, <3>5, EditThenBlank
    <3> QED BY <1>f, <2>2, <2>5, <2>6, <3>3, <3>6
  <2>9. CASE op.text # NoWord
    <3>1. v = InsertAtCaret(shown, c, op.suffix)
      BY <1>0, <1>5, <2>9
    <3>2. /\ Frame(shown, v) /\ DocOK(v) /\ Edit(shown.doc, v.doc, c, {}, At(op.suffix, 0))
      BY <1>s, <2>7, <3>1, InsertOp
    <3>3. Edit(set.doc, v.doc, c, {}, {})
      BY <2>6, <3>2 DEF At
    <3>4. Edit(w.doc, v.doc, c, {a}, X)
      BY <1>t, <2>5, <3>3, EditThenBlank
    <3> QED BY <1>f, <2>2, <2>5, <2>6, <3>2, <3>4
  <2> QED BY <2>8, <2>9
<1> QED BY <1>4, <1>5 DEF v, X

\* Some composition number is not used.
FreeNumber(d) == \E n \in 1..MaxKeys + 1 : \A c \in Context : ~Lives(d[c], n)

\* Then the number start_composition takes is free.
LEMMA FreshIsFree ==
    ASSUME MaxKeys \in Nat, NEW w, DocOK(w), FreeNumber(w.doc)
    PROVE  Fresh(w) \in Nat \ {0} /\ Absent(w.doc, ByComp(Fresh(w)))
<1>1. Fresh(w) \in 1..MaxKeys + 1 /\ \A c \in Context : ~Lives(w.doc[c], Fresh(w))
  BY DEF FreeNumber, Fresh
<1>2. Fresh(w) \in Nat \ {0}
  BY <1>1
<1> HIDE DEF Fresh
<1>3. ASSUME NEW c \in Context, NEW p \in Here(w.doc, c), p.comp = Fresh(w) PROVE FALSE
  <2>1. \E i \in DOMAIN w.doc[c] : w.doc[c][i].comp = Fresh(w)
    BY <1>3 DEF Here
  <2> QED BY <1>1, <1>2, <2>1 DEF Lives
<1> QED BY <1>2, <1>3 DEF Absent, ByComp

\* v is w with the word shown in c by the composition n.
Previewed(w, v, c) ==
    /\ v.session = w.session /\ v.editor = w.editor
    /\ v.erased = w.erased /\ v.finalized = w.finalized
    /\ IF TakesText(w, c) THEN v.composition = w.composition /\ v.compCtx = w.compCtx
       ELSE v.composition \in Nat \ {0} /\ v.compCtx = c /\ Absent(w.doc, ByComp(v.composition))

\* DocOp::Preview: the word replaces what the composition shows, or a new one
\* starts at the caret.
LEMMA PreviewOp ==
    ASSUME MaxKeys \in Nat, NEW w, DocOK(w), NEW c \in Context, Composing(w), Shown(w) \in Real,
           FreeNumber(w.doc)
    PROVE  LET v == Preview(w, c)
               x == [text |-> Shown(w), comp |-> v.composition]
           IN  /\ Previewed(w, v, c) /\ DocOK(v)
               /\ TakesText(w, c) =>
                      \E a \in Here(w.doc, c) :
                          a.comp = w.composition /\ a.comp # 0 /\ Edit(w.doc, v.doc, c, {a}, {x})
               /\ ~TakesText(w, c) => Edit(w.doc, v.doc, c, {}, {x})
<1> DEFINE v == Preview(w, c)
           t == Shown(w)
           u == IF TakesText(w, c) THEN SetText(w, c, t, w.composition) ELSE StartComposition(w, c)
<1>1. v = [u EXCEPT !.popup = TRUE]
  BY DEF Preview
<1>2. ASSUME IsWorld(u)
      PROVE  /\ IsWorld(v) /\ v.doc = u.doc /\ v.caret = u.caret /\ v.session = u.session
             /\ v.editor = u.editor /\ v.erased = u.erased /\ v.finalized = u.finalized
             /\ v.composition = u.composition /\ v.compCtx = u.compCtx
  BY <1>1, <1>2 DEF IsWorld, Field
<1>t. t \in AnyText /\ t \in Real /\ t.word # 0
  BY DEF Real, AnyText
<1> HIDE DEF v, t
<1>x. ASSUME NEW n \in Nat
      PROVE  [text |-> t, comp |-> n] \in APiece /\ {[text |-> t, comp |-> n]} \ Blank = {[text |-> t, comp |-> n]}
  <2> DEFINE y == [text |-> t, comp |-> n]
  <2>1. y \in APiece /\ y.text = t
    BY <1>t DEF APiece
  <2> HIDE DEF y
  <2>2. y \notin Blank
    BY <1>t, <2>1 DEF Blank
  <2> QED BY <2>1, <2>2 DEF y
<1>3. CASE TakesText(w, c)
  <2>1. Lives(w.doc[c], w.composition) /\ u = SetText(w, c, t, w.composition)
    BY <1>3 DEF TakesText
  <2>2. w.composition \in Nat /\ w.composition # 0
    <3>1. w.doc[c] \in Seq(APiece)
      BY DEF DocOK
    <3>2. PICK i \in 1..Len(w.doc[c]) : w.doc[c][i].comp = w.composition
      BY <2>1, <3>1, PlaceIs
    <3>3. w.doc[c][i] \in APiece
      BY <3>1, <3>2
    <3> QED BY <2>1, <3>2, <3>3 DEF APiece, Lives
  <2> HIDE DEF u
  <2> DEFINE n == w.composition
             x == [text |-> t, comp |-> n]
  <2>3. /\ Frame(w, u) /\ DocOK(u)
        /\ \E a \in Here(w.doc, c) : a.comp = w.composition /\ Edit(w.doc, u.doc, c, {a}, {x} \ Blank)
    BY <1>t, <2>1, <2>2, SetTextOp
  <2>4. {x} \ Blank = {x}
    BY <2>2, <1>x
  <2>5. IsWorld(u)
    BY <2>3 DEF DocOK
  <2>6. DocOK(v) /\ Previewed(w, v, c)
    BY <1>2, <1>3, <2>3, <2>5 DEF DocOK, Previewed, Frame
  <2>7. PICK a \in Here(w.doc, c) : a.comp = w.composition /\ Edit(w.doc, u.doc, c, {a}, {x})
    BY <2>3, <2>4
  <2>8. x = [text |-> t, comp |-> v.composition]
    BY <1>2, <2>3, <2>5 DEF Frame
  <2>9. Edit(w.doc, v.doc, c, {a}, {[text |-> t, comp |-> v.composition]})
    BY <1>2, <2>5, <2>7, <2>8
  <2> QED BY <1>3, <2>2, <2>6, <2>7, <2>9 DEF v, t
<1>4. CASE ~TakesText(w, c)
  <2> DEFINE n == Fresh(w)
             x == [text |-> t, comp |-> n]
             ps == <<x>>
             s == InsertAtCaret(w, c, ps)
  <2>1. n \in Nat \ {0} /\ Absent(w.doc, ByComp(n))
    BY FreshIsFree
  <2>2. u = [s EXCEPT !.composition = n, !.compCtx = c]
    BY <1>4 DEF StartComposition, t
  <2> HIDE DEF n, u, s
  <2>3. x \in APiece /\ {x} \ Blank = {x}
    BY <2>1, <1>x
  <2> HIDE DEF x
  <2>4. ps \in Seq(APiece) /\ Len(ps) = 1 /\ ps[1] = x
    BY <2>3
  <2> HIDE DEF ps
  <2>5. \A j \in 1..Len(ps) : j # 1 => ps[j] \in Blank
    BY <2>4
  <2>o. 1 \in 0..1 /\ 1 <= Len(ps)
    BY <2>4
  <2>6. Frame(w, s) /\ DocOK(s) /\ Edit(w.doc, s.doc, c, {}, At(ps, 1))
    BY <2>4, <2>5, <2>o, InsertOp DEF s
  <2>7. At(ps, 1) = {x}
    BY <2>4 DEF At
  <2>8. IsWorld(s)
    BY <2>6 DEF DocOK
  <2>9. /\ IsWorld(u) /\ u.doc = s.doc /\ u.caret = s.caret /\ u.session = s.session
        /\ u.editor = s.editor /\ u.erased = s.erased /\ u.finalized = s.finalized
        /\ u.composition = n /\ u.compCtx = c
    BY <2>2, <2>8 DEF IsWorld, Field
  <2>10. DocOK(v) /\ Previewed(w, v, c)
    BY <1>2, <1>4, <2>1, <2>6, <2>9 DEF DocOK, Previewed, Frame
  <2>11. x = [text |-> t, comp |-> v.composition]
    BY <1>2, <2>9 DEF x
  <2>12. Edit(w.doc, v.doc, c, {}, {[text |-> t, comp |-> v.composition]})
    BY <1>2, <2>6, <2>7, <2>9, <2>11
  <2> QED BY <1>4, <2>10, <2>12 DEF v, t
<1> QED BY <1>3, <1>4 DEF v

\* One piece of a field is another one now.
LEMMA ReplaceOp ==
    ASSUME NEW w, DocOK(w), NEW c \in Context, NEW v, IsWorld(v),
           v.doc \in [Context -> Seq(APiece)], \A b \in Context : b # c => v.doc[b] = w.doc[b],
           NEW i \in 1..Len(w.doc[c]), Len(v.doc[c]) = Len(w.doc[c]),
           \A j \in 1..Len(w.doc[c]) : j # i => v.doc[c][j] = w.doc[c][j],
           \A b \in Context : v.caret[b] = w.caret[b], v.caret \in [Context -> Nat]
    PROVE  DocOK(v) /\ Edit(w.doc, v.doc, c, {w.doc[c][i]}, {v.doc[c][i]} \ Blank)
<1> DEFINE s == w.doc[c]
           t == v.doc[c]
           x == t[i]
<1>1. s \in Seq(APiece) /\ t \in Seq(APiece) /\ i \in 1..Len(s) /\ Len(t) = Len(s) /\ Len(s) \in Nat
  BY DEF DocOK
<1>2. \A j \in 1..Len(s) : j # i => t[j] = s[j]
  OBVIOUS
<1>3. w.caret[c] <= Len(w.doc[c]) /\ v.caret[c] = w.caret[c]
  BY DEF DocOK
<1> HIDE DEF s, t
<1>4. x \in APiece /\ t = [s EXCEPT ![i] = x]
  <2>1. x \in APiece
    BY <1>1
  <2>2. [s EXCEPT ![i] = x] \in Seq(APiece) /\ Len([s EXCEPT ![i] = x]) = Len(s)
    BY <1>1, <2>1
  <2>3. \A j \in 1..Len(s) : [s EXCEPT ![i] = x][j] = t[j]
    BY <1>1, <1>2
  <2> DEFINE r == [s EXCEPT ![i] = x]
  <2>4. r \in Seq(APiece) /\ Len(r) = Len(t) /\ \A j \in 1..Len(t) : t[j] = r[j]
    BY <1>1, <2>2, <2>3
  <2> HIDE DEF r
  <2>5. t = r
    BY <1>1, <2>4, SeqEqual
  <2> QED BY <2>1, <2>5 DEF r
<1> HIDE DEF x
<1> DEFINE new == IF x \in Blank THEN 0 ELSE i
<1>5. PICK m : Mapped(s, t, m, i, new)
  BY <1>1, <1>4, ReplaceMapped
<1> HIDE DEF new
<1>6. Mapped(w.doc[c], v.doc[c], m, i, new)
  BY <1>5 DEF s, t
<1>7. DocOK(v) /\ Edit(w.doc, v.doc, c, At(w.doc[c], i), At(v.doc[c], new))
  <2>1. v.caret[c] <= Len(v.doc[c])
    BY <1>3
  <2> QED BY <1>6, <2>1, FieldEdit
<1>8. At(w.doc[c], i) = {w.doc[c][i]}
  BY <1>1 DEF At
<1>9. At(v.doc[c], new) = {x} \ Blank
  <2>1. i \in Nat \ {0} /\ t[i] = x
    BY <1>1 DEF x
  <2>2. i # 0
    BY <1>1
  <2> QED BY <2>1, <2>2 DEF At, new, t
<1> QED BY <1>7, <1>8, <1>9 DEF x, t

\* The piece that is no composition any more.
Freed(a) == {Plain(a.text)} \ Blank

\* A field whose composition at i has ended.
LEMMA EndedOp ==
    ASSUME NEW w, DocOK(w), NEW c \in Context, NEW i \in DOMAIN w.doc[c], NEW v, IsWorld(v),
           v.doc = [w.doc EXCEPT ![c] = Ended(w.doc[c], i)], v.caret = w.caret
    PROVE  LET a == w.doc[c][i]
           IN  DocOK(v) /\ a \in Here(w.doc, c) /\ Edit(w.doc, v.doc, c, {a}, Freed(a))
<1> DEFINE s == w.doc[c]
           a == s[i]
           t == Ended(s, i)
<1>1. s \in Seq(APiece) /\ i \in 1..Len(s) /\ a \in APiece /\ a \in Here(w.doc, c)
  BY DEF DocOK, Here
<1>2. t \in Seq(APiece) /\ Len(t) = Len(s) /\ t[i] = Plain(a.text) /\ \A j \in 1..Len(s) : j # i => t[j] = s[j]
  <2>1. [a EXCEPT !.comp = 0] = Plain(a.text) /\ Plain(a.text) \in APiece
    BY <1>1 DEF APiece, Plain
  <2>2. t = [s EXCEPT ![i] = Plain(a.text)]
    BY <2>1 DEF Ended
  <2> DEFINE p == Plain(a.text)
  <2> HIDE DEF p, t, s
  <2>3. p \in APiece /\ t = [s EXCEPT ![i] = p]
    BY <2>1, <2>2 DEF p
  <2> QED BY <1>1, <2>3 DEF p
<1>3. w.doc \in [Context -> Seq(APiece)] /\ w.caret \in [Context -> Nat]
  BY DEF DocOK
<1>4. v.doc = [w.doc EXCEPT ![c] = t]
  OBVIOUS
<1> HIDE DEF t
<1>5. /\ v.doc \in [Context -> Seq(APiece)] /\ v.doc[c] = t
      /\ \A b \in Context : b # c => v.doc[b] = w.doc[b]
  BY <1>2, <1>3, <1>4
<1>6. v.caret \in [Context -> Nat] /\ \A b \in Context : v.caret[b] = w.caret[b]
  BY <1>3
<1>7. /\ Len(v.doc[c]) = Len(w.doc[c]) /\ i \in 1..Len(w.doc[c])
      /\ \A j \in 1..Len(w.doc[c]) : j # i => v.doc[c][j] = w.doc[c][j]
  BY <1>1, <1>2, <1>5
<1>8. DocOK(v) /\ Edit(w.doc, v.doc, c, {w.doc[c][i]}, {v.doc[c][i]} \ Blank)
  BY <1>5, <1>6, <1>7, ReplaceOp
<1> QED BY <1>1, <1>2, <1>5, <1>8 DEF Freed

\* DocOp::Finalize: what the composition shows stays as text.
LEMMA FinalizeOp ==
    ASSUME NEW w, DocOK(w), NEW c \in Context
    PROVE  LET v == Finalize(w, c)
           IN  /\ Ends(w, v) /\ DocOK(v)
               /\ Lives(w.doc[c], w.composition) =>
                      \E a \in Here(w.doc, c) :
                          a.comp = w.composition /\ a.comp # 0 /\ Edit(w.doc, v.doc, c, {a}, Freed(a))
<1> DEFINE v == Finalize(w, c)
           s == w.doc[c]
           t == IF Lives(s, w.composition) THEN Ended(s, Place(s, w.composition)) ELSE s
<1>1. IsWorld(w) /\ w.doc \in [Context -> Seq(APiece)] /\ w.caret \in [Context -> Nat]
  BY DEF DocOK
<1>2. IsWorld(v) /\ Ends(w, v) /\ v.caret = w.caret /\ v.doc = [w.doc EXCEPT ![c] = t]
  BY <1>1 DEF Finalize, IsWorld, Field, Ends, Ended
<1> HIDE DEF v
<1>3. CASE ~Lives(s, w.composition)
  <2>1. v.doc = w.doc
    BY <1>1, <1>2, <1>3
  <2> QED BY <1>2, <1>3, <2>1 DEF DocOK, v
<1>4. CASE Lives(s, w.composition)
  <2> DEFINE i == Place(s, w.composition)
  <2>1. i \in DOMAIN s /\ s[i].comp = w.composition /\ w.composition # 0
    <3>1. s \in Seq(APiece)
      BY <1>1
    <3> QED BY <1>4, <3>1, PlaceIs
  <2> HIDE DEF i
  <2>2. v.doc = [w.doc EXCEPT ![c] = Ended(w.doc[c], i)]
    BY <1>2, <1>4 DEF i
  <2> HIDE DEF t
  <2>3. DocOK(v) /\ s[i] \in Here(w.doc, c) /\ Edit(w.doc, v.doc, c, {s[i]}, Freed(s[i]))
    BY <1>2, <2>1, <2>2, EndedOp
  <2> QED BY <1>2, <2>1, <2>3 DEF v
<1> QED BY <1>3, <1>4

\* v is w with the piece a of c shortened or taken away, and noted.
Shortened(w, v, c) ==
    \E a \in Here(w.doc, c) : \E X \in SUBSET APiece :
        /\ v.erased = w.erased \union {a.text.word}
        /\ Edit(w.doc, v.doc, c, {a}, X)
        /\ \A x \in X : x.comp = a.comp /\ x.text.word = a.text.word

\* A Backspace in the document shortens a piece or takes it away.
LEMMA DeleteCharOp ==
    ASSUME NEW w, DocOK(w), NEW c \in Context
    PROVE  LET v == DeleteChar(w, c)
           IN  /\ DocOK(v)
               /\ v.session = w.session /\ v.editor = w.editor /\ v.composition = w.composition
               /\ v.compCtx = w.compCtx /\ v.popup = w.popup /\ v.finalized = w.finalized
               /\ v = w \/ Shortened(w, v, c)
<1> DEFINE v == DeleteChar(w, c)
           k == w.caret[c]
           a == w.doc[c][k]
           noted == [w EXCEPT !.erased = @ \union {a.text.word}]
<1>1. CASE k = 0
  BY <1>1 DEF DeleteChar
<1>2. CASE k # 0
  <2>1. /\ IsWorld(w) /\ w.doc \in [Context -> Seq(APiece)] /\ w.caret \in [Context -> Nat]
        /\ k \in 1..Len(w.doc[c]) /\ a \in APiece /\ a \in Here(w.doc, c)
    <3>1. w.doc[c] \in Seq(APiece) /\ k \in 1..Len(w.doc[c])
      BY <1>2 DEF DocOK
    <3> QED BY <3>1, HereIs DEF DocOK
  <2>2. v = IF a.text.len <= 1 THEN Delete(noted, c)
            ELSE [noted EXCEPT !.doc[c][k].text.len = @ - 1]
    BY <1>2 DEF DeleteChar
  <2>3. /\ IsWorld(noted) /\ noted.doc = w.doc /\ noted.caret = w.caret
        /\ noted.session = w.session /\ noted.editor = w.editor /\ noted.composition = w.composition
        /\ noted.compCtx = w.compCtx /\ noted.popup = w.popup /\ noted.finalized = w.finalized
        /\ noted.erased = w.erased \union {a.text.word}
    BY <2>1 DEF IsWorld, Field
  <2> HIDE DEF noted, v
  <2>4. DocOK(noted)
    BY <2>3 DEF DocOK
  <2>5. CASE a.text.len <= 1
    <3>1. v = Delete(noted, c) /\ noted.caret[c] # 0
      BY <2>2, <2>3, <2>5, <1>2
    <3>2. /\ Frame(noted, v) /\ DocOK(v)
          /\ Edit(noted.doc, v.doc, c, {noted.doc[c][noted.caret[c]]}, {})
      BY <2>4, <3>1, DeleteOp
    <3>3. Edit(w.doc, v.doc, c, {a}, {})
      BY <2>3, <3>2
    <3> DEFINE X == {}
    <3>4. X \in SUBSET APiece /\ Edit(w.doc, v.doc, c, {a}, X) /\ \A x \in X : x.comp = a.comp /\ x.text.word = a.text.word
      BY <3>3
    <3> HIDE DEF X, a
    <3>5. v.erased = w.erased \union {a.text.word} /\ a \in Here(w.doc, c)
      BY <2>1, <2>3, <3>2 DEF Frame
    <3>6. Shortened(w, v, c)
      BY <3>4, <3>5 DEF Shortened
    <3> QED BY <2>3, <3>2, <3>6 DEF Frame, v
  <2>6. CASE ~(a.text.len <= 1)
    <3> DEFINE n == a.text.len - 1
               b == [a EXCEPT !.text.len = @ - 1]
    <3>1. b \in APiece /\ b.comp = a.comp /\ b.text.word = a.text.word
      <4>0. a.text \in AnyText
        BY <2>1 DEF APiece
      <4>1. a.text.len \in Nat /\ n \in Nat
        <5>1. a.text.len \in Nat
          BY <4>0 DEF AnyText
        <5> QED BY <2>6, <5>1
      <4> DEFINE t == [a.text EXCEPT !.len = n]
      <4>2. b = [a EXCEPT !.text = t]
        OBVIOUS
      <4> HIDE DEF n
      <4>3. t \in AnyText /\ t.word = a.text.word
        BY <2>1, <4>1 DEF APiece, AnyText
      <4> HIDE DEF t, b
      <4> QED BY <2>1, <4>2, <4>3 DEF APiece
    <3> DEFINE t == [w.doc[c] EXCEPT ![k] = b]
    <3>2. v = [noted EXCEPT !.doc[c][k].text.len = @ - 1]
      BY <2>2, <2>6
    <3>3. /\ IsWorld(v) /\ v.caret = noted.caret /\ v.erased = noted.erased
          /\ v.session = noted.session /\ v.editor = noted.editor /\ v.composition = noted.composition
          /\ v.compCtx = noted.compCtx /\ v.popup = noted.popup /\ v.finalized = noted.finalized
          /\ v.doc = [noted.doc EXCEPT ![c] = [noted.doc[c] EXCEPT ![k] = [noted.doc[c][k] EXCEPT !.text.len = @ - 1]]]
      BY <2>3, <3>2 DEF IsWorld, Field
    <3>4. v.doc = [w.doc EXCEPT ![c] = t]
      BY <2>3, <3>3
    <3> HIDE DEF b, a
    <3>5. t \in Seq(APiece) /\ Len(t) = Len(w.doc[c]) /\ t[k] = b /\ \A j \in 1..Len(w.doc[c]) : j # k => t[j] = w.doc[c][j]
      <4>1. w.doc[c] \in Seq(APiece)
        BY <2>1
      <4> QED BY <2>1, <3>1, <4>1
    <3> HIDE DEF t
    <3>6. /\ v.doc \in [Context -> Seq(APiece)] /\ v.doc[c] = t
          /\ \A d \in Context : d # c => v.doc[d] = w.doc[d]
          /\ \A d \in Context : v.caret[d] = w.caret[d]
          /\ v.caret \in [Context -> Nat]
      BY <2>1, <2>3, <3>3, <3>4, <3>5
    <3>7. /\ Len(v.doc[c]) = Len(w.doc[c]) /\ v.doc[c][k] = b
          /\ \A j \in 1..Len(w.doc[c]) : j # k => v.doc[c][j] = w.doc[c][j]
      BY <3>5, <3>6
    <3>8. DocOK(v) /\ Edit(w.doc, v.doc, c, {w.doc[c][k]}, {v.doc[c][k]} \ Blank)
      BY <2>1, <3>3, <3>6, <3>7, ReplaceOp
    <3> DEFINE X == {b} \ Blank
    <3>9. /\ X \in SUBSET APiece /\ Edit(w.doc, v.doc, c, {a}, X)
          /\ \A x \in X : x.comp = a.comp /\ x.text.word = a.text.word
      BY <3>1, <3>7, <3>8 DEF a
    <3> HIDE DEF X
    <3>10. v.erased = w.erased \union {a.text.word} /\ a \in Here(w.doc, c)
      BY <2>1, <2>3, <3>3 DEF a
    <3>11. Shortened(w, v, c)
      BY <3>9, <3>10 DEF Shortened
    <3> QED BY <2>3, <3>3, <3>8, <3>11 DEF v
  <2> QED BY <2>5, <2>6
<1> QED BY <1>1, <1>2

-----------------------------------------------------------------------------
(* What the document owes the user.                                        *)

\* Numbers of the compositions that live somewhere.
Numbers(d) == {n \in Nat \ {0} : ~Absent(d, ByComp(n))}

\* Every composition is one piece, there are at most as many as keys were typed,
\* and no word is newer than the last key.
Docs(w, k) ==
    /\ DocOK(w)
    /\ \A n \in Nat \ {0} : Single(w.doc, ByComp(n))
    /\ IsFiniteSet(Numbers(w.doc)) /\ Cardinality(Numbers(w.doc)) <= k
    /\ \A c \in Context : \A p \in Here(w.doc, c) : p.text.word <= k

InDoc(d, n) == \E c \in Context : \E p \in Here(d, c) : p.text.word = n

\* Words that were typed, committed or finalized stay until they are erased.
Owed(w, cm) == w.finalized \union {cm[i].word : i \in DOMAIN cm}
               \union (IF w.session = NoWord THEN {} ELSE {w.session.word})
Owe(w, cm) == \A n \in Owed(w, cm) : n # 0 /\ (n \in w.erased \/ InDoc(w.doc, n))

\* The pieces of a typed document.
LEMMA DocPieces ==
    ASSUME NEW w, DocOK(w)
    PROVE  \A c \in Context : \A p \in Here(w.doc, c) :
               p \in APiece /\ p.comp \in Nat /\ p.text.word \in Nat
<1>1. \A c \in Context : w.doc[c] \in Seq(APiece)
  BY DEF DocOK
<1>2. ASSUME NEW c \in Context, NEW p \in Here(w.doc, c) PROVE p \in APiece
  BY <1>1, HereIs
<1>3. \A p \in APiece : p.comp \in Nat /\ p.text.word \in Nat
  BY DEF APiece, AnyText
<1> QED BY <1>2, <1>3

\* Blanks have no composition and no word.
LEMMA BlanksHaveNone == \A p \in Blank : p.comp = 0 /\ p.text.word = 0
BY DEF Blank

\* A number in use after an edit was in use before, or is new.
LEMMA NumbersEdit ==
    ASSUME NEW d, NEW e, NEW f, NEW A, NEW X, Edit(d, e, f, A, X)
    PROVE  \A n \in Numbers(e) : n \in Numbers(d) \/ \E x \in X : x.comp = n
<1> SUFFICES ASSUME NEW n \in Numbers(e), ~\E x \in X : x.comp = n PROVE n \in Numbers(d)
  OBVIOUS
<1>0. PICK c \in Context : \E p \in Here(e, c) : p.comp = n /\ p \in APiece /\ n \in Nat \ {0}
  BY DEF Numbers, Absent, ByComp
<1>1. PICK p \in Here(e, c) : p.comp = n /\ p \in APiece /\ n \in Nat \ {0}
  BY <1>0
<1>2. p \notin Blank
  BY <1>1, BlanksHaveNone
<1>3. p \in Here(d, c)
  BY <1>1, <1>2 DEF Edit
<1> QED BY <1>1, <1>3 DEF Numbers, Absent, ByComp

\* Kinds by their number.
LEMMA KindIs == \A n \in Nat \ {0} : ByComp(n) \in Kinds /\ ByWord(n) \in Kinds
BY DEF Kinds

\* What an edit writes is no newer than l and continues what it takes away; what it
\* takes away comes back or is erased.
Continues(A, X, l) == \A x \in X : x.text.word <= l /\ (x.comp = 0 \/ \E a \in A : a.comp = x.comp)
Returns(v, A, X) ==
    \A a \in A : a.text.word = 0 \/ a.text.word \in v.erased \/ \E x \in X : x.text.word = a.text.word

\* What is owed after a step was owed before, or is there, or erased.
Paid(w, cm, v, dm) ==
    /\ \A n \in w.erased : n # 0 => n \in v.erased \/ InDoc(v.doc, n)
    /\ \A n \in Owed(v, dm) : n \in Owed(w, cm) \/ (n # 0 /\ (n \in v.erased \/ InDoc(v.doc, n)))

\* An edit without a new composition.
LEMMA DocsEdit ==
    ASSUME NEW k \in Nat, NEW l \in Nat, k <= l, NEW w, Docs(w, k), NEW v, DocOK(v),
           NEW f \in Context, NEW A, NEW X, Edit(w.doc, v.doc, f, A, X), Continues(A, X, l)
    PROVE  Docs(v, l)
<1>c. \A x \in X : x.text.word <= l /\ (x.comp = 0 \/ \E a \in A : a.comp = x.comp)
  BY DEF Continues
<1>a. A \subseteq Here(w.doc, f)
  BY DEF Edit
<1>b. \A p \in A : p \in APiece
  BY <1>a, DocPieces DEF Docs
<1>1. ASSUME NEW n \in Nat \ {0} PROVE Single(v.doc, ByComp(n))
  <2>1. ByComp(n) \in Kinds /\ Single(w.doc, ByComp(n))
    BY KindIs DEF Docs
  <2>2. ByComp(n) \cap X = {} \/ A \cap ByComp(n) # {}
    BY <1>b, <1>c DEF ByComp
  <2> QED BY <2>1, <2>2 DEF Edit
<1>2. Numbers(v.doc) \subseteq Numbers(w.doc)
  <2>1. ASSUME NEW n \in Numbers(v.doc), NEW x \in X, x.comp = n PROVE n \in Numbers(w.doc)
    <3>1. n \in Nat \ {0}
      BY DEF Numbers
    <3>2. PICK a \in A : a.comp = n
      BY <1>c, <2>1, <3>1
    <3> QED BY <1>a, <1>b, <3>1, <3>2 DEF Numbers, Absent, ByComp
  <2> QED BY <2>1, NumbersEdit
<1>3. IsFiniteSet(Numbers(v.doc)) /\ Cardinality(Numbers(v.doc)) <= l
  <2>1. IsFiniteSet(Numbers(w.doc)) /\ Cardinality(Numbers(w.doc)) <= k
    BY DEF Docs
  <2>2. /\ IsFiniteSet(Numbers(v.doc)) /\ Cardinality(Numbers(v.doc)) <= Cardinality(Numbers(w.doc))
    BY <1>2, <2>1, FS_Subset
  <2>3. Cardinality(Numbers(v.doc)) \in Nat /\ Cardinality(Numbers(w.doc)) \in Nat
    BY <2>1, <2>2, FS_CardinalityType
  <2> QED BY <2>1, <2>2, <2>3
<1>4. ASSUME NEW c \in Context, NEW p \in Here(v.doc, c) PROVE p.text.word <= l
  <2>1. p.text.word \in Nat
    BY DocPieces
  <2>2. CASE p \in Here(w.doc, c)
    BY <2>1, <2>2 DEF Docs
  <2>3. CASE p \in Blank
    BY <2>3, BlanksHaveNone
  <2>4. CASE p \in X
    BY <1>c, <2>4
  <2> QED BY <2>2, <2>3, <2>4 DEF Edit
<1> QED BY <1>1, <1>3, <1>4 DEF Docs

\* An edit that starts a composition.
LEMMA DocsStart ==
    ASSUME NEW k \in Nat, NEW l \in Nat, k < l, NEW w, Docs(w, k), NEW v, DocOK(v),
           NEW f \in Context, NEW x \in APiece, Edit(w.doc, v.doc, f, {}, {x}),
           x.text.word <= l, Absent(w.doc, ByComp(x.comp))
    PROVE  Docs(v, l)
<1>1. ASSUME NEW n \in Nat \ {0} PROVE Single(v.doc, ByComp(n))
  <2>1. ByComp(n) \in Kinds /\ Single(w.doc, ByComp(n))
    BY KindIs DEF Docs
  <2>2. ByComp(n) \cap {x} = {} \/ Absent(w.doc, ByComp(n))
    BY DEF ByComp
  <2>3. {x} \cap ByComp(n) = {} \/ Absent(w.doc, ByComp(n))
    BY <2>2
  <2> QED BY <2>1, <2>3 DEF Edit
<1>2. Numbers(v.doc) \subseteq Numbers(w.doc) \union {x.comp}
  BY NumbersEdit
<1>3. IsFiniteSet(Numbers(v.doc)) /\ Cardinality(Numbers(v.doc)) <= l
  <2> DEFINE N == Numbers(w.doc)
             M == N \union {x.comp}
             V == Numbers(v.doc)
  <2>1. IsFiniteSet(N) /\ Cardinality(N) <= k
    BY DEF Docs
  <2>2. V \subseteq M
    BY <1>2
  <2> HIDE DEF N, V
  <2>3. IsFiniteSet(M) /\ Cardinality(M) = IF x.comp \in N THEN Cardinality(N) ELSE Cardinality(N) + 1
    BY <2>1, FS_AddElement
  <2> HIDE DEF M
  <2>4. IsFiniteSet(V) /\ Cardinality(V) <= Cardinality(M)
    BY <2>2, <2>3, FS_Subset
  <2>5. Cardinality(N) \in Nat /\ Cardinality(M) \in Nat /\ Cardinality(V) \in Nat
    BY <2>1, <2>3, <2>4, FS_CardinalityType
  <2>6. Cardinality(M) <= Cardinality(N) + 1
    BY <2>3, <2>5
  <2>7. Cardinality(V) <= l
    BY <2>1, <2>4, <2>5, <2>6
  <2> QED BY <2>4, <2>7 DEF V
<1>4. ASSUME NEW c \in Context, NEW p \in Here(v.doc, c) PROVE p.text.word <= l
  <2>1. p.text.word \in Nat
    BY DocPieces
  <2>2. CASE p \in Here(w.doc, c)
    BY <2>1, <2>2 DEF Docs
  <2>3. CASE p \in Blank
    BY <2>3, BlanksHaveNone
  <2>4. CASE p = x
    BY <2>4
  <2> QED BY <2>2, <2>3, <2>4 DEF Edit
<1> QED BY <1>1, <1>3, <1>4 DEF Docs

\* As long as the keys are bounded there is a free number.
LEMMA RoomForOne ==
    ASSUME MaxKeys \in Nat, NEW k \in Nat, k <= MaxKeys, NEW w, Docs(w, k)
    PROVE  FreeNumber(w.doc)
<1> DEFINE N == Numbers(w.doc)
           I == 1..MaxKeys + 1
<1>1. IsFiniteSet(N) /\ Cardinality(N) <= k
  BY DEF Docs
<1>2. IsFiniteSet(I) /\ Cardinality(I) = MaxKeys + 1
  <2>1. MaxKeys + 1 \in Int /\ 1 \in Int /\ 1 <= MaxKeys + 1 + 1
    OBVIOUS
  <2>2. /\ IsFiniteSet(1..MaxKeys + 1)
        /\ Cardinality(1..MaxKeys + 1) = IF 1 > MaxKeys + 1 THEN 0 ELSE MaxKeys + 1 - 1 + 1
    BY <2>1, FS_Interval
  <2> QED BY <2>2
<1>3. ~(I \subseteq N)
  <2>1. I \subseteq N => Cardinality(I) <= Cardinality(N)
    BY <1>1, FS_Subset
  <2>2. Cardinality(N) \in Nat
    BY <1>1, FS_CardinalityType
  <2> QED BY <1>1, <1>2, <2>1, <2>2
<1>4. PICK n \in I : n \notin N
  BY <1>3
<1>5. Absent(w.doc, ByComp(n))
  BY <1>4 DEF Numbers
<1>6. ASSUME NEW c \in Context, Lives(w.doc[c], n) PROVE FALSE
  <2>1. PICK i \in DOMAIN w.doc[c] : w.doc[c][i].comp = n
    BY <1>6 DEF Lives
  <2>2. w.doc[c][i] \in Here(w.doc, c)
    BY <2>1 DEF Here
  <2>3. w.doc[c][i] \in APiece
    BY <2>2, DocPieces DEF Docs
  <2> QED BY <1>5, <2>1, <2>2, <2>3 DEF Absent, ByComp
<1> QED BY <1>4, <1>6 DEF FreeNumber

\* A word stays where an edit puts it, or is in the piece that the edit takes away.
LEMMA InDocEdit ==
    ASSUME NEW d, NEW e, NEW f \in Context, NEW A, NEW X, Edit(d, e, f, A, X)
    PROVE  /\ \A n : n # 0 /\ InDoc(d, n) => InDoc(e, n) \/ \E a \in A : a.text.word = n
           /\ \A x \in X : InDoc(e, x.text.word)
<1>1. ASSUME NEW x \in X PROVE InDoc(e, x.text.word)
  BY DEF Edit, InDoc
<1>2. ASSUME NEW n, n # 0, InDoc(d, n) PROVE InDoc(e, n) \/ \E a \in A : a.text.word = n
  <2>0. PICK c \in Context : \E p \in Here(d, c) : p.text.word = n
    BY <1>2 DEF InDoc
  <2>1. PICK p \in Here(d, c) : p.text.word = n
    BY <2>0
  <2>2. p \notin Blank
    BY <1>2, <2>1, BlanksHaveNone
  <2>3. p \in Here(e, c) \/ p \in A
    BY <2>2 DEF Edit
  <2> QED BY <2>1, <2>3 DEF InDoc
<1> QED BY <1>1, <1>2

\* What an edit takes away comes back or is erased.
LEMMA OweEdit ==
    ASSUME NEW w, NEW v, NEW cm, NEW dm, Owe(w, cm), NEW f \in Context, NEW A, NEW X,
           Edit(w.doc, v.doc, f, A, X), Returns(v, A, X), Paid(w, cm, v, dm)
    PROVE  Owe(v, dm)
<1> SUFFICES ASSUME NEW n \in Owed(v, dm), n \in Owed(w, cm)
             PROVE  n # 0 /\ (n \in v.erased \/ InDoc(v.doc, n))
  BY DEF Owe, Paid
<1>1. n # 0 /\ (n \in w.erased \/ InDoc(w.doc, n))
  BY DEF Owe
<1>2. CASE n \in w.erased
  BY <1>1, <1>2 DEF Paid
<1>3. CASE InDoc(w.doc, n)
  <2>1. InDoc(v.doc, n) \/ \E a \in A : a.text.word = n
    BY <1>1, <1>3, InDocEdit
  <2>2. ASSUME NEW a \in A, a.text.word = n PROVE n \in v.erased \/ InDoc(v.doc, n)
    BY <1>1, <2>2, InDocEdit DEF Returns
  <2> QED BY <1>1, <2>1, <2>2
<1> QED BY <1>1, <1>2, <1>3

-----------------------------------------------------------------------------
(* What is kept of a word, where TSF grants every session at once.         *)

-----------------------------------------------------------------------------
(* The invariant: the field shows the word.                                *)

\* A composition that the state knows and that lives is in the field the keys come
\* from, and shows the word.
Shows(w, f) ==
    \A c \in Context : \A p \in Here(w.doc, c) :
        p.comp = w.composition /\ p.comp # 0 =>
            w.session # NoWord /\ p.text = w.session /\ c = f /\ w.compCtx = c

\* The state knows every composition that lives.
Lonely(w, tm) == \A c \in Context : \A p \in Here(w.doc, c) : p.comp # 0 => p.comp = w.composition /\ ~tm

\* The word being typed is on screen, in one piece unless it was reopened.
OnScreen(w, ro) ==
    w.session # NoWord =>
        /\ \E c \in Context : \E p \in Here(w.doc, c) : p.comp = w.composition /\ p.comp # 0
        /\ w.session.word \notin ro => Single(w.doc, ByWord(w.session.word))

\* Committed words are in one piece unless they were reopened.
WrittenOnce(w, cm, ro) == \A i \in DOMAIN cm : cm[i].word \in ro \/ Single(w.doc, ByWord(cm[i].word))

\* The part of the state that edit sessions do not touch.
Rest_ == [keys |-> keys, context |-> context, crossed |-> crossed, terminated |-> terminated,
          committed |-> committed, reopened |-> reopened, ended |-> ended]

Several == \E c, d \in Context : c # d

RestOK(h) ==
    /\ h.keys \in 0..MaxKeys /\ h.context \in Context \union {NoContext} /\ h.ended \in Nat
    /\ h.committed \in Seq(Real) /\ \A i \in DOMAIN h.committed : h.committed[i].word <= h.keys
    /\ h.crossed => Several

Fine(w, h) ==
    /\ RestOK(h) /\ Docs(w, h.keys)
    /\ w.session \in Letters /\ w.editor \in {NoWord, w.session} /\ w.session.word <= h.keys
    /\ w.compCtx \in Context \union {NoContext}
    /\ Owe(w, h.committed)
    /\ Shows(w, h.context)
    /\ ~h.crossed => Lonely(w, h.terminated)
    /\ h.ended = 0 => /\ ~h.terminated /\ OnScreen(w, h.reopened)
                      /\ ~h.crossed => WrittenOnce(w, h.committed, h.reopened)

\* What a step does to that part.
Follows(h, g) ==
    /\ RestOK(g) /\ g.keys >= h.keys /\ (h.crossed => g.crossed)
    /\ h.reopened \subseteq g.reopened /\ (g.ended = 0 => h.ended = 0)

\* Words in one piece stay in one piece unless an edit writes them elsewhere.
LEMMA WrittenEdit ==
    ASSUME NEW w, NEW v, NEW cm, NEW ro, NEW so, WrittenOnce(w, cm, ro), ro \subseteq so,
           NEW f, NEW A, NEW X, Edit(w.doc, v.doc, f, A, X), cm \in Seq(Real), A \subseteq APiece,
           \A x \in X : x.text.word \in so \/ \E a \in A : a.text.word = x.text.word
    PROVE  WrittenOnce(v, cm, so)
<1> SUFFICES ASSUME NEW i \in DOMAIN cm, cm[i].word \notin so
             PROVE  Single(v.doc, ByWord(cm[i].word))
  BY DEF WrittenOnce
<1> DEFINE n == cm[i].word
<1>1. n \in Nat \ {0}
  <2>1. cm[i] \in Real
    OBVIOUS
  <2> QED BY <2>1 DEF Real
<1>2. Single(w.doc, ByWord(n)) /\ ByWord(n) \in Kinds
  BY <1>1, KindIs DEF WrittenOnce
<1> HIDE DEF n
<1>3. X \cap ByWord(n) = {} \/ A \cap ByWord(n) # {}
  <2>1. ASSUME NEW x \in X \cap ByWord(n) PROVE A \cap ByWord(n) # {}
    <3>1. x.text.word = n
      BY DEF ByWord
    <3>2. PICK a \in A : a.text.word = n
      BY <3>1 DEF n
    <3> QED BY <3>2 DEF ByWord
  <2> QED BY <2>1
<1> QED BY <1>2, <1>3 DEF Edit, n

\* What an edit shows as a composition was one.
Joins(A, X) == \A x \in X : x.comp = 0 \/ \E a \in A : a.comp = x.comp

\* Edits that end no other composition than they show leave no other.
LEMMA LonelyEdit ==
    ASSUME NEW w, NEW v, NEW tm, Lonely(w, tm), NEW f \in Context, NEW A, NEW X, Edit(w.doc, v.doc, f, A, X),
           v.composition = w.composition, Joins(A, X)
    PROVE  Lonely(v, tm)
<1> SUFFICES ASSUME NEW c \in Context, NEW p \in Here(v.doc, c), p.comp # 0
             PROVE  p.comp = w.composition /\ ~tm
  BY DEF Lonely
<1>1. p \notin Blank
  BY BlanksHaveNone
<1>2. CASE p \in Here(w.doc, c)
  BY <1>2 DEF Lonely
<1>3. CASE p \in X
  <2>1. PICK a \in A : a.comp = p.comp
    BY <1>3 DEF Joins
  <2>2. a \in Here(w.doc, f)
    BY DEF Edit
  <2> QED BY <2>1, <2>2 DEF Lonely
<1> QED BY <1>1, <1>2, <1>3 DEF Edit

\* With the composition of the state gone none is left.
LEMMA LoneGone ==
    ASSUME NEW w, NEW k, Docs(w, k), NEW v, DocOK(v), NEW tm, Lonely(w, tm), NEW f \in Context,
           NEW a \in Here(w.doc, f), a.comp # 0, NEW X, Edit(w.doc, v.doc, f, {a}, X),
           \A x \in X : x.comp = 0
    PROVE  \A c \in Context : \A p \in Here(v.doc, c) : p.comp = 0
<1> SUFFICES ASSUME NEW c \in Context, NEW p \in Here(v.doc, c), p.comp # 0
             PROVE  FALSE
  OBVIOUS
<1>1. p \in APiece /\ p.comp \in Nat /\ a \in APiece
  BY DocPieces DEF Docs
<1>2. p \in Here(w.doc, c)
  BY BlanksHaveNone DEF Edit
<1>3. p.comp = a.comp
  BY <1>2 DEF Lonely
<1> DEFINE n == a.comp
<1>4. n \in Nat \ {0} /\ ByComp(n) \in Kinds /\ Single(w.doc, ByComp(n))
  BY <1>1, <1>3, KindIs DEF Docs
<1>5. {a} \cap ByComp(n) # {}
  BY <1>1 DEF ByComp
<1>6. X \cap ByComp(n) = {}
  BY <1>4 DEF ByComp
<1> HIDE DEF n
<1>7. Absent(v.doc, ByComp(n))
  BY <1>4, <1>5, <1>6 DEF Edit
<1> QED BY <1>1, <1>3, <1>7 DEF Absent, ByComp, n

\* The parts of Fine that only look at the state or the rest.
LEMMA FineParts ==
    ASSUME MaxKeys \in Nat, NEW w, NEW h, Fine(w, h)
    PROVE  /\ RestOK(h) /\ h.keys \in Nat /\ h.keys <= MaxKeys /\ h.committed \in Seq(Real)
           /\ Docs(w, h.keys) /\ DocOK(w) /\ Owe(w, h.committed) /\ Shows(w, h.context)
           /\ w.session \in Letters /\ w.session \in AnyText /\ w.editor \in {NoWord, w.session}
           /\ Shown(w) = w.session /\ (Composing(w) <=> w.session # NoWord)
           /\ w.session.word \in Nat /\ w.session.word <= h.keys
           /\ w.session # NoWord => w.session \in Real /\ w.session.word # 0
<1>1. /\ RestOK(h) /\ h.keys \in 0..MaxKeys /\ h.committed \in Seq(Real) /\ Docs(w, h.keys)
      /\ Owe(w, h.committed) /\ Shows(w, h.context)
      /\ w.session \in Letters /\ w.editor \in {NoWord, w.session} /\ w.session.word <= h.keys
  BY DEF Fine, RestOK
<1>2. DocOK(w)
  BY <1>1 DEF Docs
<1>3. /\ w.session \in AnyText /\ w.session.word \in Nat
      /\ w.session # NoWord => w.session \in Real /\ w.session.word # 0
  BY <1>1, WordIsText DEF AnyText
<1>4. Shown(w) = w.session /\ (Composing(w) <=> w.session # NoWord)
  BY <1>1 DEF Shown, Composing
<1> QED BY <1>1, <1>2, <1>3, <1>4

\* What a step does to the counts.
LEMMA FollowsParts ==
    ASSUME MaxKeys \in Nat, NEW w, NEW h, Fine(w, h), NEW g, Follows(h, g)
    PROVE  /\ h.keys \in Nat /\ g.keys \in Nat /\ h.keys <= g.keys /\ RestOK(g)
           /\ (h.crossed => g.crossed) /\ h.reopened \subseteq g.reopened /\ (g.ended = 0 => h.ended = 0)
BY DEF Fine, Follows, RestOK

\* What an edit takes away is erased or shown again, and it shows nothing else; the
\* composition of the word stays as it is.
Spares(w, v, A, X) ==
    /\ \A x \in X : \E a \in A : x.text.word = a.text.word /\ (x.comp = 0 \/ x.comp = a.comp)
    /\ \A x \in X : \A a \in A : x.comp # 0 => a = x \/ a.comp # w.composition
    /\ Returns(v, A, X)

\* v has the word and the composition of w.
SameWord(w, v) ==
    /\ v.session = w.session /\ v.editor = w.editor /\ v.composition = w.composition
    /\ v.compCtx = w.compCtx /\ v.finalized = w.finalized /\ w.erased \subseteq v.erased

\* An edit that leaves the word being typed alone: whatever it takes away is erased
\* or shown again, and it writes no new word.
LEMMA StillFine ==
    ASSUME MaxKeys \in Nat, NEW w, NEW h, Fine(w, h), NEW g, Follows(h, g), g.committed = h.committed,
           NEW v, DocOK(v), NEW f \in Context, NEW A, NEW X, Edit(w.doc, v.doc, f, A, X),
           SameWord(w, v), Spares(w, v, A, X),
           w.session = NoWord \/ g.context = h.context,
           g.ended = 0 => (g.terminated <=> h.terminated) /\ (w.session = NoWord \/ A = {}),
           ~g.crossed => Lonely(v, g.terminated)
    PROVE  Fine(v, g)
<1>h. /\ RestOK(h) /\ h.keys \in Nat /\ h.committed \in Seq(Real)
      /\ Docs(w, h.keys) /\ DocOK(w) /\ Owe(w, h.committed) /\ Shows(w, h.context)
      /\ w.session \in Letters /\ w.editor \in {NoWord, w.session}
      /\ w.session.word \in Nat /\ w.session.word <= h.keys
  BY FineParts
<1>g. /\ g.keys \in Nat /\ h.keys <= g.keys /\ RestOK(g)
      /\ (h.crossed => g.crossed) /\ h.reopened \subseteq g.reopened /\ (g.ended = 0 => h.ended = 0)
  BY FollowsParts
<1>a. A \subseteq Here(w.doc, f)
  BY DEF Edit
<1>b. A \subseteq APiece /\ \A a \in A : a.text.word \in Nat /\ a.text.word <= h.keys
  BY <1>a, <1>h, DocPieces DEF Docs
<1>s. /\ v.session = w.session /\ v.editor = w.editor /\ v.composition = w.composition
      /\ v.compCtx = w.compCtx /\ v.finalized = w.finalized /\ w.erased \subseteq v.erased
  BY DEF SameWord
<1>x. /\ \A x \in X : \E a \in A : x.text.word = a.text.word /\ (x.comp = 0 \/ x.comp = a.comp)
      /\ \A x \in X : \A a \in A : x.comp # 0 => a = x \/ a.comp # w.composition
      /\ Returns(v, A, X)
  BY DEF Spares
<1>1. Docs(v, g.keys)
  <2>1. Continues(A, X, g.keys)
    BY <1>b, <1>g, <1>h, <1>x DEF Continues
  <2> DEFINE k == h.keys
             l == g.keys
  <2>2. k \in Nat /\ l \in Nat /\ k <= l /\ Docs(w, k) /\ Continues(A, X, l)
    BY <1>g, <1>h, <2>1
  <2> HIDE DEF k, l
  <2>3. Docs(v, l)
    BY <2>2, DocsEdit
  <2> QED BY <2>3 DEF l
<1>2. Owe(v, g.committed)
  <2>1. Owed(v, g.committed) = Owed(w, h.committed)
    BY <1>s DEF Owed
  <2> DEFINE cm == h.committed
             dm == g.committed
  <2>2. Owe(w, cm) /\ Paid(w, cm, v, dm) /\ Returns(v, A, X)
    BY <1>h, <1>s, <1>x, <2>1 DEF Paid
  <2> HIDE DEF cm, dm
  <2>3. Owe(v, dm)
    BY <2>2, OweEdit
  <2> QED BY <2>3 DEF dm
<1>3. Shows(v, g.context)
  <2> SUFFICES ASSUME NEW c \in Context, NEW p \in Here(v.doc, c), p.comp = w.composition, p.comp # 0
               PROVE  w.session # NoWord /\ p.text = w.session /\ c = g.context /\ w.compCtx = c
    BY <1>s DEF Shows
  <2>1. p \notin Blank
    BY BlanksHaveNone
  <2>2. p \in Here(w.doc, c) \/ (c = f /\ p \in X)
    BY <2>1 DEF Edit
  <2>3. CASE p \in Here(w.doc, c)
    BY <1>h, <2>3 DEF Shows
  <2>4. CASE c = f /\ p \in X
    <3>1. PICK a \in A : a.comp = p.comp
      BY <1>x, <2>4
    <3>2. p = a
      BY <1>x, <2>4, <3>1
    <3>3. p \in Here(w.doc, c)
      BY <2>4, <3>2, <1>a
    <3> QED BY <2>3, <3>3
  <2> QED BY <2>2, <2>3, <2>4
<1>4. ASSUME g.ended = 0
      PROVE  /\ ~g.terminated /\ OnScreen(v, g.reopened)
             /\ ~g.crossed => WrittenOnce(v, g.committed, g.reopened)
  <2>1. /\ ~h.terminated /\ OnScreen(w, h.reopened)
        /\ ~h.crossed => WrittenOnce(w, h.committed, h.reopened)
    BY <1>4, <1>g DEF Fine
  <2>2. OnScreen(v, g.reopened)
    <3> SUFFICES ASSUME w.session # NoWord
                 PROVE  OnScreen(v, g.reopened)
      BY <1>s DEF OnScreen
    <3>1. A = {} /\ X = {}
      BY <1>4, <1>x
    <3>2. PICK c \in Context : \E p \in Here(w.doc, c) : p.comp = w.composition /\ p.comp # 0
      BY <2>1 DEF OnScreen
    <3>3. PICK p \in Here(w.doc, c) : p.comp = w.composition /\ p.comp # 0
      BY <3>2
    <3>4. p \in Here(v.doc, c)
      BY <3>1, <3>3, BlanksHaveNone DEF Edit
    <3>5. w.session.word \notin g.reopened => Single(v.doc, ByWord(w.session.word))
      <4>1. w.session.word \in Nat \ {0}
        BY <1>h, WordIsText
      <4>2. ByWord(w.session.word) \in Kinds
        BY <4>1, KindIs
      <4>3. w.session.word \notin g.reopened => Single(w.doc, ByWord(w.session.word))
        BY <1>g, <2>1 DEF OnScreen
      <4> QED BY <3>1, <4>2, <4>3 DEF Edit
    <3> QED BY <1>s, <3>3, <3>4, <3>5 DEF OnScreen
  <2>3. ~g.crossed => WrittenOnce(v, g.committed, g.reopened)
    <3> SUFFICES ASSUME ~g.crossed PROVE WrittenOnce(v, g.committed, g.reopened)
      OBVIOUS
    <3>1. WrittenOnce(w, h.committed, h.reopened) /\ h.reopened \subseteq g.reopened
      BY <1>g, <2>1
    <3> DEFINE cm == h.committed
               so == g.reopened
    <3>2. \A x \in X : x.text.word \in so \/ \E a \in A : a.text.word = x.text.word
      BY <1>x
    <3>3. WrittenOnce(w, cm, h.reopened) /\ h.reopened \subseteq so /\ cm \in Seq(Real)
      BY <3>1, <1>h
    <3> HIDE DEF cm, so
    <3>4. WrittenOnce(v, cm, so)
      BY <1>b, <3>2, <3>3, WrittenEdit
    <3> QED BY <3>4 DEF cm, so
  <2> QED BY <1>4, <2>1, <2>2, <2>3
<1>5. v.session.word <= g.keys
  BY <1>g, <1>h, <1>s
<1>6. v.compCtx \in Context \union {NoContext}
  BY <1>s DEF Fine
<1> QED BY <1>1, <1>2, <1>3, <1>4, <1>5, <1>6, <1>g, <1>h, <1>s DEF Fine

\* No word is being typed.
Gone(v) ==
    /\ v.session = NoWord /\ v.editor = NoWord /\ v.compCtx = NoContext
    /\ v.composition = 0 \/ Absent(v.doc, ByComp(v.composition))

\* An edit that keeps what it takes away, and adds no composition.
KeepsText(v, g, A, X) ==
    Returns(v, A, X) /\ \A x \in X : x.comp = 0 /\ x.text.word <= g.keys

\* Nothing is left of the word on screen.
Cleared(v, g) ==
    /\ ~g.crossed => \A c \in Context : \A p \in Here(v.doc, c) : p.comp = 0
    /\ g.ended = 0 => ~g.terminated /\ (~g.crossed => WrittenOnce(v, g.committed, g.reopened))

\* An edit that ends the word being typed, and its composition with it.
LEMMA EndFine ==
    ASSUME MaxKeys \in Nat, NEW w, NEW h, Fine(w, h), NEW g, Follows(h, g),
           NEW v, DocOK(v), NEW f \in Context, NEW A, NEW X, Edit(w.doc, v.doc, f, A, X),
           Gone(v), KeepsText(v, g, A, X), Paid(w, h.committed, v, g.committed), Cleared(v, g)
    PROVE  Fine(v, g)
<1>h. h.keys \in Nat /\ Docs(w, h.keys) /\ Owe(w, h.committed)
  BY FineParts
<1>g. g.keys \in Nat /\ h.keys <= g.keys /\ RestOK(g)
  BY FollowsParts
<1>1. Docs(v, g.keys)
  <2> DEFINE k == h.keys
             l == g.keys
  <2>1. k \in Nat /\ l \in Nat /\ k <= l /\ Docs(w, k) /\ Continues(A, X, l)
    BY <1>g, <1>h DEF KeepsText, Continues
  <2> HIDE DEF k, l
  <2>2. Docs(v, l)
    BY <2>1, DocsEdit
  <2> QED BY <2>2 DEF l
<1>2. Owe(v, g.committed)
  <2> DEFINE cm == h.committed
             dm == g.committed
  <2>1. Owe(w, cm) /\ Paid(w, cm, v, dm) /\ Returns(v, A, X)
    BY <1>h DEF KeepsText
  <2> HIDE DEF cm, dm
  <2>2. Owe(v, dm)
    BY <2>1, OweEdit
  <2> QED BY <2>2 DEF dm
<1>3. Shows(v, g.context)
  <2> SUFFICES ASSUME NEW c \in Context, NEW p \in Here(v.doc, c), p.comp = v.composition, p.comp # 0
               PROVE  FALSE
    BY DEF Shows
  <2>1. p \in APiece
    BY DocPieces
  <2> QED BY <2>1 DEF Absent, ByComp, Gone
<1>4. ~g.crossed => Lonely(v, g.terminated)
  BY DEF Lonely, Cleared
<1>5. OnScreen(v, g.reopened)
  BY DEF OnScreen, Gone
<1>6. v.session \in Letters /\ v.editor \in {NoWord, v.session} /\ v.session.word <= g.keys
  BY <1>g DEF Letters, NoWord, Gone
<1>7. v.compCtx \in Context \union {NoContext}
  BY DEF Gone
<1> QED BY <1>1, <1>2, <1>3, <1>4, <1>5, <1>6, <1>7, <1>g DEF Fine, Cleared

\* A live composition that the state knows takes text where the keys come from.
LEMMA TakesIt ==
    ASSUME MaxKeys \in Nat, NoContext \notin Context, NEW w, NEW h, Fine(w, h),
           NEW c \in Context, NEW p \in Here(w.doc, c), p.comp = w.composition, p.comp # 0
    PROVE  /\ w.session # NoWord /\ p.text = w.session /\ c = h.context /\ w.compCtx = c
           /\ TakesText(w, c)
           /\ \A d \in Context : w.compCtx \in {NoContext, d} => d = c
<1>1. w.session # NoWord /\ p.text = w.session /\ c = h.context /\ w.compCtx = c
  BY DEF Fine, Shows
<1>2. Lives(w.doc[c], w.composition)
  BY DEF Lives, Here
<1> QED BY <1>1, <1>2 DEF TakesText

\* The committed words with one more.
Adds(cm, dm, t) ==
    \A i \in DOMAIN dm : dm[i].word = t.word \/ \E j \in DOMAIN cm : cm[j].word = dm[i].word

\* Appending a text does that.
LEMMA AppendAdds ==
    ASSUME NEW cm \in Seq(Real), NEW t \in Real
    PROVE  Adds(cm, Append(cm, t), t) /\ Append(cm, t) \in Seq(Real)
<1>1. /\ Append(cm, t) \in Seq(Real) /\ Len(Append(cm, t)) = Len(cm) + 1
      /\ \A i \in 1..Len(cm) : Append(cm, t)[i] = cm[i]
      /\ Append(cm, t)[Len(cm) + 1] = t
  BY AppendProperties
<1> DEFINE dm == Append(cm, t)
<1>2. dm \in Seq(Real) /\ DOMAIN dm = 1..Len(cm) + 1 /\ DOMAIN cm = 1..Len(cm) /\ Len(cm) \in Nat
  BY <1>1
<1> HIDE DEF dm
<1>3. ASSUME NEW i \in DOMAIN dm PROVE dm[i].word = t.word \/ \E j \in DOMAIN cm : cm[j].word = dm[i].word
  <2>1. CASE i = Len(cm) + 1
    BY <2>1, <1>1 DEF dm
  <2>2. CASE i # Len(cm) + 1
    <3>1. i \in DOMAIN cm /\ dm[i] = cm[i]
      BY <2>2, <1>1, <1>2 DEF dm
    <3> QED BY <3>1
  <2> QED BY <2>1, <2>2
<1> QED BY <1>1, <1>3 DEF Adds, dm

\* The edit in c takes the composition away where it takes text, and starts none.
Ending(w, c, A, X) ==
    /\ TakesText(w, c) => A # {}
    /\ \A a \in A : a.comp # 0
    /\ \A x \in X : x.comp = 0

\* The edit that ends the composition where it takes text leaves none.
LEMMA AllEnded ==
    ASSUME MaxKeys \in Nat, NoContext \notin Context, NEW w, NEW h, Fine(w, h), ~h.crossed,
           NEW c \in Context, w.compCtx \in {NoContext, c} \/ c = h.context,
           NEW v, DocOK(v), NEW X, NEW A \in {{}} \union {{a} : a \in Here(w.doc, c)},
           Edit(w.doc, v.doc, c, A, X), Ending(w, c, A, X)
    PROVE  \A b \in Context : \A p \in Here(v.doc, b) : p.comp = 0
<1>1. Lonely(w, h.terminated)
  BY DEF Fine
<1>e. /\ TakesText(w, c) => A # {}
      /\ \A a \in A : a.comp # 0
      /\ \A x \in X : x.comp = 0
  BY DEF Ending
<1>2. CASE A = {}
  <2> SUFFICES ASSUME NEW b \in Context, NEW p \in Here(v.doc, b), p.comp # 0 PROVE FALSE
    OBVIOUS
  <2>1. p \notin Blank /\ p \notin X
    BY <1>e, BlanksHaveNone
  <2>2. p \in Here(w.doc, b)
    BY <2>1 DEF Edit
  <2>3. p.comp = w.composition
    BY <1>1, <2>2 DEF Lonely
  <2>4. TakesText(w, b) /\ b = c
    BY <2>2, <2>3, TakesIt
  <2> QED BY <1>2, <1>e, <2>4
<1>3. CASE A # {}
  <2>1. PICK a \in Here(w.doc, c) : A = {a}
    BY <1>3
  <2>2. a.comp # 0 /\ Edit(w.doc, v.doc, c, {a}, X) /\ \A x \in X : x.comp = 0
    BY <1>e, <2>1
  <2> DEFINE k == h.keys
             tm == h.terminated
  <2>3. Docs(w, k) /\ Lonely(w, tm)
    BY <1>1 DEF Fine
  <2> HIDE DEF k, tm
  <2> QED BY <2>2, <2>3, LoneGone
<1> QED BY <1>2, <1>3
\* A commit from the field of the composition, or after a key from another one.
LEMMA CommitFine ==
    ASSUME MaxKeys \in Nat, NoContext \notin Context, NEW w, NEW h, Fine(w, h), NEW g, Follows(h, g),
           w.session # NoWord, NEW t \in Real, t.word = w.session.word,
           Adds(h.committed, g.committed, t),
           g.ended = h.ended, (g.terminated <=> h.terminated),
           NEW c \in Context, g.crossed \/ w.compCtx \in {NoContext, c} \/ c = h.context,
           NEW v, DocOK(v), Gone(v), v.composition = 0, v.erased = w.erased, v.finalized = w.finalized,
           TakesText(w, c) =>
               \E a \in Here(w.doc, c) :
                   a.comp = w.composition /\ a.comp # 0 /\ Edit(w.doc, v.doc, c, {a}, Word(t)),
           ~TakesText(w, c) => Edit(w.doc, v.doc, c, {}, Word(t))
    PROVE  Fine(v, g)
<1>h. /\ h.keys \in Nat /\ Docs(w, h.keys) /\ h.committed \in Seq(Real) /\ Shows(w, h.context)
      /\ w.session.word \in Nat /\ w.session.word <= h.keys
  BY FineParts
<1>g. /\ g.keys \in Nat /\ h.keys <= g.keys /\ RestOK(g)
      /\ (h.crossed => g.crossed) /\ h.reopened \subseteq g.reopened /\ (g.ended = 0 => h.ended = 0)
  BY FollowsParts
<1>t. t # NoWord /\ t.word \in Nat \ {0} /\ t.word <= g.keys
  <2>1. t # NoWord /\ t.word \in Nat \ {0}
    BY DEF Real, NoWord
  <2> QED BY <2>1, <1>h, <1>g
<1> DEFINE X == Word(t)
<1>x. X = {Plain(t)} /\ \A x \in X : x.comp = 0 /\ x.text.word = t.word
  BY <1>t DEF Word, Plain
<1> HIDE DEF X
<1>1. PICK A \in {{}} \union {{a} : a \in Here(w.doc, c)} :
           /\ Edit(w.doc, v.doc, c, A, X)
           /\ TakesText(w, c) => A # {}
           /\ \A a \in A : a.comp = w.composition /\ a.comp # 0
  <2>1. CASE TakesText(w, c)
    <3>1. PICK a \in Here(w.doc, c) : a.comp = w.composition /\ a.comp # 0 /\ Edit(w.doc, v.doc, c, {a}, X)
      BY <2>1 DEF X
    <3> DEFINE B == {a}
    <3>2. /\ B \in {{}} \union {{b} : b \in Here(w.doc, c)} /\ B # {}
          /\ Edit(w.doc, v.doc, c, B, X) /\ \A b \in B : b.comp = w.composition /\ b.comp # 0
      BY <3>1
    <3> HIDE DEF B
    <3> QED BY <3>2
  <2>2. CASE ~TakesText(w, c)
    <3>1. Edit(w.doc, v.doc, c, {}, X)
      BY <2>2 DEF X
    <3> QED BY <2>2, <3>1
  <2> QED BY <2>1, <2>2
<1>2. \A a \in A : a \in Here(w.doc, c) /\ a.text = w.session
  BY <1>1, <1>h DEF Shows
<1>3. \A a \in A : a.text.word = 0 \/ a.text.word \in v.erased \/ \E x \in X : x.text.word = a.text.word
  BY <1>2, <1>x
<1>4. InDoc(v.doc, t.word)
  BY <1>1, <1>x, InDocEdit
<1>5. Paid(w, h.committed, v, g.committed)
  <2> SUFFICES ASSUME NEW n \in Owed(v, g.committed), n # t.word
               PROVE  n \in Owed(w, h.committed)
    BY <1>4, <1>t DEF Paid
  <2>1. CASE n \in v.finalized
    BY <2>1 DEF Owed
  <2>2. CASE n \in {g.committed[i].word : i \in DOMAIN g.committed}
    BY <2>2 DEF Owed, Adds
  <2> QED BY <2>1, <2>2 DEF Owed, Gone
<1>6. ASSUME ~g.crossed
      PROVE  \A b \in Context : \A p \in Here(v.doc, b) : p.comp = 0
  <2>1. ~h.crossed /\ (w.compCtx \in {NoContext, c} \/ c = h.context)
    BY <1>6, <1>g
  <2>2. Edit(w.doc, v.doc, c, A, X) /\ Ending(w, c, A, X)
    BY <1>1, <1>x DEF Ending
  <2>3. A \in {{}} \union {{a} : a \in Here(w.doc, c)}
    OBVIOUS
  <2> HIDE DEF X
  <2> QED BY <2>1, <2>2, <2>3, AllEnded
<1>7. ASSUME g.ended = 0
      PROVE  ~g.terminated /\ (~g.crossed => WrittenOnce(v, g.committed, g.reopened))
  <2>1. /\ ~h.terminated /\ OnScreen(w, h.reopened)
        /\ ~h.crossed => WrittenOnce(w, h.committed, h.reopened)
    BY <1>7, <1>g DEF Fine
  <2> SUFFICES ASSUME ~g.crossed, NEW i \in DOMAIN g.committed, g.committed[i].word \notin g.reopened
               PROVE  Single(v.doc, ByWord(g.committed[i].word))
    BY <2>1 DEF WrittenOnce
  <2> DEFINE n == g.committed[i].word
  <2>2. n = t.word \/ \E j \in DOMAIN h.committed : h.committed[j].word = n
    BY DEF Adds
  <2>3. n \notin h.reopened
    BY <1>g
  <2> HIDE DEF n
  <2>4. CASE n = t.word
    <3>1. ByWord(n) \in Kinds /\ Single(w.doc, ByWord(n))
      BY <1>t, <2>1, <2>3, <2>4, KindIs DEF OnScreen
    <3>2. PICK b \in Context : \E p \in Here(w.doc, b) : p.comp = w.composition /\ p.comp # 0
      BY <2>1 DEF OnScreen
    <3>3. TakesText(w, b) /\ b = c
      BY <3>2, TakesIt
    <3>4. PICK a \in A : TRUE
      BY <1>1, <3>3
    <3>5. a \in ByWord(n)
      <4>1. a \in APiece
        BY <1>2, <1>h, DocPieces DEF Docs
      <4> QED BY <1>2, <2>4, <4>1 DEF ByWord
    <3>6. A \cap ByWord(n) # {}
      BY <3>5
    <3> QED BY <1>1, <3>1, <3>6 DEF Edit, n
  <2>5. CASE n # t.word
    <3>1. PICK j \in DOMAIN h.committed : h.committed[j].word = n
      BY <2>2, <2>5
    <3>2. Single(w.doc, ByWord(n))
      BY <1>g, <2>1, <2>3, <3>1 DEF WrittenOnce
    <3>3. ByWord(n) \in Kinds
      <4>1. h.committed[j] \in Real
        BY <1>h
      <4>2. n \in Nat \ {0}
        BY <3>1, <4>1 DEF Real
      <4> QED BY <4>2, KindIs
    <3>4. X \cap ByWord(n) = {}
      BY <1>x, <2>5 DEF ByWord
    <3> QED BY <1>1, <3>2, <3>3, <3>4 DEF Edit, n
  <2> QED BY <2>4, <2>5
<1>8. KeepsText(v, g, A, X) /\ Cleared(v, g)
  BY <1>x, <1>t, <1>3, <1>6, <1>7 DEF KeepsText, Returns, Cleared
<1>9. Edit(w.doc, v.doc, c, A, X)
  BY <1>1
<1> QED BY <1>5, <1>8, <1>9, EndFine

\* u is w with another text for the word being typed, or with a new word.
Retyped(w, h, u, g) ==
    /\ u.doc = w.doc /\ u.composition = w.composition /\ u.compCtx = w.compCtx
    /\ u.finalized = w.finalized /\ w.erased \subseteq u.erased \union {u.session.word}
    /\ u.session \in Real /\ u.editor \in {NoWord, u.session} /\ u.session.word <= g.keys
    /\ w.session # NoWord => u.session.word = w.session.word
    /\ w.session = NoWord => u.session.word > h.keys \/ u.session.word \in g.reopened

\* The step of a key in c that is previewed there.
KeyIn(w, h, g, c) ==
    /\ ~h.terminated /\ ~g.terminated /\ h.keys < g.keys /\ g.committed = h.committed
    /\ g.context = c /\ (w.session # NoWord => w.compCtx \in {NoContext, c})

\* The preview is one edit: the word is in the composition v knows, in c.
LEMMA PreviewEdit ==
    ASSUME MaxKeys \in Nat, NEW w, NEW h, Fine(w, h), NEW g, NEW u, DocOK(u), Retyped(w, h, u, g),
           NEW c \in Context
    PROVE  LET v == Preview(u, c)
               x == [text |-> u.session, comp |-> v.composition]
           IN  /\ v.session = u.session /\ v.editor = u.editor /\ v.erased = u.erased
               /\ v.finalized = u.finalized /\ DocOK(v) /\ v.composition \in Nat \ {0} /\ x \in APiece
               /\ TakesText(w, c) =>
                      /\ v.composition = w.composition /\ v.compCtx = w.compCtx
                      /\ \E a \in Here(w.doc, c) :
                             a.comp = w.composition /\ a.comp # 0 /\ Edit(w.doc, v.doc, c, {a}, {x})
               /\ ~TakesText(w, c) =>
                      /\ v.compCtx = c /\ Absent(w.doc, ByComp(v.composition))
                      /\ Edit(w.doc, v.doc, c, {}, {x})
<1> DEFINE v == Preview(u, c)
           x == [text |-> u.session, comp |-> v.composition]
<1>1. FreeNumber(u.doc)
  <2> DEFINE k == h.keys
  <2>1. k \in Nat /\ k <= MaxKeys /\ Docs(w, k)
    BY FineParts
  <2> HIDE DEF k
  <2>2. FreeNumber(w.doc)
    BY <2>1, RoomForOne
  <2> QED BY <2>2 DEF Retyped
<1>2. Shown(u) = u.session /\ Composing(u) /\ u.session \in Real
  BY DEF Retyped, Shown, Composing, Real, NoWord
<1>3. TakesText(u, c) <=> TakesText(w, c)
  BY DEF Retyped, TakesText
<1>4. /\ Previewed(u, v, c) /\ DocOK(v)
      /\ TakesText(u, c) =>
             \E a \in Here(u.doc, c) :
                 a.comp = u.composition /\ a.comp # 0 /\ Edit(u.doc, v.doc, c, {a}, {x})
      /\ ~TakesText(u, c) => Edit(u.doc, v.doc, c, {}, {x})
  <2>1. Shown(u) \in Real
    BY <1>2
  <2> DEFINE y == [text |-> Shown(u), comp |-> v.composition]
  <2>2. /\ Previewed(u, v, c) /\ DocOK(v)
        /\ TakesText(u, c) =>
             \E a \in Here(u.doc, c) :
                 a.comp = u.composition /\ a.comp # 0 /\ Edit(u.doc, v.doc, c, {a}, {y})
        /\ ~TakesText(u, c) => Edit(u.doc, v.doc, c, {}, {y})
    BY <1>1, <1>2, <2>1, PreviewOp
  <2>3. x = y
    BY <1>2
  <2> QED BY <2>2, <2>3
<1> HIDE DEF v
<1>5. v.composition \in Nat \ {0}
  <2>1. CASE TakesText(u, c)
    <3>1. PICK a \in Here(u.doc, c) : a.comp = u.composition /\ a.comp # 0
      BY <1>4, <2>1
    <3>2. a.comp \in Nat
      BY DocPieces
    <3> QED BY <1>4, <2>1, <3>1, <3>2 DEF Previewed
  <2>2. CASE ~TakesText(u, c)
    BY <1>4, <2>2 DEF Previewed
  <2> QED BY <2>1, <2>2
<1>6. x \in APiece
  <2>1. u.session \in AnyText
    BY <1>2 DEF Real, AnyText
  <2> QED BY <1>5, <2>1 DEF APiece
<1> HIDE DEF x
<1>7. /\ u.doc = w.doc /\ u.composition = w.composition /\ u.compCtx = w.compCtx
  BY DEF Retyped
<1>8. /\ v.session = u.session /\ v.editor = u.editor /\ v.erased = u.erased /\ v.finalized = u.finalized
      /\ TakesText(u, c) => v.composition = u.composition /\ v.compCtx = u.compCtx
      /\ ~TakesText(u, c) => v.compCtx = c /\ Absent(u.doc, ByComp(v.composition))
  BY <1>4 DEF Previewed
<1> QED BY <1>3, <1>4, <1>5, <1>6, <1>7, <1>8 DEF v, x

\* A preview leaves the word in one live piece, in the field of the key.
LEMMA PreviewFine ==
    ASSUME MaxKeys \in Nat, NoContext \notin Context, NEW w, NEW h, Fine(w, h), NEW g, Follows(h, g),
           NEW c \in Context, KeyIn(w, h, g, c), NEW u, DocOK(u), Retyped(w, h, u, g)
    PROVE  Fine(Preview(u, c), g) /\ Preview(u, c).session = u.session
<1> DEFINE v == Preview(u, c)
           x == [text |-> u.session, comp |-> v.composition]
           X == {x}
           n == u.session.word
<1>1. /\ v.session = u.session /\ v.editor = u.editor /\ v.erased = u.erased
      /\ v.finalized = u.finalized /\ DocOK(v) /\ v.composition \in Nat \ {0} /\ x \in APiece
      /\ TakesText(w, c) =>
             /\ v.composition = w.composition /\ v.compCtx = w.compCtx
             /\ \E a \in Here(w.doc, c) :
                    a.comp = w.composition /\ a.comp # 0 /\ Edit(w.doc, v.doc, c, {a}, {x})
      /\ ~TakesText(w, c) =>
             /\ v.compCtx = c /\ Absent(w.doc, ByComp(v.composition))
             /\ Edit(w.doc, v.doc, c, {}, {x})
  BY PreviewEdit
<1>x. x.text = u.session /\ x.comp = v.composition /\ x.text.word = n
  OBVIOUS
<1> HIDE DEF v, x
<1>h. /\ h.keys \in Nat /\ Docs(w, h.keys) /\ DocOK(w) /\ Owe(w, h.committed) /\ Shows(w, h.context)
      /\ w.session.word \in Nat /\ w.session.word <= h.keys
      /\ RestOK(h) /\ h.committed \in Seq(Real)
  BY FineParts
<1>g. /\ g.keys \in Nat /\ h.keys <= g.keys /\ RestOK(g)
      /\ (h.crossed => g.crossed) /\ h.reopened \subseteq g.reopened /\ (g.ended = 0 => h.ended = 0)
  BY FollowsParts
<1>k. /\ ~h.terminated /\ ~g.terminated /\ h.keys < g.keys /\ g.committed = h.committed
      /\ g.context = c /\ (w.session # NoWord => w.compCtx \in {NoContext, c})
  BY DEF KeyIn
<1>u. /\ u.session \in Real /\ u.editor \in {NoWord, u.session} /\ n \in Nat \ {0} /\ n <= g.keys
      /\ w.session # NoWord => n = w.session.word
      /\ w.session = NoWord => n > h.keys \/ n \in g.reopened
      /\ u.finalized = w.finalized /\ w.erased \subseteq u.erased \union {n}
  BY DEF Retyped, Real
<1> HIDE DEF n
<1>2. PICK A \in {{}} \union {{a} : a \in Here(w.doc, c)} :
           /\ Edit(w.doc, v.doc, c, A, X)
           /\ TakesText(w, c) => A # {} /\ v.composition = w.composition /\ v.compCtx = w.compCtx
           /\ ~TakesText(w, c) => A = {} /\ v.compCtx = c /\ Absent(w.doc, ByComp(v.composition))
           /\ \A a \in A : a.comp = w.composition /\ a.comp # 0
  <2>1. CASE TakesText(w, c)
    <3>1. PICK a \in Here(w.doc, c) : a.comp = w.composition /\ a.comp # 0 /\ Edit(w.doc, v.doc, c, {a}, X)
      BY <1>1, <2>1
    <3> DEFINE B == {a}
    <3>2. /\ B \in {{}} \union {{b} : b \in Here(w.doc, c)} /\ B # {}
          /\ Edit(w.doc, v.doc, c, B, X) /\ \A b \in B : b.comp = w.composition /\ b.comp # 0
      BY <3>1
    <3> HIDE DEF B
    <3> QED BY <1>1, <2>1, <3>2
  <2>2. CASE ~TakesText(w, c)
    <3>1. Edit(w.doc, v.doc, c, {}, X)
      BY <1>1, <2>2
    <3> QED BY <1>1, <2>2, <3>1
  <2> QED BY <2>1, <2>2
<1>y. X = {x}
  OBVIOUS
<1> HIDE DEF X
<1>3. /\ A \subseteq Here(w.doc, c) /\ X \subseteq Here(v.doc, c)
      /\ \A a \in A : a \in APiece /\ w.session # NoWord /\ a.text = w.session /\ a.text.word = n
  <2>1. A \subseteq Here(w.doc, c) /\ X \subseteq Here(v.doc, c)
    BY <1>2 DEF Edit
  <2>2. \A a \in A : w.session # NoWord /\ a.text = w.session
    BY <1>2, <1>h, <2>1 DEF Shows
  <2> QED BY <1>h, <1>u, <2>1, <2>2, DocPieces
<1>4. Docs(v, g.keys)
  <2> DEFINE k == h.keys
             l == g.keys
  <2>1. k \in Nat /\ l \in Nat /\ k < l /\ k <= l /\ Docs(w, k) /\ x.text.word <= l
    BY <1>h, <1>g, <1>k, <1>u, <1>x
  <2> HIDE DEF k, l
  <2>2. CASE TakesText(w, c)
    <3>1. Continues(A, X, l)
      BY <1>2, <1>x, <1>y, <2>1, <2>2 DEF Continues
    <3>2. Docs(v, l)
      BY <1>1, <1>2, <2>1, <3>1, DocsEdit
    <3> QED BY <3>2 DEF l
  <2>3. CASE ~TakesText(w, c)
    <3>1. Edit(w.doc, v.doc, c, {}, {x}) /\ Absent(w.doc, ByComp(x.comp))
      BY <1>2, <1>x, <1>y, <2>3
    <3>2. Docs(v, l)
      BY <1>1, <2>1, <3>1, DocsStart
    <3> QED BY <3>2 DEF l
  <2> QED BY <2>2, <2>3
<1>5. Owe(v, g.committed)
  <2> DEFINE cm == h.committed
             dm == g.committed
  <2>1. InDoc(v.doc, n)
    BY <1>3, <1>x, <1>y DEF InDoc
  <2>2. Owe(w, cm) /\ cm = dm
    BY <1>h, <1>k
  <2> HIDE DEF cm, dm
  <2>3. Returns(v, A, X)
    BY <1>3, <1>x, <1>y DEF Returns
  <2>4. Paid(w, cm, v, dm)
    <3>1. v.session.word = n /\ n # 0 /\ v.finalized = w.finalized /\ v.erased = u.erased
      BY <1>1, <1>u DEF n
    <3>2. Owed(v, dm) \subseteq Owed(w, cm) \union {n}
      BY <2>2, <3>1 DEF Owed
    <3>3. w.erased \subseteq v.erased \union {n}
      BY <1>u, <3>1
    <3> QED BY <2>1, <3>1, <3>2, <3>3 DEF Paid
  <2>5. Owe(v, dm)
    BY <1>2, <2>2, <2>3, <2>4, OweEdit
  <2> QED BY <2>5 DEF dm
<1>6. ASSUME NEW b \in Context, NEW p \in Here(v.doc, b), p.comp = v.composition
      PROVE  p = x /\ b = c
  <2>1. x \in Here(v.doc, c)
    BY <1>3, <1>y
  <2>2. Single(v.doc, ByComp(v.composition))
    BY <1>1, <1>4 DEF Docs
  <2>3. p \in ByComp(v.composition) /\ x \in ByComp(v.composition)
    BY <1>1, <1>6, <1>x, DocPieces DEF ByComp
  <2>4. PICK i \in DOMAIN v.doc[b] : p = v.doc[b][i]
    BY DEF Here
  <2>5. PICK j \in DOMAIN v.doc[c] : x = v.doc[c][j]
    BY <2>1 DEF Here
  <2> QED BY <2>2, <2>3, <2>4, <2>5 DEF Single
<1>7. v.compCtx = c
  <2>1. CASE TakesText(w, c)
    <3>1. PICK a \in A : a.comp = w.composition /\ a.comp # 0
      BY <1>2, <2>1
    <3>2. a \in Here(w.doc, c)
      BY <1>3
    <3>3. w.compCtx = c
      BY <3>1, <3>2, TakesIt
    <3> QED BY <1>2, <2>1, <3>3
  <2> QED BY <1>2, <2>1
<1>8. Shows(v, g.context)
  <2>1. v.session # NoWord
    BY <1>1, <1>u DEF Real, NoWord
  <2> QED BY <1>1, <1>6, <1>7, <1>k, <1>x, <2>1 DEF Shows
<1>9. ASSUME ~TakesText(w, c), NEW b \in Context, NEW p \in Here(w.doc, b), p.comp = w.composition, p.comp # 0
      PROVE  FALSE
  <2>1. w.session # NoWord /\ TakesText(w, b) /\ \A d \in Context : w.compCtx \in {NoContext, d} => d = b
    BY <1>9, TakesIt
  <2>2. b = c
    BY <1>k, <2>1
  <2> QED BY <1>9, <2>1, <2>2
<1>10. ~g.crossed => Lonely(v, g.terminated)
  <2> SUFFICES ASSUME ~g.crossed, NEW b \in Context, NEW p \in Here(v.doc, b), p.comp # 0
               PROVE  p.comp = v.composition
    BY <1>k DEF Lonely
  <2>1. p \in X \/ p \in Here(w.doc, b)
    BY <1>2, BlanksHaveNone DEF Edit
  <2>2. CASE p \in Here(w.doc, b)
    <3>1. p.comp = w.composition
      BY <1>g, <2>2 DEF Fine, Lonely
    <3>2. TakesText(w, c)
      BY <1>9, <2>2, <3>1
    <3> QED BY <1>2, <3>1, <3>2
  <2>3. CASE p \in X
    BY <1>x, <1>y, <2>3
  <2> QED BY <2>1, <2>2, <2>3
<1>11. ASSUME g.ended = 0
       PROVE  OnScreen(v, g.reopened) /\ (~g.crossed => WrittenOnce(v, g.committed, g.reopened))
  <2>1. OnScreen(w, h.reopened) /\ (~h.crossed => WrittenOnce(w, h.committed, h.reopened))
    BY <1>11, <1>g DEF Fine
  <2>2. ASSUME n \notin g.reopened PROVE Single(v.doc, ByWord(n))
    <3>1. ByWord(n) \in Kinds
      BY <1>u, KindIs
    <3>2. CASE w.session # NoWord
      <4>1. Single(w.doc, ByWord(n))
        BY <1>g, <1>u, <2>1, <2>2, <3>2 DEF OnScreen
      <4>2. TakesText(w, c)
        BY <1>9, <2>1, <3>2 DEF OnScreen
      <4>3. A \cap ByWord(n) # {}
        BY <1>2, <1>3, <4>2 DEF ByWord
      <4> QED BY <1>2, <3>1, <4>1, <4>3 DEF Edit
    <3>3. CASE w.session = NoWord
      <4>1. n > h.keys
        BY <1>u, <2>2, <3>3
      <4>2. Absent(w.doc, ByWord(n))
        <5> SUFFICES ASSUME NEW b \in Context, NEW p \in Here(w.doc, b), p.text.word = n
                     PROVE  FALSE
          BY DEF Absent, ByWord
        <5>1. p.text.word <= h.keys
          BY <1>h DEF Docs
        <5> QED BY <1>h, <1>u, <4>1, <5>1
      <4>3. Single(w.doc, ByWord(n))
        BY <4>2 DEF Single, Absent, Here
      <4> QED BY <1>2, <3>1, <4>2, <4>3 DEF Edit
    <3> QED BY <3>2, <3>3
  <2>3. OnScreen(v, g.reopened)
    BY <1>1, <1>3, <1>x, <1>y, <2>2 DEF OnScreen, n
  <2>4. ASSUME ~g.crossed, NEW i \in DOMAIN g.committed, g.committed[i].word \notin g.reopened
        PROVE  Single(v.doc, ByWord(g.committed[i].word))
    <3> DEFINE q == g.committed[i].word
    <3>1. q \in Nat \ {0} /\ q <= h.keys /\ Single(w.doc, ByWord(q))
      <4>1. i \in DOMAIN h.committed /\ q = h.committed[i].word
        BY <1>k
      <4>2. h.committed[i] \in Real /\ h.committed[i].word <= h.keys
        BY <1>h, <4>1 DEF RestOK
      <4>3. q \in Nat \ {0} /\ q <= h.keys
        BY <4>1, <4>2 DEF Real
      <4>4. WrittenOnce(w, h.committed, h.reopened) /\ q \notin h.reopened
        BY <1>g, <2>1, <2>4
      <4> HIDE DEF q
      <4>5. Single(w.doc, ByWord(q))
        BY <4>1, <4>4 DEF WrittenOnce
      <4> QED BY <4>3, <4>5
    <3>2. ByWord(q) \in Kinds
      BY <3>1, KindIs
    <3>3. q \notin g.reopened
      BY <2>4
    <3> HIDE DEF q
    <3>4. X \cap ByWord(q) = {} \/ A \cap ByWord(q) # {}
      <4>1. CASE q = n
        <5>1. w.session # NoWord
          BY <1>u, <1>h, <3>1, <3>3, <4>1
        <5>2. TakesText(w, c)
          BY <1>9, <2>1, <5>1 DEF OnScreen
        <5> QED BY <1>2, <1>3, <4>1, <5>2 DEF ByWord
      <4>2. CASE q # n
        BY <1>x, <1>y, <4>2 DEF ByWord
      <4> QED BY <4>1, <4>2
    <3>5. Single(v.doc, ByWord(q))
      BY <1>2, <3>1, <3>2, <3>4 DEF Edit
    <3> QED BY <3>5 DEF q
  <2> QED BY <2>3, <2>4 DEF WrittenOnce
<1>12. /\ v.session \in Letters /\ v.editor \in {NoWord, v.session} /\ v.session.word <= g.keys
       /\ v.compCtx \in Context \union {NoContext}
  <2>1. u.session \in Letters
    BY <1>u DEF Real, Letters
  <2> QED BY <1>1, <1>7, <1>u, <2>1 DEF n
<1>13. Fine(v, g)
  BY <1>4, <1>5, <1>8, <1>10, <1>11, <1>12, <1>g, <1>k DEF Fine
<1> QED BY <1>1, <1>13 DEF v

\* The step neither commits a word nor ends one.
SameRest(h, g) == g.committed = h.committed /\ (g.terminated <=> h.terminated)

\* Nothing but blanks came or went.
LEMMA QuietFine ==
    ASSUME MaxKeys \in Nat, NEW w, NEW h, Fine(w, h), NEW g, Follows(h, g), SameRest(h, g),
           w.session = NoWord \/ g.context = h.context,
           NEW v, DocOK(v), SameWord(w, v),
           NEW f \in Context, Edit(w.doc, v.doc, f, {}, {})
    PROVE  Fine(v, g)
<1> DEFINE A == {}
           X == {}
           tm == h.terminated
<1>1. /\ Edit(w.doc, v.doc, f, A, X) /\ Joins(A, X) /\ Spares(w, v, A, X) /\ A = {}
  BY DEF Joins, Spares, Returns
<1> HIDE DEF A, X
<1>2. ASSUME ~g.crossed PROVE Lonely(v, g.terminated)
  <2>1. Lonely(w, tm) /\ (tm <=> g.terminated)
    BY <1>2 DEF Fine, Follows, SameRest
  <2> HIDE DEF tm
  <2>2. v.composition = w.composition
    BY DEF SameWord
  <2>3. Lonely(v, tm)
    BY <1>1, <2>1, <2>2, LonelyEdit
  <2> QED BY <2>1, <2>3 DEF Lonely
<1>3. g.committed = h.committed /\ (g.terminated <=> h.terminated)
  BY DEF SameRest
<1> QED BY <1>1, <1>2, <1>3, StillFine

\* A Backspace in the document of an idle thread, or the piece before the caret
\* taken away: what goes is erased.
LEMMA ForgetFine ==
    ASSUME MaxKeys \in Nat, NEW w, NEW h, Fine(w, h), NEW g, Follows(h, g), SameRest(h, g),
           w.session = NoWord, NEW v, DocOK(v), SameWord(w, v), NEW f \in Context,
           NEW a \in Here(w.doc, f), NEW X, Edit(w.doc, v.doc, f, {a}, X),
           v.erased = w.erased \union {a.text.word},
           \A x \in X : x.comp = a.comp /\ x.text.word = a.text.word
    PROVE  Fine(v, g)
<1> DEFINE A == {a}
           tm == h.terminated
<1>0. a.comp = w.composition => a.comp = 0
  BY DEF Fine, Shows
<1>1. /\ Edit(w.doc, v.doc, f, A, X) /\ Joins(A, X) /\ Spares(w, v, A, X)
  BY <1>0 DEF Joins, Spares, Returns
<1> HIDE DEF A
<1>2. ASSUME ~g.crossed PROVE Lonely(v, g.terminated)
  <2>1. Lonely(w, tm) /\ (tm <=> g.terminated)
    BY <1>2 DEF Fine, Follows, SameRest
  <2> HIDE DEF tm
  <2>2. v.composition = w.composition
    BY DEF SameWord
  <2>3. Lonely(v, tm)
    BY <1>1, <2>1, <2>2, LonelyEdit
  <2> QED BY <2>1, <2>3 DEF Lonely
<1>3. g.committed = h.committed /\ (g.terminated <=> h.terminated)
  BY DEF SameRest
<1> QED BY <1>1, <1>2, <1>3, StillFine

\* The fields where the composition of the state lives, and what it shows there.
Fields(w) == {c \in Context : Lives(w.doc[c], w.composition)}
OnScreenIn(w, c) == w.doc[c][Place(w.doc[c], w.composition)].text.word

\* finalize_composition forgets the word before it requests the edit.
Dropped(w, u) ==
    /\ u.doc = w.doc /\ u.composition = w.composition /\ u.session = NoWord /\ u.editor = NoWord
    /\ u.compCtx = NoContext /\ u.erased = w.erased
    /\ u.finalized = w.finalized \union {OnScreenIn(w, c) : c \in Fields(w)}

\* What the composition shows is the word.
LEMMA ShownIsTheWord ==
    ASSUME MaxKeys \in Nat, NEW w, NEW h, Fine(w, h), NEW c \in Fields(w)
    PROVE  /\ OnScreenIn(w, c) = w.session.word /\ w.session # NoWord /\ w.composition # 0
           /\ \E p \in Here(w.doc, c) : p.comp = w.composition /\ p.comp # 0
<1>1. w.doc[c] \in Seq(APiece) /\ c \in Context /\ Lives(w.doc[c], w.composition)
  BY FineParts DEF DocOK, Fields
<1> DEFINE i == Place(w.doc[c], w.composition)
<1>2. i \in 1..Len(w.doc[c]) /\ w.doc[c][i].comp = w.composition /\ w.composition # 0
  BY <1>1, PlaceIs
<1>3. w.doc[c][i] \in Here(w.doc, c)
  BY <1>1, <1>2, HereIs
<1>4. w.doc[c][i].text = w.session /\ w.session # NoWord
  BY <1>1, <1>2, <1>3 DEF Fine, Shows
<1> QED BY <1>2, <1>3, <1>4 DEF OnScreenIn

\* The freed piece has the text and no composition.
LEMMA FreedIs ==
    ASSUME NEW a \in APiece
    PROVE  /\ \A x \in Freed(a) : x.comp = 0 /\ x.text.word = a.text.word
           /\ a.text.word # 0 => \E x \in Freed(a) : x.text.word = a.text.word
<1>1. Plain(a.text).comp = 0 /\ Plain(a.text).text = a.text
  BY DEF Plain
<1>2. a.text.word # 0 => Plain(a.text) \notin Blank
  BY <1>1 DEF Blank
<1> QED BY <1>1, <1>2 DEF Freed

\* finalize_composition leaves what is shown as text.
LEMMA FinalizeFine ==
    ASSUME MaxKeys \in Nat, NoContext \notin Context, NEW w, NEW h, Fine(w, h),
           NEW g, Follows(h, g), SameRest(h, g),
           NEW u, DocOK(u), Dropped(w, u), NEW b \in Context
    PROVE  /\ Fields(w) = {} => Fine(u, g)
           /\ \A f \in Fields(w) : Fine(Finalize(u, f), g)
<1>h. /\ h.keys \in Nat /\ Docs(w, h.keys) /\ DocOK(w) /\ Owe(w, h.committed)
      /\ h.committed \in Seq(Real) /\ w.session.word \in Nat /\ w.session.word <= h.keys
      /\ w.session # NoWord => w.session.word # 0
  BY FineParts
<1>g. /\ g.keys \in Nat /\ h.keys <= g.keys /\ RestOK(g)
      /\ (h.crossed => g.crossed) /\ h.reopened \subseteq g.reopened /\ (g.ended = 0 => h.ended = 0)
      /\ g.committed = h.committed /\ (g.terminated <=> h.terminated)
  BY FollowsParts DEF SameRest
<1>u. /\ u.doc = w.doc /\ u.composition = w.composition /\ u.session = NoWord /\ u.editor = NoWord
      /\ u.compCtx = NoContext /\ u.erased = w.erased
      /\ u.finalized = w.finalized \union {OnScreenIn(w, c) : c \in Fields(w)}
  BY DEF Dropped
<1>f. g.ended = 0 => /\ ~g.terminated
                     /\ ~g.crossed => WrittenOnce(w, h.committed, h.reopened)
  BY <1>g DEF Fine
<1>1. ASSUME Fields(w) = {} PROVE Fine(u, g)
  <2>1. ASSUME NEW c \in Context, NEW p \in Here(w.doc, c) PROVE p.comp # w.composition \/ p.comp = 0
    BY <1>1 DEF Fields, Lives, Here
  <2>2. Gone(u)
    BY <1>u, <2>1 DEF Gone, Absent, ByComp
  <2> DEFINE A == {}
             X == {}
  <2>3. Edit(w.doc, u.doc, b, A, X)
    <3>1. \A c \in Context : u.doc[c] = w.doc[c]
      BY <1>u
    <3>2. Edit(w.doc, u.doc, b, {}, {})
      BY <3>1, EditNone
    <3> QED BY <3>2
  <2>4. KeepsText(u, g, A, X)
    BY DEF KeepsText, Returns
  <2> HIDE DEF A, X
  <2>5. Paid(w, h.committed, u, g.committed)
    <3>1. Owed(u, g.committed) \subseteq Owed(w, h.committed)
      BY <1>1, <1>g, <1>u DEF Owed
    <3> QED BY <1>u, <3>1 DEF Paid
  <2>6. Cleared(u, g)
    <3>1. ASSUME ~g.crossed, NEW c \in Context, NEW p \in Here(u.doc, c) PROVE p.comp = 0
      <4>1. Lonely(w, h.terminated)
        BY <1>g, <3>1 DEF Fine
      <4> QED BY <1>u, <2>1, <4>1 DEF Lonely
    <3>2. ~g.crossed /\ g.ended = 0 => WrittenOnce(u, g.committed, g.reopened)
      BY <1>f, <1>g, <1>u DEF WrittenOnce
    <3> QED BY <1>f, <3>1, <3>2 DEF Cleared
  <2> QED BY <2>2, <2>3, <2>4, <2>5, <2>6, EndFine
<1>2. ASSUME NEW f \in Fields(w) PROVE Fine(Finalize(u, f), g)
  <2> DEFINE v == Finalize(u, f)
  <2>0. f \in Context /\ Lives(u.doc[f], u.composition)
    BY <1>u DEF Fields
  <2>1. /\ Ends(u, v) /\ DocOK(v)
        /\ \E a \in Here(u.doc, f) : a.comp = u.composition /\ a.comp # 0 /\ Edit(u.doc, v.doc, f, {a}, Freed(a))
    BY <2>0, FinalizeOp
  <2> HIDE DEF v
  <2>2. PICK a \in Here(w.doc, f) :
            a.comp = w.composition /\ a.comp # 0 /\ Edit(w.doc, v.doc, f, {a}, Freed(a))
    BY <1>u, <2>1
  <2>a. a \in APiece
    BY <1>h, <2>0, DocPieces
  <2> DEFINE A == {a}
             X == Freed(a)
  <2>x. /\ \A x \in X : x.comp = 0 /\ x.text.word = a.text.word
        /\ a.text.word # 0 => \E x \in X : x.text.word = a.text.word
    BY <2>a, FreedIs
  <2>3. Edit(w.doc, v.doc, f, A, X) /\ A = {a}
    BY <2>2
  <2> HIDE DEF A, X
  <2>t. a.text = w.session /\ w.session # NoWord
    BY <2>0, <2>2 DEF Fine, Shows
  <2>4. Gone(v)
    BY <1>u, <2>1 DEF Gone, Ends
  <2>5. KeepsText(v, g, A, X)
    BY <1>g, <1>h, <2>3, <2>t, <2>x DEF KeepsText, Returns
  <2>6. Paid(w, h.committed, v, g.committed)
    <3> DEFINE n == w.session.word
    <3>1. InDoc(v.doc, n) /\ n # 0
      <4>1. PICK x \in X : x.text.word = n
        BY <1>h, <2>t, <2>x
      <4>2. x \in Here(v.doc, f)
        BY <2>3 DEF Edit
      <4> QED BY <1>h, <2>0, <2>t, <4>1, <4>2 DEF InDoc
    <3>2. \A c \in Fields(w) : OnScreenIn(w, c) = n
      BY ShownIsTheWord
    <3> HIDE DEF n
    <3>3. /\ v.session = NoWord /\ v.erased = w.erased
          /\ v.finalized = w.finalized \union {OnScreenIn(w, c) : c \in Fields(w)}
      BY <1>u, <2>1 DEF Ends
    <3>4. Owed(v, g.committed) \subseteq Owed(w, h.committed) \union {n}
      BY <1>g, <3>2, <3>3 DEF Owed
    <3> QED BY <3>1, <3>3, <3>4 DEF Paid
  <2>7. Cleared(v, g)
    <3>1. ASSUME ~g.crossed PROVE \A c \in Context : \A p \in Here(v.doc, c) : p.comp = 0
      <4> DEFINE k == h.keys
                 tm == h.terminated
      <4>1. Docs(w, k) /\ Lonely(w, tm)
        BY <1>g, <1>h, <3>1 DEF Fine
      <4> HIDE DEF k, tm
      <4>2. Edit(w.doc, v.doc, f, {a}, X) /\ \A x \in X : x.comp = 0
        BY <2>3, <2>x
      <4> QED BY <2>0, <2>1, <2>2, <4>1, <4>2, LoneGone
    <3>2. ASSUME ~g.crossed, g.ended = 0 PROVE WrittenOnce(v, g.committed, g.reopened)
      <4> DEFINE cm == h.committed
                 ro == h.reopened
                 so == g.reopened
      <4>1. WrittenOnce(w, cm, ro) /\ ro \subseteq so /\ cm \in Seq(Real)
        BY <1>f, <1>g, <1>h, <3>2
      <4>2. A \subseteq APiece /\ \A x \in X : x.text.word \in so \/ \E b_ \in A : b_.text.word = x.text.word
        BY <2>3, <2>a, <2>x
      <4> HIDE DEF cm, ro, so
      <4>3. WrittenOnce(v, cm, so)
        BY <2>3, <4>1, <4>2, WrittenEdit
      <4> QED BY <1>g, <4>3 DEF cm, so
    <3> QED BY <1>f, <3>1, <3>2 DEF Cleared
  <2>8. Fine(v, g)
    BY <2>0, <2>1, <2>3, <2>4, <2>5, <2>6, <2>7, EndFine
  <2> QED BY <2>8 DEF v
<1> QED BY <1>1, <1>2

\* Backspace on the last letter erases the word and the composition.
LEMMA CancelFine ==
    ASSUME MaxKeys \in Nat, NoContext \notin Context, NEW w, NEW h, Fine(w, h),
           NEW g, Follows(h, g), SameRest(h, g), w.session # NoWord,
           NEW c \in Context, w.compCtx \in {NoContext, c}, NEW v, DocOK(v), Gone(v),
           v.erased = w.erased \union {w.session.word}, v.finalized = w.finalized,
           TakesText(w, c) =>
               \E a \in Here(w.doc, c) :
                   a.comp = w.composition /\ a.comp # 0 /\ Edit(w.doc, v.doc, c, {a}, {}),
           ~TakesText(w, c) => Edit(w.doc, v.doc, c, {}, {})
    PROVE  Fine(v, g)
<1>h. /\ h.keys \in Nat /\ Docs(w, h.keys) /\ h.committed \in Seq(Real) /\ Shows(w, h.context)
      /\ w.session.word # 0
  BY FineParts
<1>g. /\ g.keys \in Nat /\ h.keys <= g.keys /\ RestOK(g)
      /\ (h.crossed => g.crossed) /\ h.reopened \subseteq g.reopened /\ (g.ended = 0 => h.ended = 0)
      /\ g.committed = h.committed /\ (g.terminated <=> h.terminated)
  BY FollowsParts DEF SameRest
<1> DEFINE X == {}
<1>x. X = {}
  OBVIOUS
<1> HIDE DEF X
<1>1. PICK A \in {{}} \union {{a} : a \in Here(w.doc, c)} :
           /\ Edit(w.doc, v.doc, c, A, X)
           /\ TakesText(w, c) => A # {}
           /\ \A a \in A : a.comp = w.composition /\ a.comp # 0
  <2>1. CASE TakesText(w, c)
    <3>1. PICK a \in Here(w.doc, c) : a.comp = w.composition /\ a.comp # 0 /\ Edit(w.doc, v.doc, c, {a}, X)
      BY <2>1 DEF X
    <3> DEFINE B == {a}
    <3>2. /\ B \in {{}} \union {{b} : b \in Here(w.doc, c)} /\ B # {}
          /\ Edit(w.doc, v.doc, c, B, X) /\ \A b \in B : b.comp = w.composition /\ b.comp # 0
      BY <3>1
    <3> HIDE DEF B
    <3> QED BY <3>2
  <2>2. CASE ~TakesText(w, c)
    <3>1. Edit(w.doc, v.doc, c, {}, X)
      BY <2>2 DEF X
    <3> QED BY <2>2, <3>1
  <2> QED BY <2>1, <2>2
<1>2. \A a \in A : a \in Here(w.doc, c) /\ a \in APiece /\ a.text = w.session
  <2>1. A \subseteq Here(w.doc, c)
    BY <1>1 DEF Edit
  <2>2. \A a \in A : a \in APiece
    BY <1>h, <2>1, DocPieces DEF Docs
  <2> QED BY <1>1, <1>h, <2>1, <2>2 DEF Shows
<1>3. KeepsText(v, g, A, X)
  BY <1>2, <1>x DEF KeepsText, Returns
<1>4. Paid(w, h.committed, v, g.committed)
  <2>1. Owed(v, g.committed) \subseteq Owed(w, h.committed)
    BY <1>g DEF Owed, Gone
  <2> QED BY <2>1 DEF Paid
<1>5. Cleared(v, g)
  <2>1. ASSUME ~g.crossed PROVE \A b \in Context : \A p \in Here(v.doc, b) : p.comp = 0
    <3>1. ~h.crossed
      BY <1>g, <2>1
    <3>2. Edit(w.doc, v.doc, c, A, X) /\ Ending(w, c, A, X)
      BY <1>1, <1>x DEF Ending
    <3>3. w.compCtx \in {NoContext, c} \/ c = h.context
      OBVIOUS
    <3>4. A \in {{}} \union {{a} : a \in Here(w.doc, c)}
      OBVIOUS
    <3> QED BY <3>1, <3>2, <3>3, <3>4, AllEnded
  <2>2. g.ended = 0 => ~g.terminated /\ (~g.crossed => WrittenOnce(w, h.committed, h.reopened))
    BY <1>g DEF Fine
  <2>3. ASSUME ~g.crossed, g.ended = 0 PROVE WrittenOnce(v, g.committed, g.reopened)
    <3> DEFINE cm == h.committed
               ro == h.reopened
               so == g.reopened
    <3>1. WrittenOnce(w, cm, ro) /\ ro \subseteq so /\ cm \in Seq(Real)
      BY <1>g, <1>h, <2>2, <2>3
    <3>2. A \subseteq APiece /\ \A x \in X : x.text.word \in so \/ \E b_ \in A : b_.text.word = x.text.word
      BY <1>2, <1>x
    <3> HIDE DEF cm, ro, so
    <3>3. WrittenOnce(v, cm, so)
      BY <1>1, <3>1, <3>2, WrittenEdit
    <3> QED BY <1>g, <3>3 DEF cm, so
  <2> QED BY <2>1, <2>2, <2>3 DEF Cleared
<1>6. Edit(w.doc, v.doc, c, A, X)
  BY <1>1
<1> QED BY <1>3, <1>4, <1>5, <1>6, EndFine

\* drop_dead_state: the composition is gone, and so is the word.
LEMMA DeadFine ==
    ASSUME MaxKeys \in Nat, NEW w, NEW h, Fine(w, h), h.terminated, NEW g, Follows(h, g),
           g.committed = h.committed, NEW v, DocOK(v), Gone(v), v.doc = w.doc,
           v.erased = w.erased, v.finalized = w.finalized, NEW f \in Context
    PROVE  Fine(v, g)
<1>1. /\ (h.crossed => g.crossed) /\ g.ended # 0
  BY FollowsParts DEF Fine
<1> DEFINE A == {}
           X == {}
<1>2. Edit(w.doc, v.doc, f, A, X)
  <2>1. \A c \in Context : v.doc[c] = w.doc[c]
    OBVIOUS
  <2>2. Edit(w.doc, v.doc, f, {}, {})
    BY <2>1, EditNone
  <2> QED BY <2>2
<1>3. KeepsText(v, g, A, X)
  BY DEF KeepsText, Returns
<1> HIDE DEF A, X
<1>4. Paid(w, h.committed, v, g.committed)
  <2>1. Owed(v, g.committed) \subseteq Owed(w, h.committed)
    BY DEF Owed, Gone
  <2> QED BY <2>1 DEF Paid
<1>5. Cleared(v, g)
  BY <1>1 DEF Cleared, Fine, Lonely
<1> QED BY <1>2, <1>3, <1>4, <1>5, EndFine

\* The host ends a composition, and the state forgets the word with it.
LEMMA HostEndFine ==
    ASSUME MaxKeys \in Nat, NEW w, NEW h, Fine(w, h), NEW g, Follows(h, g), SameRest(h, g), g.ended # 0,
           NEW v, DocOK(v), Gone(v), v.erased = w.erased, v.finalized = w.finalized,
           NEW c \in Context, NEW a \in Here(w.doc, c), a.comp # 0, Edit(w.doc, v.doc, c, {a}, Freed(a))
    PROVE  Fine(v, g)
<1>h. h.keys \in Nat /\ Docs(w, h.keys) /\ DocOK(w)
  BY FineParts
<1>g. /\ g.keys \in Nat /\ h.keys <= g.keys /\ (h.crossed => g.crossed)
      /\ g.committed = h.committed /\ (g.terminated <=> h.terminated)
  BY FollowsParts DEF SameRest
<1>a. a \in APiece /\ a.text.word \in Nat /\ a.text.word <= h.keys
  BY <1>h, DocPieces DEF Docs
<1> DEFINE A == {a}
           X == Freed(a)
<1>x. /\ \A x \in X : x.comp = 0 /\ x.text.word = a.text.word
      /\ a.text.word # 0 => \E x \in X : x.text.word = a.text.word
  BY <1>a, FreedIs
<1>1. Edit(w.doc, v.doc, c, A, X) /\ A = {a}
  OBVIOUS
<1> HIDE DEF A, X
<1>2. KeepsText(v, g, A, X)
  BY <1>1, <1>a, <1>g, <1>h, <1>x DEF KeepsText, Returns
<1>3. Paid(w, h.committed, v, g.committed)
  <2>1. Owed(v, g.committed) \subseteq Owed(w, h.committed)
    BY <1>g DEF Owed, Gone
  <2> QED BY <2>1 DEF Paid
<1>4. ASSUME ~g.crossed PROVE \A b \in Context : \A p \in Here(v.doc, b) : p.comp = 0
  <2> DEFINE k == h.keys
             tm == h.terminated
  <2>1. Docs(w, k) /\ Lonely(w, tm)
    BY <1>g, <1>h, <1>4 DEF Fine
  <2> HIDE DEF k, tm
  <2>2. Edit(w.doc, v.doc, c, {a}, X) /\ \A x \in X : x.comp = 0
    BY <1>1, <1>x
  <2> QED BY <2>1, <2>2, LoneGone
<1>5. Cleared(v, g)
  BY <1>4 DEF Cleared
<1> QED BY <1>1, <1>2, <1>3, <1>5, EndFine

\* The host ends a composition, and the state does not know yet.
LEMMA HostKeepsFine ==
    ASSUME MaxKeys \in Nat, NEW w, NEW h, Fine(w, h), NEW g, Follows(h, g),
           g.committed = h.committed, g.context = h.context, g.ended # 0,
           NEW v, DocOK(v), SameWord(w, v),
           NEW c \in Context, NEW a \in Here(w.doc, c), a.comp # 0, Edit(w.doc, v.doc, c, {a}, Freed(a))
    PROVE  Fine(v, g)
<1>h. h.keys \in Nat /\ Docs(w, h.keys) /\ DocOK(w)
  BY FineParts
<1>a. a \in APiece
  BY <1>h, DocPieces
<1> DEFINE A == {a}
           X == Freed(a)
<1>x. /\ \A x \in X : x.comp = 0 /\ x.text.word = a.text.word
      /\ a.text.word # 0 => \E x \in X : x.text.word = a.text.word
  BY <1>a, FreedIs
<1>1. Edit(w.doc, v.doc, c, A, X) /\ A = {a}
  OBVIOUS
<1> HIDE DEF A, X
<1>2. Spares(w, v, A, X)
  BY <1>1, <1>x DEF Spares, Returns
<1>3. ASSUME ~g.crossed PROVE Lonely(v, g.terminated)
  <2> DEFINE k == h.keys
             tm == h.terminated
  <2>1. Docs(w, k) /\ Lonely(w, tm)
    BY <1>h, <1>3, FollowsParts DEF Fine
  <2> HIDE DEF k, tm
  <2>2. Edit(w.doc, v.doc, c, {a}, X) /\ \A x \in X : x.comp = 0
    BY <1>1, <1>x
  <2>3. \A b \in Context : \A p \in Here(v.doc, b) : p.comp = 0
    BY <2>1, <2>2, LoneGone
  <2> QED BY <2>3 DEF Lonely
<1> QED BY <1>1, <1>2, <1>3, StillFine

-----------------------------------------------------------------------------
(* The handlers, one by one.                                               *)

\* In the host that grants every session at once: no word is newer than the last key.
SyncInv == anchor.text.word <= keys /\ Fine(World, Rest_)

\* What handlers may assume.
Sync == SyncInv /\ PopupInv /\ ArabicWhileComposing

\* The state as the world that sessions see.
LEMMA WorldFields ==
    /\ World.session = session /\ World.editor = editor /\ World.composition = composition
    /\ World.compCtx = compCtx /\ World.popup = popup /\ World.doc = doc /\ World.caret = caret
    /\ World.erased = erased /\ World.finalized = finalized
BY DEF World

\* The rest of the state, before and after a step.
LEMMA RestFields ==
    /\ Rest_.keys = keys /\ Rest_.context = context /\ Rest_.crossed = crossed
    /\ Rest_.terminated = terminated /\ Rest_.committed = committed
    /\ Rest_.reopened = reopened /\ Rest_.ended = ended
    /\ Rest_'.keys = keys' /\ Rest_'.context = context' /\ Rest_'.crossed = crossed'
    /\ Rest_'.terminated = terminated' /\ Rest_'.committed = committed'
    /\ Rest_'.reopened = reopened' /\ Rest_'.ended = ended'
BY DEF Rest_

\* The state becomes what its sessions leave.
LEMMA Landing ==
    ASSUME NEW v, IsWorld(v), Become(v), Fine(v, Rest_'), anchor'.text.word <= keys'
    PROVE  SyncInv'
<1>1. World' = v
  BY DEF Become, World, IsWorld, Field
<1>2. Fine(World', Rest_')
  BY <1>1
<1> QED BY <1>2 DEF SyncInv

\* Sessions run at once.
LEMMA RunNone ==
    ASSUME ~Deferred, NEW w, Run(w, <<>>)
    PROVE  Become(w)
<1>1. Become(After(w, <<>>, 0))
  BY DEF Run
<1> QED BY <1>1 DEF After

\* ... the only one that a handler requests ...
LEMMA RunOne ==
    ASSUME ~Deferred, NEW w, NEW r, Run(w, <<r>>)
    PROVE  Become(Apply(w, r))
<1> DEFINE rs == <<r>>
<1>1. Len(rs) = 1 /\ rs[1] = r
  OBVIOUS
<1>2. Become(After(w, rs, Len(rs)))
  BY DEF Run
<1> HIDE DEF rs
<1>3. After(w, rs, Len(rs)) = Apply(w, r)
  BY <1>1 DEF After
<1> QED BY <1>2, <1>3

\* ... or two, in the order of the requests.
LEMMA RunTwo ==
    ASSUME ~Deferred, NEW w, NEW r, NEW s, Run(w, <<r, s>>)
    PROVE  Become(Apply(Apply(w, r), s))
<1> DEFINE rs == <<r, s>>
<1>1. Len(rs) = 2 /\ rs[1] = r /\ rs[2] = s
  OBVIOUS
<1>2. Become(After(w, rs, Len(rs)))
  BY DEF Run
<1> HIDE DEF rs
<1>3. After(w, rs, Len(rs)) = Apply(Apply(w, r), s)
  BY <1>1 DEF After
<1> QED BY <1>2, <1>3

\* What a step that commits nothing does to the rest of the state.
LEMMA RestFollows ==
    ASSUME MaxKeys \in Nat, RestOK(Rest_), keys' \in {keys, keys + 1}, keys' <= MaxKeys,
           context' \in Context \union {NoContext}, ended' \in {ended, ended + 1},
           committed' = committed, (crossed' <=> crossed), reopened \subseteq reopened'
    PROVE  Follows(Rest_, Rest_')
<1> DEFINE h == Rest_
           g == Rest_'
<1>1. /\ h.keys = keys /\ h.context = context /\ h.crossed = crossed /\ h.committed = committed
      /\ h.reopened = reopened /\ h.ended = ended
      /\ g.keys = keys' /\ g.context = context' /\ g.crossed = crossed' /\ g.committed = committed'
      /\ g.reopened = reopened' /\ g.ended = ended'
  BY RestFields
<1>b. g.crossed <=> h.crossed
  BY RestFields
<1> HIDE DEF h, g
<1>2. RestOK(h)
  BY DEF h
<1>3. /\ keys \in 0..MaxKeys /\ ended \in Nat /\ committed \in Seq(Real)
      /\ \A i \in DOMAIN committed : committed[i].word <= keys
      /\ h.crossed => Several
  BY <1>1, <1>2 DEF RestOK
<1>4. \A i \in DOMAIN committed : committed[i].word \in Nat
  <2>1. \A i \in DOMAIN committed : committed[i] \in Real
    BY <1>3
  <2> QED BY <2>1 DEF Real
<1>5. RestOK(g)
  BY <1>1, <1>3, <1>4, <1>b DEF RestOK
<1>6. g.keys >= h.keys /\ (g.ended = 0 => h.ended = 0)
  BY <1>1, <1>3
<1>7. Follows(h, g)
  BY <1>1, <1>5, <1>6, <1>b DEF Follows
<1> QED BY <1>7 DEF h, g

\* What a handler finds.
LEMMA SyncFacts ==
    ASSUME MaxKeys \in Nat, Sync
    PROVE  /\ Fine(World, Rest_) /\ RestOK(Rest_) /\ DocOK(World) /\ IsWorld(World)
           /\ session \in Letters /\ editor \in {NoWord, session}
           /\ session # NoWord => session \in Real
           /\ (Composing(World) <=> session # NoWord) /\ Shown(World) = session
           /\ session.word \in Nat /\ session.word <= keys /\ keys \in 0..MaxKeys
           /\ compCtx \in Context \union {NoContext} /\ context \in Context \union {NoContext}
           /\ ended \in Nat /\ committed \in Seq(Real) /\ reopened \subseteq reopened
           /\ anchor \in Anchors /\ anchor.text.word \in Nat /\ anchor.text.word <= keys
<1> DEFINE w == World
           h == Rest_
<1>1. Fine(w, h) /\ anchor \in Anchors /\ anchor.text.word <= keys
  BY DEF Sync, SyncInv, PopupInv
<1>2. /\ w.session = session /\ w.editor = editor /\ w.compCtx = compCtx
      /\ h.keys = keys /\ h.context = context /\ h.ended = ended /\ h.committed = committed
  BY WorldFields, RestFields
<1> HIDE DEF w, h
<1>3. /\ RestOK(h) /\ DocOK(w) /\ w.session \in Letters /\ w.editor \in {NoWord, w.session}
      /\ Shown(w) = w.session /\ (Composing(w) <=> w.session # NoWord)
      /\ w.session.word \in Nat /\ w.session.word <= h.keys
      /\ w.session # NoWord => w.session \in Real
  BY <1>1, FineParts
<1>4. /\ h.keys \in 0..MaxKeys /\ h.context \in Context \union {NoContext} /\ h.ended \in Nat
      /\ h.committed \in Seq(Real)
  BY <1>3 DEF RestOK
<1>5. w.compCtx \in Context \union {NoContext} /\ IsWorld(w)
  BY <1>1, <1>3 DEF Fine, DocOK
<1>6. anchor.text \in Letters /\ \A t \in Letters : t.word \in Nat
  BY <1>1, WordIsText DEF Anchors, AnyText
<1>7. anchor.text.word \in Nat
  BY <1>6
<1> QED BY <1>1, <1>2, <1>3, <1>4, <1>5, <1>7 DEF w, h

\* A step that leaves the words alone and writes at most blanks.
LEMMA QuietStep ==
    ASSUME MaxKeys \in Nat, Sync, NEW v, DocOK(v), SameWord(World, v), Become(v),
           NEW f \in Context, Edit(doc, v.doc, f, {}, {}),
           keys' \in {keys, keys + 1}, keys' <= MaxKeys, session = NoWord \/ context' = context,
           context' \in Context \union {NoContext}, ended' = ended, terminated' = terminated,
           committed' = committed, (crossed' <=> crossed), reopened' = reopened,
           anchor' \in {anchor, NoAnchor}
    PROVE  SyncInv'
<1> DEFINE w == World
           h == Rest_
           g == Rest_'
<1>1. /\ Fine(w, h) /\ RestOK(Rest_) /\ keys \in Nat /\ ended \in Nat
      /\ anchor.text.word \in Nat /\ anchor.text.word <= keys
  BY SyncFacts
<1>2. Follows(h, g)
  BY <1>1, RestFollows
<1>3. SameRest(h, g) /\ (session = NoWord \/ g.context = h.context)
  BY RestFields DEF SameRest
<1>4. w.session = session /\ Edit(w.doc, v.doc, f, {}, {}) /\ SameWord(w, v)
  BY WorldFields
<1>5. anchor'.text.word <= keys'
  BY <1>1 DEF NoAnchor, NoWord
<1>6. IsWorld(v)
  BY DEF DocOK
<1> HIDE DEF w, h, g
<1>7. Fine(v, g)
  BY <1>1, <1>2, <1>3, <1>4, QuietFine
<1> QED BY <1>5, <1>6, <1>7, Landing DEF g

\* The screen as it is, but for the popup or one caret.
LEMMA WorldAt ==
    ASSUME DocOK(World), NEW b, NEW c \in Context, NEW at \in 0..Len(doc[c])
    PROVE  /\ DocOK([World EXCEPT !.popup = b]) /\ SameWord(World, [World EXCEPT !.popup = b])
           /\ [World EXCEPT !.popup = b].doc = doc
           /\ DocOK([World EXCEPT !.caret[c] = at]) /\ SameWord(World, [World EXCEPT !.caret[c] = at])
           /\ [World EXCEPT !.caret[c] = at].doc = doc
<1>1. /\ IsWorld(World) /\ World.doc = doc /\ World.caret = caret /\ caret \in [Context -> Nat]
      /\ doc \in [Context -> Seq(APiece)] /\ \A d \in Context : caret[d] <= Len(doc[d])
  BY WorldFields DEF DocOK
<1> DEFINE u == [World EXCEPT !.popup = b]
           v == [World EXCEPT !.caret[c] = at]
<1>2. /\ IsWorld(u) /\ u.doc = doc /\ u.caret = caret /\ SameWord(World, u)
  BY <1>1 DEF IsWorld, Field, SameWord
<1>3. /\ IsWorld(v) /\ v.doc = doc /\ v.caret = [caret EXCEPT ![c] = at] /\ SameWord(World, v)
  BY <1>1 DEF IsWorld, Field, SameWord
<1> HIDE DEF u, v
<1>4. DocOK(u)
  BY <1>1, <1>2 DEF DocOK
<1>5. v.caret \in [Context -> Nat] /\ \A d \in Context : v.caret[d] <= Len(v.doc[d])
  <2>1. at \in Nat /\ at <= Len(doc[c])
    <3>1. doc[c] \in Seq(APiece)
      BY <1>1
    <3> QED BY <3>1
  <2> QED BY <1>1, <1>3, <2>1
<1>6. DocOK(v)
  BY <1>1, <1>3, <1>5 DEF DocOK
<1> QED BY <1>2, <1>3, <1>4, <1>6 DEF u, v

\* Keys that are not eaten or insert a character, toggles while nothing is typed,
\* the thread's focus, and clicks into the word.
LEMMA PassSync ==
    ASSUME MaxKeys \in Nat, Sync, NEW c \in Context, PassKey(c)
    PROVE  SyncInv'
<1>1. DocOK(World) /\ SameWord(World, World) /\ Edit(doc, World.doc, c, {}, {})
  BY SyncFacts, EditNone, WorldFields DEF SameWord
<1>2. Become(World)
  BY DEF PassKey, Become, World, screen
<1>3. /\ keys < MaxKeys /\ keys' = keys + 1 /\ anchor' = NoAnchor /\ context' = context
      /\ ended' = ended /\ terminated' = terminated
      /\ committed' = committed /\ crossed' = crossed /\ reopened' = reopened
  BY DEF PassKey, history
<1>4. keys' <= MaxKeys /\ context \in Context \union {NoContext}
  BY <1>3, SyncFacts
<1> QED BY <1>1, <1>2, <1>3, <1>4, QuietStep

\* A character is inserted while nothing is typed.
LEMMA InsertSync ==
    ASSUME MaxKeys \in Nat, ~Deferred, Sync, NEW c \in Context, InsertKey(c)
    PROVE  SyncInv'
<1> DEFINE ps == <<Plain(Character)>>
           v == InsertAtCaret(World, c, ps)
<1>1. DocOK(World) /\ session = NoWord /\ keys \in 0..MaxKeys
  BY SyncFacts DEF InsertKey, Sync, ArabicWhileComposing
<1>2. ps \in Seq(APiece) /\ Len(ps) = 1 /\ ps[1] \in Blank
  <2>1. Plain(Character) \in APiece
    BY DEF Plain, Character, APiece, AnyText
  <2>2. Plain(Character) \in Blank
    BY <2>1 DEF Plain, Character, Blank
  <2> HIDE DEF Plain
  <2> QED BY <2>1, <2>2
<1>3. Run(World, <<Request("insert", c, Character)>>)
  BY DEF InsertKey
<1>4. Apply(World, Request("insert", c, Character)) = v
  BY DEF Apply, Request
<1>5. Become(v)
  BY <1>3, <1>4, RunOne
<1> HIDE DEF ps
<1>6. Frame(World, v) /\ DocOK(v) /\ Edit(World.doc, v.doc, c, {}, {})
  <2>1. Frame(World, v) /\ DocOK(v) /\ Edit(World.doc, v.doc, c, {}, At(ps, 0))
    BY <1>1, <1>2, InsertOp
  <2>2. At(ps, 0) = {}
    BY DEF At
  <2> QED BY <2>1, <2>2
<1> HIDE DEF v
<1>7. SameWord(World, v) /\ Edit(doc, v.doc, c, {}, {})
  BY <1>6, WorldFields DEF Frame, SameWord
<1>8. /\ keys < MaxKeys /\ keys' = keys + 1 /\ anchor' = NoAnchor /\ context' = c
      /\ ended' = ended /\ terminated' = terminated
      /\ committed' = committed /\ crossed' = crossed /\ reopened' = reopened
  BY DEF InsertKey, Key, history
<1>9. keys' <= MaxKeys
  BY <1>1, <1>8
<1> QED BY <1>1, <1>5, <1>6, <1>7, <1>8, <1>9, QuietStep

\* The thread loses the focus or gains it.
LEMMA FocusSync ==
    ASSUME MaxKeys \in Nat, Sync, NEW gained \in BOOLEAN, ThreadFocus(gained), NEW c \in Context
    PROVE  SyncInv'
<1> DEFINE v == [World EXCEPT !.popup = popup']
<1>1. DocOK(World) /\ keys \in 0..MaxKeys /\ context \in Context \union {NoContext}
  BY SyncFacts
<1>2. DocOK(v) /\ SameWord(World, v) /\ v.doc = doc
  <2>1. 0 \in 0..Len(doc[c])
    <3>1. doc[c] \in Seq(APiece)
      BY <1>1, WorldFields DEF DocOK
    <3> QED BY <3>1
  <2> QED BY <1>1, <2>1, WorldAt
<1>3. Become(v)
  BY DEF ThreadFocus, Become, World, engine
<1> HIDE DEF v
<1>4. Edit(doc, v.doc, c, {}, {})
  BY <1>2, EditNone
<1>5. /\ keys < MaxKeys /\ keys' = keys + 1 /\ anchor' = anchor /\ context' = context
      /\ ended' = ended /\ terminated' = terminated
      /\ committed' = committed /\ crossed' = crossed /\ reopened' = reopened
  BY DEF ThreadFocus, engine, history
<1>6. keys' <= MaxKeys
  BY <1>1, <1>5
<1> QED BY <1>1, <1>2, <1>3, <1>4, <1>5, <1>6, QuietStep

\* A toggle while nothing is typed.
LEMMA IdleToggleSync ==
    ASSUME MaxKeys \in Nat, ~Deferred, Sync, NEW c \in Context, ToggleKey(c) \/ PreservedKey(c),
           ~Composing(World)
    PROVE  SyncInv'
<1>1. DocOK(World) /\ SameWord(World, World) /\ Edit(doc, World.doc, c, {}, {})
  BY SyncFacts, EditNone, WorldFields DEF SameWord
<1>2. session = NoWord /\ keys \in 0..MaxKeys /\ context \in Context \union {NoContext}
  BY SyncFacts
<1>3. Run(World, <<>>) /\ committed' = committed /\ reopened' = reopened
  BY DEF ToggleKey, PreservedKey, Toggle
<1>4. Become(World)
  BY <1>3, RunNone
<1>5. /\ keys < MaxKeys /\ keys' = keys + 1 /\ anchor' \in {anchor, NoAnchor} /\ context' \in {context, c}
      /\ ended' = ended /\ terminated' = terminated /\ (crossed' <=> crossed)
  <2>1. ~Elsewhere(World, c)
    BY DEF Elsewhere
  <2>2. crossed' <=> crossed
    <3>1. CASE ToggleKey(c)
      BY <3>1 DEF ToggleKey
    <3>2. CASE PreservedKey(c)
      BY <2>1, <3>2 DEF PreservedKey
    <3> QED BY <3>1, <3>2
  <2>3. /\ keys < MaxKeys /\ keys' = keys + 1 /\ context' \in {context, c}
        /\ ended' = ended /\ terminated' = terminated
    BY DEF ToggleKey, PreservedKey, Key
  <2>4. anchor' \in {anchor, NoAnchor}
    BY DEF ToggleKey, PreservedKey, Toggle
  <2> QED BY <2>2, <2>3, <2>4
<1>6. keys' <= MaxKeys /\ context' \in Context \union {NoContext}
  BY <1>2, <1>5
<1> QED BY <1>1, <1>2, <1>3, <1>4, <1>5, <1>6, QuietStep

\* finalize_composition as the last thing a handler does.
LEMMA FinalizeSync ==
    ASSUME MaxKeys \in Nat, NoContext \notin Context, ~Deferred, NEW w, Fine(w, Rest_),
           FinalizeComposition(w), NEW c \in Context,
           Follows(Rest_, Rest_'), SameRest(Rest_, Rest_'), anchor'.text.word <= keys'
    PROVE  SyncInv'
<1> DEFINE fields == {b \in Context : Lives(w.doc[b], w.composition)}
           u == [w EXCEPT !.session = NoWord, !.editor = NoWord, !.compCtx = NoContext,
                          !.popup = FALSE,
                          !.finalized = @ \union {w.doc[b][Place(w.doc[b], w.composition)].text.word :
                                                     b \in fields}]
           f == CHOOSE b \in fields : TRUE
           r == Request("finalize", f, NoWord)
           h == Rest_
           g == Rest_'
<1>1. DocOK(w)
  <2>1. Fine(w, h)
    OBVIOUS
  <2> HIDE DEF h
  <2> QED BY <2>1, FineParts
<1>2. IsWorld(u) /\ Dropped(w, u) /\ u.caret = w.caret
  BY <1>1 DEF DocOK, IsWorld, Field, Dropped, Fields, OnScreenIn
<1>3. Run(u, IF fields = {} THEN <<>> ELSE <<r>>)
  BY DEF FinalizeComposition
<1>4. Apply(u, r) = Finalize(u, f)
  BY DEF Apply, Request
<1>5. fields = Fields(w)
  BY DEF Fields
<1> HIDE DEF u, r, fields
<1>6. DocOK(u)
  BY <1>1, <1>2 DEF DocOK, Dropped
<1>7. Follows(h, g) /\ SameRest(h, g) /\ Fine(w, h)
  OBVIOUS
<1> HIDE DEF h, g, f
<1>8. /\ Fields(w) = {} => Fine(u, g)
      /\ \A b \in Fields(w) : Fine(Finalize(u, b), g)
  BY <1>2, <1>6, <1>7, FinalizeFine
<1>9. CASE fields = {}
  <2>1. Become(u)
    BY <1>3, <1>9, RunNone
  <2> QED BY <1>2, <1>5, <1>8, <1>9, <2>1, Landing DEF g
<1>10. CASE fields # {}
  <2>1. f \in fields
    BY <1>10 DEF f
  <2>2. f \in Context
    BY <2>1 DEF fields
  <2>3. Become(Finalize(u, f))
    BY <1>3, <1>4, <1>10, RunOne
  <2>4. IsWorld(Finalize(u, f))
    <3>1. DocOK(Finalize(u, f))
      BY <1>6, <2>2, FinalizeOp
    <3> QED BY <3>1 DEF DocOK
  <2>5. Fine(Finalize(u, f), g)
    BY <1>5, <1>8, <2>1
  <2> QED BY <2>3, <2>4, <2>5, Landing DEF g
<1> QED BY <1>9, <1>10

\* A click, inside the word or out of it.
LEMMA CaretSync ==
    ASSUME MaxKeys \in Nat, NoContext \notin Context, ~Deferred, Sync, NEW c \in Context, MoveCaret(c)
    PROVE  SyncInv'
<1>0. /\ DocOK(World) /\ Fine(World, Rest_) /\ RestOK(Rest_) /\ keys \in 0..MaxKeys /\ ended \in Nat
      /\ context \in Context \union {NoContext} /\ anchor.text.word <= keys
  BY SyncFacts
<1>1. /\ anchor' = anchor /\ context' = context /\ keys' = keys
      /\ ended' = ended /\ terminated' = terminated
      /\ committed' = committed /\ crossed' = crossed /\ reopened' = reopened
  BY DEF MoveCaret, history
<1>2. PICK at \in 0..Len(doc[c]) :
          \/ FinalizeComposition([World EXCEPT !.caret[c] = at])
          \/ Run([World EXCEPT !.caret[c] = at], <<>>)
  BY DEF MoveCaret
<1> DEFINE w == [World EXCEPT !.caret[c] = at]
<1>3. DocOK(w) /\ SameWord(World, w) /\ w.doc = doc
  BY <1>0, WorldAt
<1>4. CASE Run(w, <<>>)
  <2>1. Become(w)
    BY <1>4, RunNone
  <2> HIDE DEF w
  <2>2. Edit(doc, w.doc, c, {}, {})
    BY <1>3, EditNone
  <2>3. keys' <= MaxKeys
    BY <1>0, <1>1
  <2> QED BY <1>0, <1>1, <1>3, <2>1, <2>2, <2>3, QuietStep
<1>5. CASE FinalizeComposition(w)
  <2> DEFINE h == Rest_
             g == Rest_'
             u == World
  <2>1. Follows(h, g)
    BY <1>0, <1>1, RestFollows
  <2>2. SameRest(h, g)
    BY <1>1, RestFields DEF SameRest
  <2>3. Fine(w, h)
    <3>1. Follows(h, h)
      <4>1. RestOK(h) /\ h.keys \in Nat
        BY <1>0 DEF RestOK
      <4> HIDE DEF h
      <4> QED BY <4>1 DEF Follows
    <3>2. SameRest(h, h)
      BY DEF SameRest
    <3>3. Edit(u.doc, w.doc, c, {}, {})
      BY <1>3, WorldFields, EditNone
    <3>4. Fine(u, h) /\ SameWord(u, w) /\ h.context = h.context
      BY <1>0, <1>3
    <3> HIDE DEF h, w, u
    <3> QED BY <1>3, <3>1, <3>2, <3>3, <3>4, QuietFine
  <2>4. anchor'.text.word <= keys'
    BY <1>0, <1>1
  <2> HIDE DEF w
  <2> QED BY <1>5, <2>1, <2>2, <2>3, <2>4, FinalizeSync
<1> QED BY <1>2, <1>4, <1>5

\* The thread's focus moves to another document.
LEMMA FocusMovesSync ==
    ASSUME MaxKeys \in Nat, NoContext \notin Context, ~Deferred, Sync, NEW c \in Context, SetFocus
    PROVE  SyncInv'
<1>0. /\ Fine(World, Rest_) /\ RestOK(Rest_) /\ keys \in 0..MaxKeys /\ ended \in Nat
      /\ context \in Context \union {NoContext}
  BY SyncFacts
<1>1. /\ keys < MaxKeys /\ anchor' = NoAnchor /\ context' = context /\ keys' = keys + 1
      /\ ended' = ended /\ terminated' = terminated
      /\ committed' = committed /\ crossed' = crossed /\ reopened' = reopened
  BY DEF SetFocus, history
<1>2. keys' <= MaxKeys /\ anchor'.text.word <= keys'
  BY <1>0, <1>1 DEF NoAnchor, NoWord
<1>3. Follows(Rest_, Rest_')
  BY <1>0, <1>1, <1>2, RestFollows
<1>4. SameRest(Rest_, Rest_')
  BY <1>1, RestFields DEF SameRest
<1>5. FinalizeComposition(World)
  BY DEF SetFocus
<1> QED BY <1>0, <1>2, <1>3, <1>4, <1>5, FinalizeSync

\* The first key after the host ended the composition, or in another field.
LEMMA DropSync ==
    ASSUME MaxKeys \in Nat, NoContext \notin Context, ~Deferred, Sync, NEW c \in Context, DropDeadState(c)
    PROVE  SyncInv'
<1>0. /\ Fine(World, Rest_) /\ RestOK(Rest_) /\ keys \in 0..MaxKeys /\ ended \in Nat
      /\ context \in Context \union {NoContext} /\ anchor.text.word <= keys
      /\ DocOK(World) /\ (Composing(World) <=> session # NoWord)
  BY SyncFacts
<1>1. /\ anchor' = anchor /\ context' = context /\ keys' = keys /\ ended' = ended
      /\ committed' = committed /\ crossed' = crossed /\ reopened' = reopened /\ terminated' = FALSE
  BY DEF DropDeadState, bounds, history
<1>2. keys' <= MaxKeys /\ anchor'.text.word <= keys'
  BY <1>0, <1>1
<1>3. Follows(Rest_, Rest_')
  BY <1>0, <1>1, <1>2, RestFollows
<1>4. CASE ~terminated
  <2>1. FinalizeComposition(World)
    BY <1>4 DEF DropDeadState
  <2>2. SameRest(Rest_, Rest_')
    BY <1>1, <1>4, RestFields DEF SameRest
  <2> QED BY <1>0, <1>2, <1>3, <2>1, <2>2, FinalizeSync
<1>5. CASE terminated
  <2> DEFINE v == [World EXCEPT !.session = NoWord, !.editor = NoWord, !.popup = FALSE,
                                !.composition = 0, !.compCtx = NoContext]
             w == World
             h == Rest_
             g == Rest_'
  <2>1. /\ IsWorld(v) /\ Gone(v) /\ v.doc = w.doc /\ v.caret = w.caret
        /\ v.erased = w.erased /\ v.finalized = w.finalized /\ v.session = NoWord /\ v.editor = NoWord
    BY <1>0 DEF DocOK, IsWorld, Field, Gone
  <2>2. DocOK(v)
    BY <1>0, <2>1 DEF DocOK
  <2>3. ~Elsewhere(v, c)
    BY <2>1 DEF Elsewhere, Composing
  <2>4. Run(v, <<>>)
    BY <1>5, <2>3 DEF DropDeadState
  <2>5. Become(v)
    BY <2>4, RunNone
  <2>6. h.terminated /\ g.committed = h.committed /\ Fine(w, h) /\ Follows(h, g)
    BY <1>0, <1>1, <1>3, <1>5, RestFields
  <2> HIDE DEF v, w, h, g
  <2>7. Fine(v, g)
    BY <2>1, <2>2, <2>6, DeadFine
  <2> QED BY <1>2, <2>1, <2>5, <2>7, Landing DEF g
<1> QED BY <1>4, <1>5

\* The host ends a composition, and tells us at once, later or never.
LEMMA HostSync ==
    ASSUME MaxKeys \in Nat, NoContext \notin Context, ~Deferred, Sync, NEW c \in Context,
           CompositionTerminated(c) \/ CompositionLost(c)
    PROVE  SyncInv'
<1>0. /\ Fine(World, Rest_) /\ RestOK(Rest_) /\ keys \in 0..MaxKeys /\ ended \in Nat
      /\ context \in Context \union {NoContext} /\ anchor.text.word <= keys /\ DocOK(World)
  BY SyncFacts
<1>1. /\ anchor' = anchor /\ context' = context /\ keys' = keys /\ ended' = ended + 1
      /\ committed' = committed /\ crossed' = crossed /\ reopened' = reopened
  BY DEF CompositionTerminated, CompositionLost, engine, history
<1>2. keys' <= MaxKeys /\ anchor'.text.word <= keys'
  BY <1>0, <1>1
<1>3. Follows(Rest_, Rest_')
  BY <1>0, <1>1, <1>2, RestFollows
<1> DEFINE kept(i) == [World EXCEPT !.doc[c] = Ended(@, i)]
           gone(i) == [World EXCEPT !.doc[c] = Ended(@, i), !.session = NoWord, !.editor = NoWord,
                                    !.popup = FALSE, !.composition = 0, !.compCtx = NoContext]
<1>4. PICK i \in DOMAIN doc[c] :
          /\ doc[c][i].comp # 0
          /\ \/ Become(kept(i))
             \/ Become(gone(i)) /\ (terminated' <=> terminated)
  <2>1. CASE CompositionLost(c)
    <3>1. PICK i \in DOMAIN doc[c] : /\ doc[c][i].comp # 0
                                     /\ doc' = [doc EXCEPT ![c] = Ended(@, i)]
      BY <2>1 DEF CompositionLost
    <3>2. Become(kept(i))
      BY <2>1, <3>1 DEF CompositionLost, Become, World, engine
    <3> QED BY <3>1, <3>2
  <2>2. CASE CompositionTerminated(c)
    <3>1. PICK i \in DOMAIN doc[c] : /\ doc[c][i].comp # 0
                                     /\ \E busy \in BOOLEAN :
                                           /\ Run(IF busy THEN kept(i) ELSE gone(i), <<>>)
                                           /\ terminated' = (terminated \/ busy)
      BY <2>2 DEF CompositionTerminated
    <3>2. PICK busy \in BOOLEAN : /\ Run(IF busy THEN kept(i) ELSE gone(i), <<>>)
                                  /\ terminated' = (terminated \/ busy)
      BY <3>1
    <3> HIDE DEF kept, gone
    <3>3. CASE busy
      <4>1. Run(kept(i), <<>>)
        BY <3>2, <3>3
      <4> QED BY <3>1, <4>1, RunNone
    <3>4. CASE ~busy
      <4>1. Run(gone(i), <<>>) /\ (terminated' <=> terminated)
        BY <3>2, <3>4
      <4> QED BY <3>1, <4>1, RunNone
    <3> QED BY <3>3, <3>4
  <2> QED BY <2>1, <2>2
<1> DEFINE w == World
           a == doc[c][i]
           u == kept(i)
           v == gone(i)
           h == Rest_
           g == Rest_'
<1>5. /\ IsWorld(u) /\ SameWord(w, u) /\ u.doc = [w.doc EXCEPT ![c] = Ended(w.doc[c], i)]
      /\ u.caret = w.caret
  BY <1>0, WorldFields DEF DocOK, IsWorld, Field, SameWord
<1>6. /\ IsWorld(v) /\ Gone(v) /\ v.doc = [w.doc EXCEPT ![c] = Ended(w.doc[c], i)]
      /\ v.caret = w.caret /\ v.erased = w.erased /\ v.finalized = w.finalized
  BY <1>0, WorldFields DEF DocOK, IsWorld, Field, Gone
<1>7. i \in DOMAIN w.doc[c] /\ a = w.doc[c][i] /\ a.comp # 0 /\ DocOK(w)
  BY <1>0, <1>4, WorldFields
<1>8. Fine(w, h) /\ Follows(h, g) /\ g.committed = h.committed /\ g.context = h.context /\ g.ended # 0
  BY <1>0, <1>1, <1>3, RestFields
<1>9. (terminated' <=> terminated) => SameRest(h, g)
  BY <1>1, RestFields DEF SameRest
<1> HIDE DEF kept, gone, w, u, v, h, g
<1>10. CASE Become(u)
  <2>1. DocOK(u) /\ w.doc[c][i] \in Here(w.doc, c) /\ Edit(w.doc, u.doc, c, {w.doc[c][i]}, Freed(w.doc[c][i]))
    BY <1>5, <1>7, EndedOp
  <2> HIDE DEF a
  <2>2. DocOK(u) /\ a \in Here(w.doc, c) /\ Edit(w.doc, u.doc, c, {a}, Freed(a))
    BY <1>7, <2>1
  <2>3. Fine(u, g)
    BY <1>5, <1>7, <1>8, <2>2, HostKeepsFine
  <2> QED BY <1>2, <1>5, <1>10, <2>3, Landing DEF g
<1>11. CASE Become(v) /\ (terminated' <=> terminated)
  <2>1. DocOK(v) /\ w.doc[c][i] \in Here(w.doc, c) /\ Edit(w.doc, v.doc, c, {w.doc[c][i]}, Freed(w.doc[c][i]))
    BY <1>6, <1>7, EndedOp
  <2> HIDE DEF a
  <2>2. DocOK(v) /\ a \in Here(w.doc, c) /\ Edit(w.doc, v.doc, c, {a}, Freed(a))
    BY <1>7, <2>1
  <2>3. Fine(v, g)
    BY <1>6, <1>7, <1>8, <1>9, <1>11, <2>2, HostEndFine
  <2> QED BY <1>2, <1>6, <1>11, <2>3, Landing DEF g
<1> QED BY <1>4, <1>10, <1>11 DEF u, v

\* A Backspace in the document while nothing is typed.
LEMMA DeleteCharFine ==
    ASSUME MaxKeys \in Nat, NEW w, NEW h, Fine(w, h), w.session = NoWord, NEW g, Follows(h, g),
           SameRest(h, g), NEW c \in Context
    PROVE  DocOK(DeleteChar(w, c)) /\ Fine(DeleteChar(w, c), g)
<1> DEFINE v == DeleteChar(w, c)
<1>1. DocOK(w)
  BY FineParts
<1>2. /\ DocOK(v)
      /\ v.session = w.session /\ v.editor = w.editor /\ v.composition = w.composition
      /\ v.compCtx = w.compCtx /\ v.popup = w.popup /\ v.finalized = w.finalized
      /\ v = w \/ Shortened(w, v, c)
  BY <1>1, DeleteCharOp
<1> HIDE DEF v
<1>3. CASE v = w
  <2>1. SameWord(w, v) /\ \A b \in Context : v.doc[b] = w.doc[b]
    BY <1>3 DEF SameWord
  <2>2. Edit(w.doc, v.doc, c, {}, {})
    BY <2>1, EditNone
  <2>3. Fine(v, g)
    BY <1>2, <2>1, <2>2, QuietFine
  <2> QED BY <1>2, <2>3 DEF v
<1>4. ASSUME NEW a \in Here(w.doc, c), NEW X \in SUBSET APiece,
             v.erased = w.erased \union {a.text.word}, Edit(w.doc, v.doc, c, {a}, X),
             \A x \in X : x.comp = a.comp /\ x.text.word = a.text.word
      PROVE  Fine(v, g)
  <2>1. SameWord(w, v)
    BY <1>2, <1>4 DEF SameWord
  <2> QED BY <1>2, <1>4, <2>1, ForgetFine
<1> QED BY <1>2, <1>3, <1>4 DEF v, Shortened

\* What every key does to the rest of the state.
LEMMA KeyFacts ==
    ASSUME MaxKeys \in Nat, NoContext \notin Context, Sync, NEW c \in Context, Key(c)
    PROVE  /\ keys' = keys + 1 /\ keys' <= MaxKeys /\ context' = c /\ ended' = ended
           /\ terminated' = terminated /\ ~terminated
           /\ session # NoWord => compCtx \in {NoContext, c}
<1>1. /\ keys \in 0..MaxKeys /\ (Composing(World) <=> session # NoWord)
  BY SyncFacts
<1>2. /\ keys < MaxKeys /\ keys' = keys + 1 /\ context' = c /\ ended' = ended
      /\ terminated' = terminated /\ ~terminated /\ ~Elsewhere(World, c)
  BY DEF Key
<1>3. session # NoWord => compCtx \in {NoContext, c}
  BY <1>1, <1>2, WorldFields DEF Elsewhere
<1> QED BY <1>1, <1>2, <1>3

\* A key that types, and previews the word in its field.
LEMMA PreviewSync ==
    ASSUME MaxKeys \in Nat, NoContext \notin Context, ~Deferred, Sync, NEW c \in Context, Key(c),
           NEW u, DocOK(u), Retyped(World, Rest_, u, Rest_'),
           Run(u, <<Request("preview", c, NoWord)>>), anchor' = NoAnchor,
           committed' = committed, crossed' = crossed, reopened' = reopened
    PROVE  SyncInv'
<1> DEFINE w == World
           h == Rest_
           g == Rest_'
           r == Request("preview", c, NoWord)
           v == Preview(u, c)
<1>1. /\ Fine(w, h) /\ RestOK(Rest_) /\ keys \in 0..MaxKeys /\ ended \in Nat
  BY SyncFacts
<1>2. /\ keys' = keys + 1 /\ keys' <= MaxKeys /\ context' = c /\ ended' = ended
      /\ terminated' = terminated /\ ~terminated
      /\ session # NoWord => compCtx \in {NoContext, c}
  BY KeyFacts
<1>3. Follows(h, g)
  BY <1>1, <1>2, RestFollows
<1>4. KeyIn(w, h, g, c)
  BY <1>1, <1>2, WorldFields, RestFields DEF KeyIn
<1>5. Retyped(w, h, u, g) /\ Apply(u, r) = v
  BY DEF Apply, Request
<1>6. Become(v)
  BY <1>5, RunOne
<1> HIDE DEF w, h, g, r
<1>7. Fine(v, g)
  BY <1>1, <1>3, <1>4, <1>5, PreviewFine
<1>8. IsWorld(v)
  BY <1>7, FineParts DEF DocOK
<1>9. anchor'.text.word <= keys'
  BY <1>1, <1>2 DEF NoAnchor, NoWord
<1> HIDE DEF v
<1> QED BY <1>6, <1>7, <1>8, <1>9, Landing DEF g

\* The state with another letter or highlight, or with the editor opened or closed.
Typing(u) ==
    /\ IsWorld(u) /\ u.doc = doc /\ u.caret = caret /\ u.composition = composition
    /\ u.compCtx = compCtx /\ u.finalized = finalized /\ u.erased = erased
    /\ u.session \in Real /\ u.editor \in {NoWord, u.session}
    /\ session # NoWord => u.session.word = session.word
    /\ session = NoWord => u.session.word = keys + 1

\* Then it is the state with the word retyped.
LEMMA TypingRetypes ==
    ASSUME MaxKeys \in Nat, Sync, NEW u, Typing(u), keys' = keys + 1
    PROVE  DocOK(u) /\ Retyped(World, Rest_, u, Rest_')
<1> DEFINE w == World
           h == Rest_
           g == Rest_'
<1>1. DocOK(w) /\ keys \in 0..MaxKeys /\ session.word \in Nat /\ session.word <= keys
  BY SyncFacts
<1>2. /\ w.session = session /\ w.doc = doc /\ w.caret = caret /\ w.composition = composition
      /\ w.compCtx = compCtx /\ w.finalized = finalized /\ w.erased = erased
      /\ h.keys = keys /\ g.keys = keys + 1
  BY WorldFields, RestFields
<1> HIDE DEF w, h, g
<1>3. DocOK(u)
  BY <1>1, <1>2 DEF DocOK, Typing
<1>4. /\ u.session.word <= g.keys
      /\ w.session = NoWord => u.session.word > h.keys
  <2>1. CASE session = NoWord
    BY <1>1, <1>2, <2>1 DEF Typing
  <2>2. CASE session # NoWord
    BY <1>1, <1>2, <2>2 DEF Typing
  <2> QED BY <2>1, <2>2
<1>5. Retyped(w, h, u, g)
  BY <1>2, <1>4 DEF Retyped, Typing
<1> QED BY <1>3, <1>5 DEF w, h, g

\* A word with other letters, or another highlight, is that word.
LEMMA Respelled ==
    ASSUME NEW t \in Real, NEW n \in Nat \ {0}
    PROVE  LET q == [t EXCEPT !.len = n, !.pick = 0] IN q \in Real /\ q.word = t.word
<1> DEFINE p == [t EXCEPT !.len = n]
<1>1. p \in Real /\ p.word = t.word
  BY DEF Real
<1>2. [t EXCEPT !.len = n, !.pick = 0] = [p EXCEPT !.pick = 0]
  BY DEF Real
<1> HIDE DEF p
<1>3. [p EXCEPT !.pick = 0] \in Real /\ [p EXCEPT !.pick = 0].word = p.word
  BY <1>1 DEF Real
<1> QED BY <1>1, <1>2, <1>3

\* ... also with another candidate of the list.
LEMMA Highlighted ==
    ASSUME NEW t \in Real
    PROVE  LET q == [t EXCEPT !.pick = 1 - @] IN q \in Real /\ q.word = t.word
BY DEF Real

\* The keys that change the word.
LEMMA TypeSync ==
    ASSUME MaxKeys \in Nat, NoContext \notin Context, ~Deferred, Sync, NEW c \in Context,
           \/ AppendChar(c) \/ MoveHighlight(c) \/ SwitchEditor(c)
           \/ Backspace(c) /\ session.len > 1
    PROVE  SyncInv'
<1>0. /\ session \in Letters /\ editor \in {NoWord, session} /\ (session # NoWord => session \in Real)
      /\ keys \in 0..MaxKeys /\ (Composing(World) <=> session # NoWord) /\ IsWorld(World)
  BY SyncFacts
<1>w. /\ World.session = session /\ World.editor = editor /\ World.composition = composition
      /\ World.compCtx = compCtx /\ World.doc = doc /\ World.caret = caret
      /\ World.erased = erased /\ World.finalized = finalized
  BY WorldFields
<1>1. /\ Key(c) /\ anchor' = NoAnchor /\ committed' = committed /\ crossed' = crossed
      /\ reopened' = reopened
  BY DEF AppendChar, MoveHighlight, SwitchEditor, Backspace, history
<1>2. keys' = keys + 1
  BY <1>1, KeyFacts
<1> DEFINE rs == <<Request("preview", c, NoWord)>>
<1>r. \A t \in Real : t # NoWord /\ t.len \in Nat \ {0}
  BY DEF Real, NoWord
<1>3. \E u : Typing(u) /\ Run(u, rs)
  <2>1. CASE AppendChar(c)
    <3> DEFINE t == Typed
               u == [World EXCEPT !.session = t]
    <3>1. t \in Real /\ (session # NoWord => t.word = session.word) /\ (session = NoWord => t.word = keys + 1)
      <4>1. CASE session = NoWord
        BY <1>0, <4>1 DEF Typed, NoWord, Real
      <4>2. CASE session # NoWord
        <5>1. session.len + 1 \in Nat \ {0} /\ session \in Real
          BY <1>0, <1>r, <4>2
        <5> DEFINE n == session.len + 1
        <5>2. t = [session EXCEPT !.len = n, !.pick = 0]
          BY <4>2, <5>1 DEF Typed, Real
        <5> HIDE DEF n, t
        <5>3. n \in Nat \ {0}
          BY <5>1 DEF n
        <5> QED BY <4>2, <5>1, <5>2, <5>3, Respelled
      <4> QED BY <4>1, <4>2
    <3>2. Run(u, rs) /\ editor = NoWord
      BY <2>1 DEF AppendChar
    <3> HIDE DEF t, rs
    <3>3. Typing(u)
      BY <1>0, <1>w, <3>1, <3>2 DEF Typing, IsWorld, Field
    <3> QED BY <3>2, <3>3
  <2>2. CASE Backspace(c) /\ session.len > 1
    <3> DEFINE t == [session EXCEPT !.len = @ - 1, !.pick = 0]
               u == [World EXCEPT !.session = t]
               n == session.len - 1
    <3>1. session \in Real /\ session # NoWord /\ editor = NoWord
      BY <1>0, <2>2 DEF Backspace
    <3>2. n \in Nat \ {0}
      BY <1>r, <2>2, <3>1
    <3>3. t = [session EXCEPT !.len = n, !.pick = 0]
      BY <3>1 DEF Real
    <3>4. Run(u, rs)
      BY <2>2 DEF Backspace
    <3> HIDE DEF t, rs, n
    <3>5. t \in Real /\ t.word = session.word
      BY <3>1, <3>2, <3>3, Respelled
    <3>6. Typing(u)
      BY <1>0, <1>w, <3>1, <3>5 DEF Typing, IsWorld, Field
    <3> QED BY <3>4, <3>6
  <2>3. CASE MoveHighlight(c)
    <3> DEFINE t == [session EXCEPT !.pick = 1 - @]
               u == [World EXCEPT !.session.pick = 1 - @]
    <3>1. session \in Real /\ session # NoWord /\ editor = NoWord /\ Run(u, rs)
      BY <1>0, <2>3 DEF MoveHighlight
    <3>2. t \in Real /\ t.word = session.word
      BY <3>1, Highlighted
    <3>3. /\ IsWorld(u) /\ u.session = t /\ u.editor = editor /\ u.composition = composition
          /\ u.compCtx = compCtx /\ u.doc = doc /\ u.caret = caret
          /\ u.erased = erased /\ u.finalized = finalized
      BY <1>0, <1>w DEF IsWorld, Field
    <3> HIDE DEF t, rs, u
    <3>4. Typing(u)
      BY <3>1, <3>2, <3>3 DEF Typing
    <3> QED BY <3>1, <3>4
  <2>4. CASE SwitchEditor(c)
    <3> DEFINE u == [World EXCEPT !.editor = IF @ = NoWord THEN session ELSE NoWord]
    <3>1. session \in Real /\ session # NoWord /\ Run(u, rs)
      BY <1>0, <2>4 DEF SwitchEditor
    <3>2. /\ IsWorld(u) /\ u.session = session /\ u.editor \in {NoWord, session}
          /\ u.composition = composition /\ u.compCtx = compCtx /\ u.doc = doc /\ u.caret = caret
          /\ u.erased = erased /\ u.finalized = finalized
      BY <1>0, <1>w DEF IsWorld, Field
    <3> HIDE DEF rs, u
    <3>3. Typing(u)
      BY <3>1, <3>2 DEF Typing
    <3> QED BY <3>1, <3>3
  <2> QED BY <2>1, <2>2, <2>3, <2>4
<1>4. PICK u : Typing(u) /\ Run(u, rs)
  BY <1>3
<1>5. DocOK(u) /\ Retyped(World, Rest_, u, Rest_')
  BY <1>2, <1>4, TypingRetypes
<1> QED BY <1>1, <1>4, <1>5, PreviewSync

\* Backspace on the last letter.
LEMMA CancelSync ==
    ASSUME MaxKeys \in Nat, NoContext \notin Context, ~Deferred, Sync, NEW c \in Context,
           Backspace(c), ~(session.len > 1)
    PROVE  SyncInv'
<1> DEFINE w == World
           h == Rest_
           g == Rest_'
           u == [World EXCEPT !.session = NoWord, !.popup = FALSE, !.erased = @ \union {session.word}]
           r == Request("commit", c, NoWord)
           v == Commit(u, c, r)
<1>0. /\ Fine(w, h) /\ RestOK(Rest_) /\ keys \in 0..MaxKeys /\ ended \in Nat /\ DocOK(w)
  BY SyncFacts
<1>1. /\ Key(c) /\ anchor' = NoAnchor /\ committed' = committed /\ crossed' = crossed
      /\ reopened' = reopened /\ session # NoWord /\ editor = NoWord /\ Run(u, <<r>>)
  BY DEF Backspace, history
<1>2. /\ keys' = keys + 1 /\ keys' <= MaxKeys /\ context' = c /\ ended' = ended
      /\ terminated' = terminated /\ compCtx \in {NoContext, c}
  BY <1>1, KeyFacts
<1>3. Follows(h, g) /\ SameRest(h, g)
  <2>1. Follows(h, g)
    BY <1>0, <1>1, <1>2, RestFollows
  <2>2. SameRest(h, g)
    BY <1>1, <1>2, RestFields DEF SameRest
  <2> QED BY <2>1, <2>2
<1>w. w.session = session /\ w.compCtx = compCtx /\ w.editor = editor
  BY WorldFields
<1>4. /\ IsWorld(u) /\ u.doc = w.doc /\ u.caret = w.caret /\ u.composition = w.composition
      /\ u.compCtx = w.compCtx /\ u.session = NoWord /\ u.editor = NoWord
      /\ u.erased = w.erased \union {w.session.word} /\ u.finalized = w.finalized
  BY <1>0, <1>1, <1>w DEF DocOK, IsWorld, Field
<1>5. r.text = NoWord /\ r.suffix \in Suffix /\ Apply(u, r) = v
  BY DEF Apply, Request, Suffix
<1>6. Become(v)
  BY <1>1, <1>5, RunOne
<1> HIDE DEF w, h, g, u, r
<1>7. DocOK(u)
  BY <1>0, <1>4 DEF DocOK
<1>8. r.text \in Letters /\ Word(r.text) = {}
  BY <1>5 DEF Letters, Word
<1>9. /\ Ends(u, v) /\ DocOK(v)
      /\ TakesText(u, c) =>
             \E a \in Here(u.doc, c) :
                 a.comp = u.composition /\ a.comp # 0 /\ Edit(u.doc, v.doc, c, {a}, Word(r.text))
      /\ ~TakesText(u, c) => Edit(u.doc, v.doc, c, {}, Word(r.text))
  BY <1>5, <1>7, <1>8, CommitOp
<1> HIDE DEF v
<1>10. TakesText(u, c) <=> TakesText(w, c)
  BY <1>4 DEF TakesText
<1>11. /\ TakesText(w, c) =>
              \E a \in Here(w.doc, c) :
                  a.comp = w.composition /\ a.comp # 0 /\ Edit(w.doc, v.doc, c, {a}, {})
       /\ ~TakesText(w, c) => Edit(w.doc, v.doc, c, {}, {})
  BY <1>4, <1>8, <1>9, <1>10
<1>12. /\ Gone(v) /\ v.erased = w.erased \union {w.session.word} /\ v.finalized = w.finalized
       /\ DocOK(v) /\ IsWorld(v)
  BY <1>4, <1>9 DEF Gone, Ends, DocOK
<1>13. w.session # NoWord /\ w.compCtx \in {NoContext, c}
  BY <1>1, <1>2, <1>w
<1>14. Fine(v, g)
  BY <1>0, <1>3, <1>11, <1>12, <1>13, CancelFine
<1>15. anchor'.text.word <= keys'
  BY <1>0, <1>1, <1>2 DEF NoAnchor, NoWord
<1> QED BY <1>6, <1>12, <1>14, <1>15, Landing DEF g

\* A state follows itself.
LEMMA FollowsItself ==
    ASSUME MaxKeys \in Nat, NEW h, RestOK(h)
    PROVE  Follows(h, h) /\ SameRest(h, h)
<1>1. h.keys \in Nat
  BY DEF RestOK
<1> QED BY <1>1 DEF Follows, SameRest

\* The word before the caret is taken up again, or what is there shortened.
LEMMA ReEditFine ==
    ASSUME MaxKeys \in Nat, NoContext \notin Context, NEW w, NEW h, Fine(w, h), w.session = NoWord,
           w.editor = NoWord, NEW g, Follows(h, g), SameRest(h, g), NEW c \in Context,
           KeyIn(w, h, g, c), NEW t \in Real, t.word <= g.keys, t.word \in g.reopened,
           NEW op, op.text = t, NEW u, DocOK(u), u.session = t, u.editor = NoWord, u.doc = w.doc,
           u.caret = w.caret, u.composition = w.composition, u.compCtx = w.compCtx,
           u.erased = w.erased, u.finalized = w.finalized
    PROVE  Fine(ReEdit(u, c, op), g)
<1>w. /\ u.session = t /\ u.editor = NoWord /\ u.doc = w.doc /\ u.caret = w.caret
      /\ u.composition = w.composition /\ u.compCtx = w.compCtx
      /\ u.erased = w.erased /\ u.finalized = w.finalized /\ IsWorld(u)
  BY DEF DocOK
<1>h. Follows(h, h) /\ SameRest(h, h)
  BY FineParts, FollowsItself
<1>1. CASE u.caret[c] > 0 /\ u.doc[c][u.caret[c]].text = op.text
  <2> DEFINE d == Delete(u, c)
             a == u.doc[c][u.caret[c]]
             s == [d EXCEPT !.session = NoWord, !.erased = @ \union {t.word}]
  <2>1. u.caret[c] # 0
    <3>1. u.caret[c] \in Nat
      BY DEF DocOK
    <3> QED BY <1>1, <3>1
  <2>2. Frame(u, d) /\ DocOK(d) /\ a \in Here(u.doc, c) /\ Edit(u.doc, d.doc, c, {a}, {})
    BY <2>1, DeleteOp
  <2>a. a.text = t /\ ReEdit(u, c, op) = Preview(d, c)
    BY <1>1 DEF ReEdit
  <2> HIDE DEF d, a
  <2>3. /\ IsWorld(s) /\ s.session = NoWord /\ s.editor = d.editor /\ s.doc = d.doc /\ s.caret = d.caret
        /\ s.composition = d.composition /\ s.compCtx = d.compCtx
        /\ s.erased = d.erased \union {t.word} /\ s.finalized = d.finalized
    BY <2>2 DEF DocOK, IsWorld, Field
  <2> HIDE DEF s
  <2>4. DocOK(s)
    BY <2>2, <2>3 DEF DocOK
  <2>5. /\ SameWord(w, s) /\ s.erased = w.erased \union {a.text.word} /\ a \in Here(w.doc, c)
        /\ Edit(w.doc, s.doc, c, {a}, {})
    BY <1>w, <2>2, <2>3, <2>a DEF SameWord, Frame
  <2>6. Fine(s, h)
    <3> DEFINE X == {}
    <3>1. Edit(w.doc, s.doc, c, {a}, X) /\ \A x \in X : x.comp = a.comp /\ x.text.word = a.text.word
      BY <2>5
    <3> HIDE DEF X
    <3> QED BY <1>h, <2>4, <2>5, <3>1, ForgetFine
  <2>7. KeyIn(s, h, g, c)
    BY <2>3 DEF KeyIn
  <2>8. Retyped(s, h, d, g)
    BY <1>w, <2>2, <2>3 DEF Retyped, Frame
  <2> QED BY <2>2, <2>6, <2>7, <2>8, <2>a, PreviewFine
<1>2. CASE ~(u.caret[c] > 0 /\ u.doc[c][u.caret[c]].text = op.text)
  <2> DEFINE s == [u EXCEPT !.session = NoWord, !.popup = FALSE]
  <2>1. ReEdit(u, c, op) = DeleteChar(s, c)
    BY <1>2 DEF ReEdit
  <2>2. /\ IsWorld(s) /\ s.session = NoWord /\ s.editor = NoWord /\ s.doc = w.doc /\ s.caret = w.caret
        /\ s.composition = w.composition /\ s.compCtx = w.compCtx
        /\ s.erased = w.erased /\ s.finalized = w.finalized
    BY <1>w DEF IsWorld, Field
  <2> HIDE DEF s
  <2>3. DocOK(s) /\ SameWord(w, s)
    BY <1>w, <2>2 DEF DocOK, SameWord
  <2>4. Edit(w.doc, s.doc, c, {}, {})
    BY <2>2, EditNone
  <2>5. Fine(s, h)
    BY <1>h, <2>3, <2>4, QuietFine
  <2> QED BY <2>1, <2>2, <2>5, DeleteCharFine
<1> QED BY <1>1, <1>2

\* Backspace right after a commit.
LEMMA ReEditSync ==
    ASSUME MaxKeys \in Nat, NoContext \notin Context, ~Deferred, Sync, NEW c \in Context, ReEditKey(c)
    PROVE  SyncInv'
<1> DEFINE w == World
           h == Rest_
           g == Rest_'
<1>0. /\ Fine(w, h) /\ RestOK(Rest_) /\ keys \in 0..MaxKeys /\ ended \in Nat /\ DocOK(w) /\ IsWorld(w)
      /\ anchor \in Anchors /\ anchor.text.word <= keys /\ anchor.text.word \in Nat
      /\ editor \in {NoWord, session} /\ (Composing(World) <=> session # NoWord)
  BY SyncFacts
<1>1. /\ Key(c) /\ committed' = committed /\ crossed' = crossed /\ ~Composing(World) /\ anchor # NoAnchor
  BY DEF ReEditKey
<1>2. /\ keys' = keys + 1 /\ keys' <= MaxKeys /\ context' = c /\ ended' = ended
      /\ terminated' = terminated /\ ~terminated
  BY <1>1, KeyFacts
<1>3. reopened \subseteq reopened' /\ (anchor.space => reopened' = reopened)
  BY DEF ReEditKey
<1>4. Follows(h, g) /\ SameRest(h, g)
  <2>1. Follows(h, g)
    BY <1>0, <1>1, <1>2, <1>3, RestFollows
  <2>2. SameRest(h, g)
    BY <1>1, <1>2, RestFields DEF SameRest
  <2> QED BY <2>1, <2>2
<1>5. w.session = NoWord /\ w.editor = NoWord
  BY <1>0, <1>1, WorldFields
<1>6. CASE anchor.space
  <2>1. Become(DeleteChar(w, c)) /\ anchor' = [anchor EXCEPT !.space = FALSE]
    BY <1>6 DEF ReEditKey
  <2>2. anchor'.text.word <= keys'
    <3>1. anchor'.text = anchor.text
      BY <1>0, <2>1 DEF Anchors
    <3> QED BY <1>0, <1>2, <3>1
  <2> HIDE DEF w, h, g
  <2>3. DocOK(DeleteChar(w, c)) /\ Fine(DeleteChar(w, c), g)
    BY <1>0, <1>4, <1>5, DeleteCharFine
  <2>4. IsWorld(DeleteChar(w, c))
    BY <2>3 DEF DocOK
  <2> QED BY <2>1, <2>2, <2>3, <2>4, Landing DEF g
<1>7. CASE ~anchor.space
  <2> DEFINE t == anchor.text
             u == [World EXCEPT !.session = t]
             r == Request("reedit", c, t)
             v == ReEdit(u, c, r)
  <2>1. /\ Run(u, <<r>>) /\ anchor' = NoAnchor /\ reopened' = reopened \union {t.word}
    BY <1>7 DEF ReEditKey
  <2>2. t \in Real
    BY <1>0, <1>1, <1>7 DEF Anchors, Letters, NoAnchor
  <2>3. /\ IsWorld(u) /\ u.session = t /\ u.editor = NoWord /\ u.doc = w.doc /\ u.caret = w.caret
        /\ u.composition = w.composition /\ u.compCtx = w.compCtx
        /\ u.erased = w.erased /\ u.finalized = w.finalized
    BY <1>0, <1>5 DEF IsWorld, Field
  <2>4. r.text = t /\ Apply(u, r) = v
    BY DEF Apply, Request
  <2>5. Become(v)
    BY <2>1, <2>4, RunOne
  <2>6. KeyIn(w, h, g, c)
    BY <1>0, <1>1, <1>2, <1>5, RestFields DEF KeyIn
  <2>7. t.word <= g.keys /\ t.word \in g.reopened
    BY <1>0, <1>2, <2>1, RestFields
  <2>8. anchor'.text.word <= keys'
    BY <1>0, <1>2, <2>1 DEF NoAnchor, NoWord
  <2> HIDE DEF w, h, g, t, u, r
  <2>9. DocOK(u)
    BY <1>0, <2>3 DEF DocOK
  <2>10. Fine(v, g)
    BY <1>0, <1>4, <1>5, <2>2, <2>3, <2>4, <2>6, <2>7, <2>9, ReEditFine
  <2>11. IsWorld(v)
    BY <2>10, FineParts DEF DocOK
  <2> HIDE DEF v
  <2> QED BY <2>5, <2>8, <2>10, <2>11, Landing DEF g
<1> QED BY <1>6, <1>7

\* g is h after one more commit.
Appending(h, g, t) ==
    /\ g.keys \in {h.keys, h.keys + 1} /\ g.keys <= MaxKeys /\ g.context \in Context \union {NoContext}
    /\ g.ended = h.ended /\ (g.terminated <=> h.terminated) /\ g.reopened = h.reopened
    /\ g.committed = Append(h.committed, t) /\ t \in Real /\ t.word <= h.keys
    /\ (h.crossed => g.crossed) /\ (g.crossed => Several)

\* What a step that commits does to the rest of the state.
LEMMA RestAppends ==
    ASSUME MaxKeys \in Nat, NEW h, RestOK(h), NEW g, NEW t, Appending(h, g, t)
    PROVE  Follows(h, g) /\ Adds(h.committed, g.committed, t) /\ t \in Real
<1> DEFINE cm == h.committed
           dm == g.committed
<1>1. /\ h.keys \in 0..MaxKeys /\ h.ended \in Nat /\ cm \in Seq(Real)
      /\ \A i \in DOMAIN cm : cm[i].word <= h.keys
  BY DEF RestOK
<1>2. /\ g.keys \in {h.keys, h.keys + 1} /\ g.keys <= MaxKeys /\ g.context \in Context \union {NoContext}
      /\ g.ended = h.ended /\ g.reopened = h.reopened
      /\ dm = Append(cm, t) /\ t \in Real /\ t.word <= h.keys
      /\ (h.crossed => g.crossed) /\ (g.crossed => Several)
  BY DEF Appending
<1> HIDE DEF cm, dm
<1>3. Adds(cm, dm, t) /\ dm \in Seq(Real)
  BY <1>1, <1>2, AppendAdds
<1>4. \A i \in DOMAIN dm : dm[i].word <= g.keys
  <2> SUFFICES ASSUME NEW i \in DOMAIN dm PROVE dm[i].word <= g.keys
    OBVIOUS
  <2>1. dm[i].word = t.word \/ \E j \in DOMAIN cm : cm[j].word = dm[i].word
    BY <1>3 DEF Adds
  <2>2. dm[i].word <= h.keys
    BY <1>1, <1>2, <2>1
  <2>3. dm[i].word \in Nat
    <3>1. dm[i] \in Real
      BY <1>3
    <3> QED BY <3>1 DEF Real
  <2> QED BY <1>1, <1>2, <2>2, <2>3
<1>5. RestOK(g)
  BY <1>1, <1>2, <1>3, <1>4 DEF RestOK, dm
<1>6. g.keys >= h.keys /\ (g.ended = 0 => h.ended = 0) /\ h.reopened \subseteq g.reopened
  BY <1>1, <1>2
<1> QED BY <1>2, <1>3, <1>5, <1>6 DEF Follows, cm, dm

\* u is w, with another word.
OtherWord(w, u) ==
    /\ IsWorld(u) /\ u.doc = w.doc /\ u.caret = w.caret /\ u.composition = w.composition
    /\ u.compCtx = w.compCtx /\ u.erased = w.erased /\ u.finalized = w.finalized

\* A commit in c, at once: v is what it leaves of w, whatever word u starts with it.
LEMMA CommitEdits ==
    ASSUME NEW w, DocOK(w), NEW u, OtherWord(w, u), NEW c \in Context, NEW op, op.text \in Letters, op.suffix \in Suffix
    PROVE  LET v == Commit(u, c, op)
           IN  /\ DocOK(v) /\ v.composition = 0 /\ v.compCtx = NoContext
               /\ v.session = u.session /\ v.editor = u.editor
               /\ v.erased = w.erased /\ v.finalized = w.finalized
               /\ TakesText(w, c) =>
                      \E a \in Here(w.doc, c) :
                          a.comp = w.composition /\ a.comp # 0 /\ Edit(w.doc, v.doc, c, {a}, Word(op.text))
               /\ ~TakesText(w, c) => Edit(w.doc, v.doc, c, {}, Word(op.text))
<1> DEFINE v == Commit(u, c, op)
<1>o. /\ IsWorld(u) /\ u.doc = w.doc /\ u.caret = w.caret /\ u.composition = w.composition
      /\ u.compCtx = w.compCtx /\ u.erased = w.erased /\ u.finalized = w.finalized
  BY DEF OtherWord
<1>1. DocOK(u)
  BY <1>o DEF DocOK
<1>2. /\ Ends(u, v) /\ DocOK(v)
      /\ TakesText(u, c) =>
             \E a \in Here(u.doc, c) :
                 a.comp = u.composition /\ a.comp # 0 /\ Edit(u.doc, v.doc, c, {a}, Word(op.text))
      /\ ~TakesText(u, c) => Edit(u.doc, v.doc, c, {}, Word(op.text))
  BY <1>1, CommitOp
<1> HIDE DEF v
<1>3. TakesText(u, c) <=> TakesText(w, c)
  BY <1>o DEF TakesText
<1>4. /\ TakesText(w, c) =>
             \E a \in Here(w.doc, c) :
                 a.comp = w.composition /\ a.comp # 0 /\ Edit(w.doc, v.doc, c, {a}, Word(op.text))
      /\ ~TakesText(w, c) => Edit(w.doc, v.doc, c, {}, Word(op.text))
  BY <1>o, <1>2, <1>3
<1> QED BY <1>o, <1>2, <1>4 DEF Ends, v

\* A commit of the word being typed.
LEMMA CommitSync ==
    ASSUME MaxKeys \in Nat, NoContext \notin Context, ~Deferred, Sync, NEW c \in Context,
           session # NoWord, NEW t, t.word = session.word, NEW s \in Suffix,
           Appending(Rest_, Rest_', t), Run(Committed(World), <<CommitRequest(c, t, s)>>),
           crossed' \/ compCtx \in {NoContext, c} \/ c = context, anchor'.text.word <= keys'
    PROVE  SyncInv'
<1> DEFINE w == World
           h == Rest_
           g == Rest_'
           u == Committed(w)
           r == CommitRequest(c, t, s)
           v == Commit(u, c, r)
<1>0. Fine(w, h) /\ RestOK(h) /\ DocOK(w) /\ IsWorld(w)
  BY SyncFacts
<1>1. /\ w.session # NoWord /\ t.word = w.session.word
      /\ g.crossed \/ w.compCtx \in {NoContext, c} \/ c = h.context
  BY WorldFields, RestFields
<1>2. OtherWord(w, u) /\ u.session = NoWord /\ u.editor = NoWord
  BY <1>0 DEF OtherWord, Committed, IsWorld, Field
<1>3. r.text = t /\ r.suffix = s /\ Apply(u, r) = v
  BY DEF Apply, CommitRequest
<1>4. Become(v)
  BY <1>3, RunOne
<1>5. Appending(h, g, t)
  OBVIOUS
<1> HIDE DEF w, h, g, u, r
<1>6. Follows(h, g) /\ Adds(h.committed, g.committed, t) /\ t \in Real
  BY <1>0, <1>5, RestAppends
<1>7. g.ended = h.ended /\ (g.terminated <=> h.terminated)
  BY <1>5 DEF Appending
<1>8. r.text \in Letters /\ r.suffix \in Suffix
  BY <1>3, <1>6 DEF Letters
<1>v. /\ DocOK(v) /\ v.composition = 0 /\ v.compCtx = NoContext
      /\ v.session = u.session /\ v.editor = u.editor
      /\ v.erased = w.erased /\ v.finalized = w.finalized
      /\ TakesText(w, c) =>
             \E a \in Here(w.doc, c) :
                 a.comp = w.composition /\ a.comp # 0 /\ Edit(w.doc, v.doc, c, {a}, Word(r.text))
      /\ ~TakesText(w, c) => Edit(w.doc, v.doc, c, {}, Word(r.text))
  BY <1>0, <1>2, <1>8, CommitEdits
<1>9. /\ DocOK(v) /\ v.composition = 0 /\ v.compCtx = NoContext
      /\ v.session = NoWord /\ v.editor = NoWord
      /\ v.erased = w.erased /\ v.finalized = w.finalized
      /\ TakesText(w, c) =>
             \E a \in Here(w.doc, c) :
                 a.comp = w.composition /\ a.comp # 0 /\ Edit(w.doc, v.doc, c, {a}, Word(t))
      /\ ~TakesText(w, c) => Edit(w.doc, v.doc, c, {}, Word(t))
  BY <1>v, <1>2, <1>3
<1> HIDE DEF v
<1>10. Gone(v)
  BY <1>9 DEF Gone
<1>11. Fine(v, g)
  BY <1>0, <1>1, <1>6, <1>7, <1>9, <1>10, CommitFine
<1>12. IsWorld(v)
  BY <1>9 DEF DocOK
<1> QED BY <1>4, <1>11, <1>12, Landing DEF g

\* What a key that commits t does to the rest of the state.
LEMMA KeyAppends ==
    ASSUME MaxKeys \in Nat, Sync, NEW t \in Real, t.word = session.word,
           keys' = keys + 1, keys' <= MaxKeys, context' \in Context \union {NoContext},
           ended' = ended, (terminated' <=> terminated), reopened' = reopened,
           committed' = Append(committed, t), crossed => crossed', crossed' => Several
    PROVE  Appending(Rest_, Rest_', t)
<1> DEFINE h == Rest_
           g == Rest_'
<1>1. keys \in 0..MaxKeys /\ session.word <= keys
  BY SyncFacts
<1>2. /\ h.keys = keys /\ h.committed = committed /\ h.reopened = reopened /\ h.ended = ended
      /\ g.keys = keys' /\ g.context = context' /\ g.committed = committed'
      /\ g.reopened = reopened' /\ g.ended = ended'
      /\ (h.terminated <=> terminated) /\ (g.terminated <=> terminated')
      /\ (h.crossed <=> crossed) /\ (g.crossed <=> crossed')
  BY RestFields
<1> HIDE DEF h, g
<1>3. /\ g.keys \in {h.keys, h.keys + 1} /\ g.keys <= MaxKeys /\ g.context \in Context \union {NoContext}
      /\ g.ended = h.ended /\ g.reopened = h.reopened
      /\ g.committed = Append(h.committed, t) /\ t.word <= h.keys
  BY <1>1, <1>2
<1>4. (g.terminated <=> h.terminated) /\ (h.crossed => g.crossed) /\ (g.crossed => Several)
  BY <1>2
<1> QED BY <1>3, <1>4 DEF Appending, h, g

\* A key from another field than the word's shows that there are two.
LEMMA CrossingIsSeveral ==
    ASSUME MaxKeys \in Nat, Sync, NEW c \in Context, Elsewhere(World, c)
    PROVE  Several
<1>1. compCtx \in Context \union {NoContext} /\ compCtx \notin {NoContext, c}
  BY SyncFacts, WorldFields DEF Elsewhere
<1> QED BY <1>1 DEF Several

\* ... and there were two already if such a key came before.
LEMMA WasSeveral ==
    ASSUME MaxKeys \in Nat, Sync, crossed
    PROVE  Several
<1> DEFINE h == Rest_
<1>1. RestOK(h)
  BY SyncFacts
<1>2. h.crossed <=> crossed
  BY RestFields
<1> HIDE DEF h
<1> QED BY <1>1, <1>2 DEF RestOK

\* The anchor that a commit leaves.
LEMMA AnchorIsTyped ==
    ASSUME MaxKeys \in Nat, Sync, NEW s, keys' = keys + 1, anchor' = AnchorAfter(s)
    PROVE  anchor'.text.word <= keys'
<1>1. keys \in Nat /\ session.word \in Nat /\ session.word <= keys /\ Shown(World) = session
  BY SyncFacts
<1>2. anchor'.text.word \in {0, session.word}
  BY <1>1 DEF AnchorAfter, NoAnchor, NoWord
<1> QED BY <1>1, <1>2

\* Space, Enter, Esc and punctuation commit the word.
LEMMA CommitKeySync ==
    ASSUME MaxKeys \in Nat, NoContext \notin Context, ~Deferred, Sync, NEW c \in Context, CommitKey(c)
    PROVE  SyncInv'
<1>1. /\ Key(c) /\ Composing(World) /\ committed' = Append(committed, Shown(World))
      /\ reopened' = reopened /\ crossed' = crossed
  BY DEF CommitKey
<1>2. PICK s \in Suffix : /\ anchor' = AnchorAfter(s)
                          /\ Run(Committed(World), <<CommitRequest(c, Shown(World), s)>>)
  BY DEF CommitKey
<1>3. /\ session # NoWord /\ session \in Real /\ Shown(World) = session
      /\ keys \in 0..MaxKeys
  BY <1>1, SyncFacts
<1>4. /\ keys' = keys + 1 /\ keys' <= MaxKeys /\ context' = c /\ ended' = ended
      /\ terminated' = terminated /\ compCtx \in {NoContext, c}
  BY <1>1, <1>3, KeyFacts
<1>5. Appending(Rest_, Rest_', session)
  <2>1. crossed' => Several
    BY <1>1, WasSeveral
  <2> QED BY <1>1, <1>3, <1>4, <2>1, KeyAppends
<1>6. anchor'.text.word <= keys'
  BY <1>2, <1>4, AnchorIsTyped
<1> QED BY <1>2, <1>3, <1>4, <1>5, <1>6, CommitSync

\* A toggle commits the word, Ctrl+Space in whatever field it comes from.
LEMMA ToggleSync ==
    ASSUME MaxKeys \in Nat, NoContext \notin Context, ~Deferred, Sync, NEW c \in Context,
           ToggleKey(c) \/ PreservedKey(c), Composing(World)
    PROVE  SyncInv'
<1> DEFINE s == <<>>
<1>1. /\ anchor' = AnchorAfter(s) /\ Run(Committed(World), <<CommitRequest(c, Shown(World), s)>>)
      /\ committed' = Append(committed, Shown(World)) /\ reopened' = reopened
  BY DEF ToggleKey, PreservedKey, Toggle
<1>2. s \in Suffix
  BY DEF Suffix
<1> HIDE DEF s
<1>3. /\ session # NoWord /\ session \in Real /\ Shown(World) = session
      /\ keys \in 0..MaxKeys /\ context \in Context \union {NoContext}
      /\ compCtx \in Context \union {NoContext}
  BY SyncFacts
<1>4. /\ keys' = keys + 1 /\ keys' <= MaxKeys /\ context' \in Context \union {NoContext}
      /\ ended' = ended /\ terminated' = terminated
      /\ crossed => crossed'
      /\ crossed' => Several
      /\ crossed' \/ compCtx \in {NoContext, c}
  <2>1. CASE ToggleKey(c)
    <3>1. Key(c) /\ crossed' = crossed
      BY <2>1 DEF ToggleKey
    <3>2. /\ keys' = keys + 1 /\ keys' <= MaxKeys /\ context' = c /\ ended' = ended
          /\ terminated' = terminated /\ compCtx \in {NoContext, c}
      BY <1>3, <3>1, KeyFacts
    <3> QED BY <3>1, <3>2, WasSeveral
  <2>2. CASE PreservedKey(c)
    <3>1. /\ keys' = keys + 1 /\ keys < MaxKeys /\ context' = context /\ ended' = ended
          /\ terminated' = terminated
      BY <2>2 DEF PreservedKey
    <3>x. crossed' <=> (crossed \/ Elsewhere(World, c))
      BY <2>2 DEF PreservedKey
    <3>2. crossed' => Several
      BY <3>x, WasSeveral, CrossingIsSeveral
    <3>3. Elsewhere(World, c) \/ compCtx \in {NoContext, c}
      BY <1>1, <1>3, WorldFields, SyncFacts DEF Elsewhere
    <3>4. (crossed => crossed') /\ (crossed' \/ compCtx \in {NoContext, c})
      BY <3>x, <3>3
    <3> QED BY <1>3, <3>1, <3>2, <3>4
  <2> QED BY <2>1, <2>2
<1>5. Appending(Rest_, Rest_', session)
  BY <1>1, <1>3, <1>4, KeyAppends
<1>6. anchor'.text.word <= keys'
  BY <1>1, <1>4, AnchorIsTyped
<1> QED BY <1>1, <1>2, <1>3, <1>4, <1>5, <1>6, CommitSync

\* A click on a row commits it where the last key came from.
LEMMA ClickSync ==
    ASSUME MaxKeys \in Nat, NoContext \notin Context, ~Deferred, Sync, ClickRow
    PROVE  SyncInv'
<1> DEFINE s == <<Plain(Space)>>
<1>1. /\ session # NoWord /\ context # NoContext /\ keys < MaxKeys /\ keys' = keys + 1
      /\ context' = context /\ terminated' = terminated /\ ended' = ended /\ reopened' = reopened
      /\ crossed' = crossed
  BY DEF ClickRow
<1>2. PICK pick \in 0..1 :
          LET t == [session EXCEPT !.pick = pick]
          IN  /\ anchor' = [text |-> t, space |-> TRUE]
              /\ Run(Committed(World), <<CommitRequest(context, t, s)>>)
              /\ committed' = Append(committed, t)
  BY DEF ClickRow
<1> DEFINE t == [session EXCEPT !.pick = pick]
<1>3. /\ session \in Real /\ keys \in 0..MaxKeys /\ context \in Context /\ session.word <= keys
  BY <1>1, SyncFacts
<1>4. t \in Real /\ t.word = session.word
  BY <1>3 DEF Real
<1>5. s \in Suffix
  BY DEF Suffix
<1>6. /\ anchor' = [text |-> t, space |-> TRUE] /\ committed' = Append(committed, t)
      /\ Run(Committed(World), <<CommitRequest(context, t, s)>>)
  BY <1>2
<1> HIDE DEF s, t
<1>7. keys' <= MaxKeys /\ anchor'.text.word <= keys'
  <2>1. session.word \in Nat
    BY SyncFacts
  <2> QED BY <1>1, <1>3, <1>4, <1>6, <2>1
<1>8. Appending(Rest_, Rest_', t)
  <2>1. crossed' => Several
    BY <1>1, WasSeveral
  <2> QED BY <1>1, <1>3, <1>4, <1>6, <1>7, <2>1, KeyAppends
<1> QED BY <1>1, <1>3, <1>4, <1>5, <1>6, <1>7, <1>8, CommitSync

\* The request commits t.
Asks(op, t) == op.text = t /\ op.suffix \in Suffix

\* The step of a key in c; u has the word that it starts.
NextKey(w, h, g, c) ==
    /\ ~h.terminated /\ h.keys < g.keys /\ g.context = c /\ (g.crossed <=> h.crossed)
    /\ w.compCtx \in {NoContext, c}
Starts(u, g) == u.session \in Real /\ u.editor = NoWord /\ u.session.word = g.keys

\* A commit and, in the same field, the preview of the word that starts after it.
LEMMA NextWordFine ==
    ASSUME MaxKeys \in Nat, NoContext \notin Context, NEW w, NEW h, Fine(w, h), w.session # NoWord,
           NEW t, t.word = w.session.word, NEW g, Appending(h, g, t), NEW c \in Context,
           NextKey(w, h, g, c), NEW op, Asks(op, t), NEW u, OtherWord(w, u), Starts(u, g)
    PROVE  Fine(Preview(Commit(u, c, op), c), g)
<1> DEFINE v == Commit(u, c, op)
           z == [v EXCEPT !.session = NoWord]
           m == [keys |-> h.keys, context |-> h.context, crossed |-> h.crossed,
                 terminated |-> h.terminated, committed |-> g.committed,
                 reopened |-> h.reopened, ended |-> h.ended]
<1>h. /\ RestOK(h) /\ h.keys \in Nat /\ h.keys <= MaxKeys /\ DocOK(w)
      /\ h.context \in Context \union {NoContext}
  BY FineParts DEF RestOK
<1>g. /\ g.keys \in Nat /\ g.keys <= MaxKeys /\ g.ended = h.ended /\ (g.terminated <=> h.terminated)
      /\ g.reopened = h.reopened /\ g.committed = Append(h.committed, t) /\ t \in Real /\ t.word <= h.keys
      /\ (h.crossed => g.crossed) /\ (g.crossed => Several)
  BY <1>h DEF Appending
<1>m. /\ m.keys = h.keys /\ m.context = h.context /\ (m.crossed <=> h.crossed)
      /\ (m.terminated <=> h.terminated) /\ m.committed = g.committed
      /\ m.reopened = h.reopened /\ m.ended = h.ended
  OBVIOUS
<1> HIDE DEF m
<1>1. Appending(h, m, t)
  BY <1>h, <1>g, <1>m DEF Appending
<1>2. Follows(h, m) /\ Adds(h.committed, m.committed, t) /\ t \in Real
  BY <1>h, <1>1, RestAppends
<1>3. Follows(m, g)
  <2>1. RestOK(g)
    BY <1>h, RestAppends DEF Follows
  <2> QED BY <1>h, <1>g, <1>m, <2>1 DEF Follows, NextKey
<1>4. op.text \in Letters /\ op.suffix \in Suffix
  BY <1>g DEF Letters, Asks
<1>w. DocOK(w) /\ OtherWord(w, u)
  BY <1>h
<1>5. /\ DocOK(v) /\ v.composition = 0 /\ v.compCtx = NoContext
      /\ v.session = u.session /\ v.editor = u.editor
      /\ v.erased = w.erased /\ v.finalized = w.finalized
      /\ TakesText(w, c) =>
             \E a \in Here(w.doc, c) :
                 a.comp = w.composition /\ a.comp # 0 /\ Edit(w.doc, v.doc, c, {a}, Word(op.text))
      /\ ~TakesText(w, c) => Edit(w.doc, v.doc, c, {}, Word(op.text))
  BY <1>4, <1>w, CommitEdits
<1> HIDE DEF v
<1>6. /\ IsWorld(z) /\ z.session = NoWord /\ z.editor = NoWord /\ z.doc = v.doc /\ z.caret = v.caret
      /\ z.composition = 0 /\ z.compCtx = NoContext /\ z.erased = w.erased /\ z.finalized = w.finalized
  <2>1. /\ IsWorld(v) /\ v.editor = NoWord /\ v.composition = 0 /\ v.compCtx = NoContext
        /\ v.erased = w.erased /\ v.finalized = w.finalized
    BY <1>5 DEF DocOK, Starts
  <2> QED BY <2>1 DEF IsWorld, Field
<1> HIDE DEF z
<1>7. /\ TakesText(w, c) =>
             \E a \in Here(w.doc, c) :
                 a.comp = w.composition /\ a.comp # 0 /\ Edit(w.doc, z.doc, c, {a}, Word(t))
      /\ ~TakesText(w, c) => Edit(w.doc, z.doc, c, {}, Word(t))
  BY <1>5, <1>6 DEF Asks
<1>8. DocOK(z) /\ Gone(z)
  BY <1>5, <1>6 DEF DocOK, Gone
<1>9. /\ m.crossed \/ w.compCtx \in {NoContext, c} \/ c = h.context
      /\ m.ended = h.ended /\ (m.terminated <=> h.terminated)
  BY <1>m DEF NextKey
<1>10. Fine(z, m)
  BY <1>2, <1>6, <1>7, <1>8, <1>9, CommitFine
<1>11. KeyIn(z, m, g, c)
  BY <1>g, <1>m, <1>6 DEF KeyIn, NextKey
<1>12. Retyped(z, m, v, g)
  <2>1. g.keys \in Nat /\ u.session.word = g.keys
    BY <1>g DEF Starts
  <2> QED BY <1>5, <1>6, <1>m, <1>h, <2>1 DEF Retyped, Starts, NextKey
<1>13. Fine(Preview(v, c), g)
  BY <1>3, <1>5, <1>10, <1>11, <1>12, PreviewFine
<1> QED BY <1>13 DEF v

\* A letter in the diacritics editor.
LEMMA NextWordSync ==
    ASSUME MaxKeys \in Nat, NoContext \notin Context, ~Deferred, Sync, NEW c \in Context, CommitThenType(c)
    PROVE  SyncInv'
<1> DEFINE w == World
           h == Rest_
           g == Rest_'
           t == editor
           q == [word |-> keys + 1, len |-> 1, pick |-> 0]
           u == [Committed(w) EXCEPT !.session = q]
           r == CommitRequest(c, t, <<>>)
           s == Request("preview", c, NoWord)
           v == Commit(u, c, r)
           x == Preview(v, c)
<1>1. /\ Key(c) /\ editor # NoWord /\ anchor' = NoAnchor /\ committed' = Append(committed, t)
      /\ reopened' = reopened /\ crossed' = crossed /\ Run(u, <<r, s>>)
  BY DEF CommitThenType
<1>2. /\ Fine(w, h) /\ IsWorld(w) /\ editor \in {NoWord, session} /\ keys \in 0..MaxKeys
      /\ session # NoWord => session \in Real
  BY SyncFacts
<1>3. t = session /\ session # NoWord /\ t \in Real
  BY <1>1, <1>2
<1>4. /\ keys' = keys + 1 /\ keys' <= MaxKeys /\ context' = c /\ ended' = ended
      /\ terminated' = terminated /\ ~terminated /\ compCtx \in {NoContext, c}
  BY <1>1, <1>3, KeyFacts
<1>5. Appending(h, g, t)
  <2>1. crossed' => Several
    BY <1>1, WasSeveral
  <2> QED BY <1>1, <1>3, <1>4, <2>1, KeyAppends
<1>6. OtherWord(w, u) /\ u.session = q /\ u.editor = NoWord
  BY <1>2 DEF OtherWord, Committed, IsWorld, Field
<1>7. Asks(r, t) /\ Apply(u, r) = v /\ Apply(v, s) = x
  BY DEF Apply, CommitRequest, Request, Suffix, Asks
<1> HIDE DEF t, u, r, s, v, x
<1>8. Become(x)
  BY <1>1, <1>7, RunTwo
<1>9. q \in Real /\ q.word = keys + 1
  BY <1>2 DEF Real
<1>10. /\ w.session # NoWord /\ t.word = w.session.word /\ NextKey(w, h, g, c)
       /\ g.keys = keys + 1
  BY <1>1, <1>2, <1>3, <1>4, WorldFields, RestFields DEF NextKey
<1>11. anchor'.text.word <= keys'
  BY <1>1, <1>2, <1>4 DEF NoAnchor, NoWord
<1> HIDE DEF w, h, g, q
<1>12. Starts(u, g)
  BY <1>6, <1>9, <1>10 DEF Starts
<1>13. Fine(x, g)
  <2>1. Fine(Preview(Commit(u, c, r), c), g)
    BY <1>2, <1>5, <1>6, <1>7, <1>10, <1>12, NextWordFine
  <2> QED BY <2>1 DEF x, v
<1>14. IsWorld(x)
  BY <1>13, FineParts DEF DocOK
<1> QED BY <1>8, <1>11, <1>13, <1>14, Landing DEF g

-----------------------------------------------------------------------------
(* The theorems about what is on screen.                                   *)

\* Nothing was typed yet.
LEMMA SyncInit == ASSUME MaxKeys \in Nat, Init PROVE SyncInv
<1> DEFINE w == World
           h == Rest_
<1>i. /\ session = NoWord /\ editor = NoWord /\ composition = 0 /\ compCtx = NoContext
      /\ doc = [c \in Context |-> <<>>] /\ caret = [c \in Context |-> 0] /\ finalized = {}
      /\ keys = 0 /\ context = NoContext /\ ~crossed /\ ~terminated /\ committed = <<>>
      /\ reopened = {} /\ ended = 0 /\ anchor = NoAnchor
  BY DEF Init
<1>1. /\ w.session = NoWord /\ w.editor = NoWord /\ w.composition = 0 /\ w.compCtx = NoContext
      /\ w.doc = [c \in Context |-> <<>>] /\ w.caret = [c \in Context |-> 0] /\ w.finalized = {}
      /\ IsWorld(w)
  BY <1>i, WorldFields, WorldIsWorld
<1>2. /\ h.keys = 0 /\ h.context = NoContext /\ ~h.crossed /\ ~h.terminated /\ h.committed = <<>>
      /\ h.reopened = {} /\ h.ended = 0
  BY <1>i, RestFields
<1>3. anchor.text.word <= keys
  BY <1>i DEF NoAnchor, NoWord
<1> HIDE DEF w, h
<1>4. \A c \in Context : Here(w.doc, c) = {}
  <2>1. \A c \in Context : w.doc[c] = <<>>
    BY <1>1
  <2> QED BY <2>1 DEF Here
<1>5. DocOK(w)
  <2>1. \A c \in Context : w.doc[c] = <<>> /\ w.caret[c] = 0 /\ <<>> \in Seq(APiece)
    BY <1>1
  <2>2. w.doc \in [Context -> Seq(APiece)] /\ w.caret \in [Context -> Nat]
    BY <1>1, <2>1
  <2> QED BY <1>1, <2>1, <2>2 DEF DocOK
<1>6. Docs(w, h.keys)
  <2>1. Numbers(w.doc) = {}
    BY <1>4 DEF Numbers, Absent
  <2>2. IsFiniteSet(Numbers(w.doc)) /\ Cardinality(Numbers(w.doc)) = 0
    BY <2>1, FS_EmptySet
  <2>3. \A n \in Nat \ {0} : Single(w.doc, ByComp(n))
    <3>1. \A c \in Context : DOMAIN w.doc[c] = {}
      BY <1>1
    <3> QED BY <3>1 DEF Single
  <2>4. Cardinality(Numbers(w.doc)) <= h.keys
    BY <1>2, <2>2
  <2> QED BY <1>4, <1>5, <2>2, <2>3, <2>4 DEF Docs
<1>7. RestOK(h)
  <2>1. <<>> \in Seq(Real) /\ DOMAIN <<>> = {}
    OBVIOUS
  <2> QED BY <1>2, <2>1 DEF RestOK
<1>8. Owe(w, h.committed) /\ WrittenOnce(w, h.committed, h.reopened)
  <2>1. DOMAIN h.committed = {}
    BY <1>2
  <2> QED BY <1>1, <2>1 DEF Owe, Owed, WrittenOnce
<1>9. Shows(w, h.context) /\ Lonely(w, h.terminated) /\ OnScreen(w, h.reopened)
  BY <1>1, <1>4 DEF Shows, Lonely, OnScreen
<1>10. w.session \in Letters /\ w.session.word = 0 /\ 0 <= h.keys
  BY <1>1, <1>2 DEF Letters, NoWord
<1>11. Fine(w, h)
  BY <1>1, <1>2, <1>6, <1>7, <1>8, <1>9, <1>10 DEF Fine
<1> QED BY <1>3, <1>11 DEF SyncInv, w, h

\* Every step keeps the invariant.
LEMMA SyncStep ==
    ASSUME ServiceAssumption, Deferred = FALSE, Sync, [Next]_vars
    PROVE  SyncInv'
<1>a. MaxKeys \in Nat /\ NoContext \notin Context /\ ~Deferred /\ Context # {}
  BY DEF ServiceAssumption
<1>1. CASE UNCHANGED vars
  <2>1. World' = World /\ Rest_' = Rest_ /\ anchor' = anchor /\ keys' = keys
    BY <1>1 DEF vars, engine, screen, tsf, bounds, history, World, Rest_
  <2> QED BY <2>1 DEF Sync, SyncInv
<1>2. ASSUME NEW c \in Context, KeyDown(c) PROVE SyncInv'
  <2>1. CASE AppendChar(c) \/ MoveHighlight(c) \/ SwitchEditor(c)
    BY <1>a, <2>1, TypeSync
  <2>2. CASE Backspace(c)
    BY <1>a, <2>2, TypeSync, CancelSync
  <2>3. CASE ToggleKey(c)
    BY <1>a, <2>3, ToggleSync, IdleToggleSync
  <2>4. CASE CommitKey(c) \/ CommitThenType(c)
    BY <1>a, <2>4, CommitKeySync, NextWordSync
  <2>5. CASE InsertKey(c) \/ ReEditKey(c) \/ PassKey(c)
    BY <1>a, <2>5, InsertSync, ReEditSync, PassSync
  <2> QED BY <1>2, <2>1, <2>2, <2>3, <2>4, <2>5 DEF KeyDown
<1>3. ASSUME NEW c \in Context,
             \/ DropDeadState(c) \/ PreservedKey(c) \/ MoveCaret(c)
             \/ CompositionTerminated(c) \/ CompositionLost(c)
      PROVE  SyncInv'
  <2>1. CASE DropDeadState(c) \/ MoveCaret(c)
    BY <1>a, <2>1, DropSync, CaretSync
  <2>2. CASE PreservedKey(c)
    BY <1>a, <2>2, ToggleSync, IdleToggleSync
  <2>3. CASE CompositionTerminated(c) \/ CompositionLost(c)
    BY <1>a, <2>3, HostSync
  <2> QED BY <1>3, <2>1, <2>2, <2>3
<1>4. CASE ClickRow
  BY <1>a, <1>4, ClickSync
<1>5. PICK c \in Context : TRUE
  BY <1>a
<1>6. CASE SetFocus
  BY <1>a, <1>5, <1>6, FocusMovesSync
<1>7. ASSUME NEW gained \in BOOLEAN, ThreadFocus(gained) PROVE SyncInv'
  BY <1>a, <1>5, <1>7, FocusSync
<1>8. ~RunQueued /\ ~Discard
  <2>1. queue = <<>> /\ DOMAIN queue = {}
    BY DEF Sync, PopupInv
  <2> QED BY <2>1 DEF RunQueued, Discard
<1> QED BY <1>1, <1>2, <1>3, <1>4, <1>6, <1>7, <1>8 DEF Next

\* A piece by its field and its place there.
LEMMA PiecesAre ==
    ASSUME DocOK(World)
    PROVE  /\ \A q \in Pieces : q[1] \in Context /\ q[2] \in DOMAIN doc[q[1]]
                                /\ q = <<q[1], q[2]>> /\ Piece_(q) \in Here(doc, q[1])
           /\ \A c \in Context : \A i \in DOMAIN doc[c] : <<c, i>> \in Pieces
<1>1. ASSUME NEW q \in Pieces
      PROVE  q[1] \in Context /\ q[2] \in DOMAIN doc[q[1]] /\ q = <<q[1], q[2]>> /\ Piece_(q) \in Here(doc, q[1])
  <2>1. PICK c \in Context : q \in {c} \X DOMAIN doc[c]
    BY DEF Pieces
  <2>2. q[1] = c /\ q[2] \in DOMAIN doc[c] /\ q = <<q[1], q[2]>>
    BY <2>1
  <2> QED BY <2>2 DEF Piece_, Here
<1>2. ASSUME NEW c \in Context, NEW i \in DOMAIN doc[c] PROVE <<c, i>> \in Pieces
  BY DEF Pieces
<1> QED BY <1>1, <1>2

\* There are finitely many.
LEMMA PiecesFinite ==
    ASSUME IsFiniteSet(Context), DocOK(World)
    PROVE  IsFiniteSet(Pieces)
<1> DEFINE T == {{c} \X DOMAIN doc[c] : c \in Context}
           f == [c \in Context |-> {c} \X DOMAIN doc[c]]
<1>1. \A c \in Context : doc[c] \in Seq(APiece)
  BY WorldFields DEF DocOK
<1>2. ASSUME NEW c \in Context PROVE IsFiniteSet({c} \X DOMAIN doc[c])
  <2>1. DOMAIN doc[c] = 1..Len(doc[c]) /\ Len(doc[c]) \in Int
    BY <1>1
  <2>2. IsFiniteSet(DOMAIN doc[c]) /\ IsFiniteSet({c})
    <3>1. IsFiniteSet(1..Len(doc[c]))
      BY <2>1, FS_Interval
    <3> QED BY <2>1, <3>1, FS_Singleton
  <2> QED BY <2>2, FS_Product
<1>3. f \in Surjection(Context, T)
  BY DEF Surjection
<1>4. IsFiniteSet(T)
  BY <1>3, FS_Surjection
<1>5. \A t \in T : IsFiniteSet(t)
  BY <1>2
<1>6. Pieces = UNION T
  BY DEF Pieces
<1> HIDE DEF T
<1> QED BY <1>4, <1>5, <1>6, FS_UNION

\* A word in one piece has one copy at most ...
LEMMA OneCopy ==
    ASSUME DocOK(World), NEW n \in Nat \ {0}, Single(doc, ByWord(n))
    PROVE  Copies(n) <= 1
<1> DEFINE S == {q \in Pieces : Piece_(q).text.word = n}
<1>1. ASSUME NEW q \in S, NEW r \in S PROVE q = r
  <2>1. /\ q \in Pieces /\ r \in Pieces /\ Piece_(q).text.word = n /\ Piece_(r).text.word = n
    OBVIOUS
  <2>2. /\ q[1] \in Context /\ q[2] \in DOMAIN doc[q[1]] /\ q = <<q[1], q[2]>>
        /\ r[1] \in Context /\ r[2] \in DOMAIN doc[r[1]] /\ r = <<r[1], r[2]>>
        /\ Piece_(q) \in Here(doc, q[1]) /\ Piece_(r) \in Here(doc, r[1])
    BY <2>1, PiecesAre
  <2>3. Piece_(q) \in ByWord(n) /\ Piece_(r) \in ByWord(n)
    BY <2>1, <2>2, DocPieces, WorldFields DEF ByWord
  <2> DEFINE b == q[1]
             i == q[2]
             c == r[1]
             j == r[2]
  <2>4. b \in Context /\ c \in Context /\ i \in DOMAIN doc[b] /\ j \in DOMAIN doc[c]
        /\ doc[b][i] \in ByWord(n) /\ doc[c][j] \in ByWord(n)
    BY <2>2, <2>3 DEF Piece_
  <2> HIDE DEF b, i, c, j
  <2>5. b = c /\ i = j
    BY <2>4 DEF Single
  <2> QED BY <2>2, <2>5 DEF b, i, c, j
<1> HIDE DEF S
<1>2. Cardinality(S) <= 1
  <2>1. CASE S = {}
    BY <2>1, FS_EmptySet
  <2>2. CASE S # {}
    <3>1. PICK q : q \in S
      BY <2>2
    <3>2. S = {q}
      BY <1>1, <3>1
    <3>3. Cardinality(S) = 1
      BY <3>2, FS_Singleton
    <3> QED BY <3>3
  <2> QED BY <2>1, <2>2
<1> QED BY <1>2 DEF Copies, S

\* ... and one that stands somewhere has one at least.
LEMMA SomeCopy ==
    ASSUME IsFiniteSet(Context), DocOK(World), NEW n, InDoc(doc, n)
    PROVE  Copies(n) > 0
<1> DEFINE S == {q \in Pieces : Piece_(q).text.word = n}
<1>1. PICK c \in Context : \E p \in Here(doc, c) : p.text.word = n
  BY DEF InDoc
<1>2. PICK i \in DOMAIN doc[c] : doc[c][i].text.word = n
  BY <1>1 DEF Here
<1>3. <<c, i>> \in S
  <2>1. <<c, i>> \in Pieces
    BY PiecesAre
  <2>2. Piece_(<<c, i>>) = doc[c][i]
    BY DEF Piece_
  <2> QED BY <1>2, <2>1, <2>2
<1>4. IsFiniteSet(S)
  <2>1. S \in SUBSET Pieces /\ IsFiniteSet(Pieces)
    BY PiecesFinite
  <2> HIDE DEF S
  <2> QED BY <2>1, FS_Subset
<1> HIDE DEF S
<1>5. Cardinality(S) \in Nat /\ Cardinality(S) # 0
  BY <1>3, <1>4, FS_EmptySet, FS_CardinalityType
<1>6. Cardinality(S) > 0
  BY <1>5
<1> QED BY <1>6 DEF Copies, S

\* The three invariants together.
AllInv == SyncInv /\ PopupInv /\ ServiceInv

\* What they say, field by field.
LEMMA AllFacts ==
    ASSUME ServiceAssumption, AllInv
    PROVE  /\ Sync /\ MaxKeys \in Nat /\ IsFiniteSet(Context)
           /\ DocOK(World) /\ Owe(World, committed)
           /\ (Composing(World) <=> session # NoWord) /\ Shown(World) = session
           /\ committed \in Seq(Real) /\ session \in Letters
           /\ Shows(World, context) /\ (~crossed => Lonely(World, terminated))
           /\ ended = 0 => /\ ~terminated /\ OnScreen(World, reopened)
                           /\ ~crossed => WrittenOnce(World, committed, reopened)
<1> DEFINE w == World
           h == Rest_
<1>1. Sync /\ MaxKeys \in Nat /\ IsFiniteSet(Context) /\ Fine(w, h)
  BY DEF AllInv, Sync, SyncInv, ServiceInv, ServiceAssumption
<1>2. /\ h.context = context /\ h.committed = committed /\ h.reopened = reopened /\ h.ended = ended
      /\ (h.crossed <=> crossed) /\ (h.terminated <=> terminated)
  BY RestFields
<1>3. /\ DocOK(w) /\ (Composing(w) <=> session # NoWord) /\ Shown(w) = session
      /\ committed \in Seq(Real) /\ session \in Letters
  BY <1>1, SyncFacts
<1> HIDE DEF w, h
<1>4. /\ Owe(w, h.committed) /\ Shows(w, h.context) /\ (~h.crossed => Lonely(w, h.terminated))
      /\ h.ended = 0 => /\ ~h.terminated /\ OnScreen(w, h.reopened)
                        /\ ~h.crossed => WrittenOnce(w, h.committed, h.reopened)
  BY <1>1 DEF Fine
<1>5. Lonely(w, h.terminated) => Lonely(w, terminated)
  BY <1>2 DEF Lonely
<1>6. /\ Owe(w, committed) /\ Shows(w, context) /\ (~crossed => Lonely(w, terminated))
      /\ ended = 0 => /\ ~terminated /\ OnScreen(w, reopened)
                      /\ ~crossed => WrittenOnce(w, committed, reopened)
  BY <1>2, <1>4, <1>5
<1> QED BY <1>1, <1>3, <1>6 DEF w

\* They hold at first ...
LEMMA AllInit ==
    ASSUME ServiceAssumption, Init
    PROVE  AllInv
<1>1. MaxKeys \in Nat
  BY DEF ServiceAssumption
<1> QED BY <1>1, SyncInit, PopupInit, ServiceInit DEF AllInv

\* ... and every step keeps them.
LEMMA AllStep ==
    ASSUME ServiceAssumption, Deferred = FALSE, AllInv, [Next]_vars
    PROVE  AllInv'
<1>1. Sync
  BY DEF AllInv, Sync, ServiceInv
<1>2. SyncInv' /\ PopupInv'
  BY <1>1, SyncStep, PopupStep DEF AllInv
<1>3. ServiceInv'
  BY ServiceStep DEF AllInv
<1> QED BY <1>2, <1>3 DEF AllInv

\* The compositions that live are those of the documents' pieces.
LEMMA LiveIsHere ==
    ASSUME DocOK(World), NEW p \in Live
    PROVE  p.comp # 0 /\ \E c \in Context : p \in Here(World.doc, c)
<1>1. PICK q \in Pieces : p = Piece_(q) /\ p.comp # 0
  BY DEF Live
<1>2. q[1] \in Context /\ Piece_(q) \in Here(doc, q[1])
  BY PiecesAre
<1> QED BY <1>1, <1>2, WorldFields

\* What is owed is kept.
LEMMA OwedKept ==
    ASSUME ServiceAssumption, AllInv, NEW n \in Owed(World, committed)
    PROVE  Kept(n)
<1>1. n \in World.erased \/ InDoc(World.doc, n)
  BY AllFacts DEF Owe
<1>2. CASE InDoc(World.doc, n)
  <2>1. InDoc(doc, n)
    BY <1>2, WorldFields
  <2> QED BY <2>1, AllFacts, SomeCopy DEF Kept
<1> QED BY <1>1, <1>2, WorldFields DEF Kept

\* Where TSF grants every session at once, no composition of ours is left that the
\* state does not know, whichever fields the keys come from and whatever the host
\* ends, unless Ctrl+Space came from another field (drop_dead_state, `apply`).
THEOREM NoWordLeftBehind ==
    ASSUME ServiceAssumption, Deferred = FALSE
    PROVE  Spec => []NoOrphan
<1>1. AllInv => NoOrphan
  <2> SUFFICES ASSUME AllInv, ~crossed, NEW p \in Live PROVE p.comp = composition /\ Composing(World)
    BY DEF NoOrphan, Known
  <2>1. PICK c \in Context : p \in Here(World.doc, c) /\ p.comp # 0
    BY LiveIsHere, AllFacts
  <2>2. p.comp = World.composition
    BY <2>1, AllFacts DEF Lonely
  <2>3. World.session # NoWord
    BY <2>1, <2>2, AllFacts DEF Shows
  <2> QED BY <2>2, <2>3, AllFacts, WorldFields
<1>2. Init => AllInv
  BY AllInit
<1>3. AllInv /\ [Next]_vars => AllInv'
  BY AllStep
<1> QED BY <1>1, <1>2, <1>3, PTL DEF Spec

\* ... and none shows another text than the word the engine has, until the host
\* ends a composition (Preview, ReEdit).
THEOREM TheFieldShowsTheWord ==
    ASSUME ServiceAssumption, Deferred = FALSE
    PROVE  Spec => [](~crossed => ShowsTheWord)
<1>1. AllInv => (~crossed => ShowsTheWord)
  <2> SUFFICES ASSUME AllInv, ~crossed, NEW p \in Live PROVE p.text = Shown(World)
    BY DEF ShowsTheWord
  <2>1. PICK c \in Context : p \in Here(World.doc, c) /\ p.comp # 0
    BY LiveIsHere, AllFacts
  <2>2. p.comp = World.composition
    BY <2>1, AllFacts DEF Lonely
  <2>3. p.text = World.session
    BY <2>1, <2>2, AllFacts DEF Shows
  <2> QED BY <2>3, AllFacts, WorldFields
<1>2. Init => AllInv
  BY AllInit
<1>3. AllInv /\ [Next]_vars => AllInv'
  BY AllStep
<1> QED BY <1>1, <1>2, <1>3, PTL DEF Spec

\* Where TSF grants every session at once, a committed word stays in the document
\* until the user deletes it, also when Backspace reopens it (Commit, ReEdit).
THEOREM CommittedWordsAreKept ==
    ASSUME ServiceAssumption, Deferred = FALSE
    PROVE  Spec => [](ReopenedWordsStay /\ CommittedWordsStay)
<1>1. AllInv => ReopenedWordsStay /\ CommittedWordsStay
  <2> SUFFICES ASSUME AllInv, NEW i \in DOMAIN committed PROVE Kept(committed[i].word)
    BY DEF ReopenedWordsStay, CommittedWordsStay
  <2>1. committed[i].word \in Owed(World, committed)
    BY DEF Owed
  <2> QED BY <2>1, OwedKept
<1>2. Init => AllInv
  BY AllInit
<1>3. AllInv /\ [Next]_vars => AllInv'
  BY AllStep
<1> QED BY <1>1, <1>2, <1>3, PTL DEF Spec

\* ... and so does a word that a click or a focus change left on screen
\* (finalize_composition).
THEOREM FinalizedWordsAreKept ==
    ASSUME ServiceAssumption, Deferred = FALSE
    PROVE  Spec => []FinalizedStay
<1>1. AllInv => FinalizedStay
  <2> SUFFICES ASSUME AllInv, NEW n \in finalized PROVE Kept(n)
    BY DEF FinalizedStay
  <2>1. n \in Owed(World, committed)
    BY WorldFields DEF Owed
  <2> QED BY <2>1, OwedKept
<1>2. Init => AllInv
  BY AllInit
<1>3. AllInv /\ [Next]_vars => AllInv'
  BY AllStep
<1> QED BY <1>1, <1>2, <1>3, PTL DEF Spec

\* Until the host ends a composition, the word being typed stands in one place of
\* one field only, in whichever fields it was typed (Preview, StartComposition).
THEOREM TheWordIsTypedOnce ==
    ASSUME ServiceAssumption, Deferred = FALSE
    PROVE  Spec => []TypedOnce
<1>1. AllInv => TypedOnce
  <2> SUFFICES ASSUME AllInv, ended = 0, session # NoWord, session.word \notin reopened
               PROVE  Copies(session.word) <= 1
    BY DEF TypedOnce
  <2> DEFINE n == session.word
  <2>1. Single(World.doc, ByWord(World.session.word))
    BY AllFacts, WorldFields DEF OnScreen
  <2>2. Single(doc, ByWord(n))
    BY <2>1, WorldFields
  <2>3. n \in Nat \ {0}
    <3>1. session \in Real
      BY AllFacts DEF Letters
    <3> QED BY <3>1 DEF Real
  <2> HIDE DEF n
  <2>4. Copies(n) <= 1
    BY <2>2, <2>3, AllFacts, OneCopy
  <2> QED BY <2>4 DEF n
<1>2. Init => AllInv
  BY AllInit
<1>3. AllInv /\ [Next]_vars => AllInv'
  BY AllStep
<1> QED BY <1>1, <1>2, <1>3, PTL DEF Spec

\* ... and so does every committed word that Backspace did not reopen, unless
\* Ctrl+Space came from another field than the word's (Commit).
THEOREM CommittedWordsStandOnce ==
    ASSUME ServiceAssumption, Deferred = FALSE
    PROVE  Spec => [](~crossed => Once)
<1>1. AllInv => (~crossed => Once)
  <2> SUFFICES ASSUME AllInv, ~crossed, ended = 0, NEW i \in DOMAIN committed,
                      committed[i].word \notin reopened
               PROVE  Copies(committed[i].word) <= 1
    BY DEF Once
  <2> DEFINE n == committed[i].word
  <2>1. Single(World.doc, ByWord(n))
    BY AllFacts DEF WrittenOnce
  <2>2. n \in Nat \ {0}
    <3>1. committed[i] \in Real
      BY AllFacts
    <3> QED BY <3>1 DEF Real
  <2> HIDE DEF n
  <2>3. Single(doc, ByWord(n))
    BY <2>1, WorldFields
  <2>4. Copies(n) <= 1
    BY <2>2, <2>3, AllFacts, OneCopy
  <2> QED BY <2>4 DEF n
<1>2. Init => AllInv
  BY AllInit
<1>3. AllInv /\ [Next]_vars => AllInv'
  BY AllStep
<1> QED BY <1>1, <1>2, <1>3, PTL DEF Spec
\* A thread with one field never sees a key from another one: there the last two
\* hold whatever the user presses.
THEOREM OneFieldShowsItOnce ==
    ASSUME ServiceAssumption, Deferred = FALSE, NEW f, Context = {f}
    PROVE  Spec => [](ShowsTheWord /\ Once)
<1>1. AllInv => ~crossed
  <2> SUFFICES ASSUME AllInv, crossed PROVE FALSE
    OBVIOUS
  <2>1. Several
    BY AllFacts, WasSeveral
  <2> QED BY <2>1 DEF Several
<1>2. Init => AllInv
  BY AllInit
<1>3. AllInv /\ [Next]_vars => AllInv'
  BY AllStep
<1> QED BY <1>1, <1>2, <1>3, TheFieldShowsTheWord, CommittedWordsStandOnce, PTL DEF Spec

-----------------------------------------------------------------------------
(* Committed words in any host: sessions run at once, late or never.       *)

\* A word that no composition takes back: it stands in a field, or a session that
\* writes it is queued.
Written(d, n) == n # 0 /\ \E c \in Context : \E p \in Here(d, c) : p.comp = 0 /\ p.text.word = n
Coming(q, n) == \E i \in 1..Len(q) : q[i].op = "commit" /\ q[i].text \in Real /\ q[i].text.word = n
Safe(n, w, ro, q) == n \in ro \/ n \in w.erased \/ Written(w.doc, n) \/ Coming(q, n)

\* The sessions that may start a composition.
Starters(q) == {i \in 1..Len(q) : q[i].op \in {"preview", "reedit"}}

\* A session as the handlers request it; ro are the words that were reopened.
Asked(r, ro) ==
    /\ r.op \in Op /\ r.nth \in Nat /\ r.ctx \in Context /\ r.suffix \in Suffix
    /\ IF r.op = "insert" THEN r.text = Character ELSE r.text \in Letters
    /\ r.op = "reedit" => r.text.word \in ro

TypedWorld(w) == DocOK(w) /\ w.session \in Letters /\ w.editor \in Letters

\* There are at most as many compositions, with those that queued sessions may
\* start, as keys were typed.
Counted(d, q, k) ==
    /\ IsFiniteSet(Numbers(d)) /\ Cardinality(Numbers(d)) + Cardinality(Starters(q)) <= k

\* What queued sessions and the document together keep; h is the rest of the state.
Lasting(w, h, q) ==
    /\ TypedWorld(w)
    /\ IsRequests(q) /\ \A i \in 1..Len(q) : Asked(q[i], h.reopened)
    /\ Counted(w.doc, q, h.keys)
    /\ h.committed \in Seq(Real)
    /\ \A i \in 1..Len(h.committed) : Safe(h.committed[i].word, w, h.reopened, q)

\* What was written stays written through an edit that takes away only live pieces,
\* or pieces of words in G.
LEMMA WrittenKept ==
    ASSUME NEW d, NEW e, NEW f \in Context, NEW A, NEW X, Edit(d, e, f, A, X), NEW G,
           \A a \in A : a.comp # 0 \/ a.text.word \in G, NEW n, Written(d, n)
    PROVE  Written(e, n) \/ n \in G
<1>1. PICK c \in Context : \E p \in Here(d, c) : p.comp = 0 /\ p.text.word = n
  BY DEF Written
<1>2. PICK p \in Here(d, c) : p.comp = 0 /\ p.text.word = n
  BY <1>1
<1>3. n # 0 /\ p \notin Blank
  BY <1>2, BlanksHaveNone DEF Written
<1>4. p \in Here(e, c) \/ p \in A
  BY <1>3 DEF Edit
<1>5. CASE p \in Here(e, c)
  BY <1>5, <1>2, <1>3 DEF Written
<1>6. CASE p \in A
  BY <1>6, <1>2
<1> QED BY <1>4, <1>5, <1>6

\* ... in particular if it takes away live pieces only.
LEMMA LiveGone ==
    ASSUME NEW d, NEW e, NEW f \in Context, NEW A, NEW X, Edit(d, e, f, A, X),
           \A a \in A : a.comp # 0, NEW n, Written(d, n)
    PROVE  Written(e, n)
<1> DEFINE G == {}
<1>1. \A a \in A : a.comp # 0 \/ a.text.word \in G
  OBVIOUS
<1> HIDE DEF G
<1>2. Written(e, n) \/ n \in G
  BY <1>1, WrittenKept
<1> QED BY <1>2 DEF G

\* What an edit session does to all this.
Lasts(w, v, ro, r) ==
    /\ TypedWorld(v) /\ w.erased \subseteq v.erased
    /\ \A n : Written(w.doc, n) => Written(v.doc, n) \/ n \in v.erased \/ n \in ro
    /\ r.op = "commit" /\ r.text \in Real => Written(v.doc, r.text.word)
    /\ \E x : Numbers(v.doc) \subseteq Numbers(w.doc) \union
                  (IF r.op \in {"preview", "reedit"} THEN {x} ELSE {})

\* A free number is one that no composition has.
LEMMA FreeIs ==
    ASSUME MaxKeys \in Nat, NEW d \in [Context -> Seq(APiece)]
    PROVE  FreeNumber(d) <=> \E n \in 1..MaxKeys + 1 : n \notin Numbers(d)
<1>1. ASSUME NEW n \in 1..MaxKeys + 1
      PROVE  (\A c \in Context : ~Lives(d[c], n)) <=> n \notin Numbers(d)
  <2>0. n \in Nat \ {0}
    OBVIOUS
  <2>1. ASSUME NEW c \in Context PROVE Lives(d[c], n) <=> \E p \in Here(d, c) : p \in ByComp(n)
    <3>1. d[c] \in Seq(APiece)
      OBVIOUS
    <3>2. \A p \in Here(d, c) : p \in APiece
      BY <3>1, HereIs
    <3>3. Lives(d[c], n) <=> \E i \in DOMAIN d[c] : d[c][i].comp = n
      BY <2>0 DEF Lives
    <3>4. (\E i \in DOMAIN d[c] : d[c][i].comp = n) <=> \E p \in Here(d, c) : p.comp = n
      BY DEF Here
    <3> QED BY <3>2, <3>3, <3>4 DEF ByComp
  <2> QED BY <2>0, <2>1 DEF Numbers, Absent
<1> QED BY <1>1 DEF FreeNumber

\* What an edit shows as a composition was one, so it takes no number.
LEMMA NoNewNumber ==
    ASSUME NEW d \in [Context -> Seq(APiece)], NEW e, NEW f \in Context, NEW A, NEW X,
           Edit(d, e, f, A, X), Joins(A, X)
    PROVE  Numbers(e) \subseteq Numbers(d)
<1> SUFFICES ASSUME NEW n \in Numbers(e), NEW x \in X, x.comp = n PROVE n \in Numbers(d)
  BY NumbersEdit
<1>1. n \in Nat \ {0}
  BY DEF Numbers
<1>2. PICK a \in A : a.comp = n
  BY <1>1 DEF Joins
<1>3. d[f] \in Seq(APiece)
  OBVIOUS
<1>4. a \in Here(d, f) /\ a \in APiece
  BY <1>3, HereIs DEF Edit
<1> QED BY <1>1, <1>2, <1>4 DEF Numbers, Absent, ByComp

\* DocOp::Preview.
LEMMA PreviewLasts ==
    ASSUME MaxKeys \in Nat, NEW w, TypedWorld(w), FreeNumber(w.doc), NEW c \in Context
    PROVE  LET v == Preview(w, c)
           IN  /\ TypedWorld(v) /\ v.erased = w.erased
               /\ \A n : Written(w.doc, n) => Written(v.doc, n)
               /\ \E x : Numbers(v.doc) \subseteq Numbers(w.doc) \union {x}
<1>1. CASE ~Composing(w)
  <2>1. Preview(w, c) = w
    BY <1>1 DEF Preview
  <2> QED BY <2>1
<1>2. CASE Composing(w)
  <2> DEFINE v == Preview(w, c)
             x == [text |-> Shown(w), comp |-> v.composition]
  <2>1. DocOK(w) /\ Shown(w) \in Real
    BY <1>2 DEF TypedWorld, Letters, Shown, Composing
  <2>2. /\ Previewed(w, v, c) /\ DocOK(v)
        /\ TakesText(w, c) =>
               \E a \in Here(w.doc, c) :
                   a.comp = w.composition /\ a.comp # 0 /\ Edit(w.doc, v.doc, c, {a}, {x})
        /\ ~TakesText(w, c) => Edit(w.doc, v.doc, c, {}, {x})
    BY <2>1, <1>2, PreviewOp
  <2> HIDE DEF v
  <2>3. TypedWorld(v) /\ v.erased = w.erased
    BY <2>2 DEF Previewed, TypedWorld
  <2>4. \E A : Edit(w.doc, v.doc, c, A, {x}) /\ \A a \in A : a.comp # 0
    <3>1. CASE TakesText(w, c)
      <4>1. PICK a \in Here(w.doc, c) : a.comp # 0 /\ Edit(w.doc, v.doc, c, {a}, {x})
        BY <3>1, <2>2
      <4>2. \A b \in {a} : b.comp # 0
        BY <4>1
      <4> QED BY <4>1, <4>2
    <3>2. CASE ~TakesText(w, c)
      BY <3>2, <2>2
    <3> QED BY <3>1, <3>2
  <2>5. PICK A : Edit(w.doc, v.doc, c, A, {x}) /\ \A a \in A : a.comp # 0
    BY <2>4
  <2>6. ASSUME NEW n, Written(w.doc, n) PROVE Written(v.doc, n)
    BY <2>5, <2>6, LiveGone
  <2>7. Numbers(v.doc) \subseteq Numbers(w.doc) \union {x.comp}
    BY <2>5, NumbersEdit
  <2> QED BY <2>3, <2>6, <2>7 DEF v
<1> QED BY <1>1, <1>2

\* DocOp::Commit writes its word.
LEMMA CommitLasts ==
    ASSUME NEW w, TypedWorld(w), NEW c \in Context, NEW op, op.text \in Letters, op.suffix \in Suffix
    PROVE  LET v == Commit(w, c, op)
           IN  /\ TypedWorld(v) /\ v.erased = w.erased
               /\ \A n : Written(w.doc, n) => Written(v.doc, n)
               /\ op.text \in Real => Written(v.doc, op.text.word)
               /\ Numbers(v.doc) \subseteq Numbers(w.doc)
<1> DEFINE v == Commit(w, c, op)
           X == Word(op.text)
<1>0. DocOK(w)
  BY DEF TypedWorld
<1>1. /\ Ends(w, v) /\ DocOK(v)
      /\ TakesText(w, c) =>
             \E a \in Here(w.doc, c) : a.comp = w.composition /\ a.comp # 0 /\ Edit(w.doc, v.doc, c, {a}, X)
      /\ ~TakesText(w, c) => Edit(w.doc, v.doc, c, {}, X)
  BY <1>0, CommitOp
<1> HIDE DEF v
<1>2. TypedWorld(v) /\ v.erased = w.erased
  BY <1>1 DEF Ends, TypedWorld
<1>3. \E A : Edit(w.doc, v.doc, c, A, X) /\ \A a \in A : a.comp # 0
  <2>1. CASE TakesText(w, c)
    <3>1. PICK a \in Here(w.doc, c) : a.comp # 0 /\ Edit(w.doc, v.doc, c, {a}, X)
      BY <2>1, <1>1
    <3>2. \A b \in {a} : b.comp # 0
      BY <3>1
    <3> QED BY <3>1, <3>2
  <2>2. CASE ~TakesText(w, c)
    BY <2>2, <1>1
  <2> QED BY <2>1, <2>2
<1>4. PICK A : Edit(w.doc, v.doc, c, A, X) /\ \A a \in A : a.comp # 0
  BY <1>3
<1>5. ASSUME NEW n, Written(w.doc, n) PROVE Written(v.doc, n)
  BY <1>4, <1>5, LiveGone
<1>6. \A x \in X : x.comp = 0 /\ x = Plain(op.text)
  BY DEF Word, Plain
<1>7. Numbers(v.doc) \subseteq Numbers(w.doc)
  <2>1. Joins(A, X)
    BY <1>6 DEF Joins
  <2>2. w.doc \in [Context -> Seq(APiece)]
    BY <1>0 DEF DocOK
  <2> QED BY <1>4, <2>1, <2>2, NoNewNumber
<1>8. ASSUME op.text \in Real PROVE Written(v.doc, op.text.word)
  <2>1. op.text # NoWord /\ op.text.word # 0
    BY <1>8 DEF Real, NoWord
  <2>2. Plain(op.text) \in X
    BY <2>1 DEF Word
  <2>3. Plain(op.text) \in Here(v.doc, c)
    BY <2>2, <1>4 DEF Edit
  <2> QED BY <2>1, <2>3 DEF Written, Plain
<1> QED BY <1>2, <1>5, <1>7, <1>8 DEF v

\* DocOp::Finalize.
LEMMA FinalizeLasts ==
    ASSUME NEW w, TypedWorld(w), NEW c \in Context
    PROVE  LET v == Finalize(w, c)
           IN  /\ TypedWorld(v) /\ v.erased = w.erased
               /\ \A n : Written(w.doc, n) => Written(v.doc, n)
               /\ Numbers(v.doc) \subseteq Numbers(w.doc)
<1> DEFINE v == Finalize(w, c)
<1>0. DocOK(w)
  BY DEF TypedWorld
<1>1. /\ Ends(w, v) /\ DocOK(v)
      /\ Lives(w.doc[c], w.composition) =>
             \E a \in Here(w.doc, c) :
                 a.comp = w.composition /\ a.comp # 0 /\ Edit(w.doc, v.doc, c, {a}, Freed(a))
  BY <1>0, FinalizeOp
<1>2. ~Lives(w.doc[c], w.composition) => v.doc = w.doc
  <2>1. v.doc = [w.doc EXCEPT ![c] = IF Lives(w.doc[c], w.composition)
                         THEN [w.doc[c] EXCEPT ![Place(w.doc[c], w.composition)].comp = 0] ELSE w.doc[c]]
    BY <1>0 DEF Finalize, DocOK, IsWorld, Field
  <2>2. w.doc \in [Context -> Seq(APiece)]
    BY <1>0 DEF DocOK
  <2> QED BY <2>1, <2>2
<1> HIDE DEF v
<1>3. TypedWorld(v) /\ v.erased = w.erased
  BY <1>1 DEF Ends, TypedWorld
<1>4. CASE ~Lives(w.doc[c], w.composition)
  BY <1>4, <1>2, <1>3 DEF v
<1>5. CASE Lives(w.doc[c], w.composition)
  <2>1. PICK a \in Here(w.doc, c) :
            a.comp = w.composition /\ a.comp # 0 /\ Edit(w.doc, v.doc, c, {a}, Freed(a))
    BY <1>5, <1>1
  <2>2. ASSUME NEW n, Written(w.doc, n) PROVE Written(v.doc, n)
    <3>1. \A b \in {a} : b.comp # 0
      BY <2>1
    <3> QED BY <2>1, <2>2, <3>1, LiveGone
  <2>3. Joins({a}, Freed(a))
    BY DEF Joins, Freed, Plain
  <2>4. Numbers(v.doc) \subseteq Numbers(w.doc)
    BY <1>0, <2>1, <2>3, NoNewNumber DEF DocOK
  <2> QED BY <1>3, <2>2, <2>4 DEF v
<1> QED BY <1>4, <1>5

\* A Backspace in the document notes the word it shortens.
LEMMA DeleteCharLasts ==
    ASSUME NEW w, TypedWorld(w), NEW c \in Context
    PROVE  LET v == DeleteChar(w, c)
           IN  /\ TypedWorld(v) /\ w.erased \subseteq v.erased
               /\ \A n : Written(w.doc, n) => Written(v.doc, n) \/ n \in v.erased
               /\ Numbers(v.doc) \subseteq Numbers(w.doc)
<1> DEFINE v == DeleteChar(w, c)
<1>0. DocOK(w)
  BY DEF TypedWorld
<1>1. DocOK(v) /\ v.session = w.session /\ v.editor = w.editor /\ (v = w \/ Shortened(w, v, c))
  BY <1>0, DeleteCharOp
<1> HIDE DEF v
<1>2. TypedWorld(v)
  BY <1>1 DEF TypedWorld
<1>3. CASE v = w
  BY <1>2, <1>3 DEF v
<1>4. CASE Shortened(w, v, c)
  <2>1. PICK a \in Here(w.doc, c), X \in SUBSET APiece :
            /\ v.erased = w.erased \union {a.text.word}
            /\ Edit(w.doc, v.doc, c, {a}, X)
            /\ \A x \in X : x.comp = a.comp /\ x.text.word = a.text.word
    BY <1>4 DEF Shortened
  <2>2. ASSUME NEW n, Written(w.doc, n) PROVE Written(v.doc, n) \/ n \in v.erased
    <3>1. \A b \in {a} : b.comp # 0 \/ b.text.word \in v.erased
      BY <2>1
    <3> QED BY <2>1, <2>2, <3>1, WrittenKept
  <2>3. Joins({a}, X)
    BY <2>1 DEF Joins
  <2>4. Numbers(v.doc) \subseteq Numbers(w.doc)
    BY <1>0, <2>1, <2>3, NoNewNumber DEF DocOK
  <2> QED BY <1>2, <2>1, <2>2, <2>4 DEF v
<1> QED BY <1>1, <1>3, <1>4

\* DocOp::ReEdit takes away the word that it reopens only.
LEMMA ReEditLasts ==
    ASSUME MaxKeys \in Nat, NEW w, TypedWorld(w), FreeNumber(w.doc), NEW c \in Context, NEW op, NEW ro,
           op.text.word \in ro
    PROVE  LET v == ReEdit(w, c, op)
           IN  /\ TypedWorld(v) /\ w.erased \subseteq v.erased
               /\ \A n : Written(w.doc, n) => Written(v.doc, n) \/ n \in v.erased \/ n \in ro
               /\ \E x : Numbers(v.doc) \subseteq Numbers(w.doc) \union {x}
<1> DEFINE restored == w.caret[c] > 0 /\ w.doc[c][w.caret[c]].text = op.text
<1>0. DocOK(w)
  BY DEF TypedWorld
<1>1. CASE restored
  <2> DEFINE u == Delete(w, c)
             a == w.doc[c][w.caret[c]]
             v == Preview(u, c)
  <2>1. ReEdit(w, c, op) = v
    BY <1>1 DEF ReEdit
  <2>2. Frame(w, u) /\ DocOK(u) /\ Edit(w.doc, u.doc, c, {a}, {})
    <3>1. w.caret[c] # 0
      BY <1>1
    <3> QED BY <3>1, <1>0, DeleteOp
  <2>3. a.text.word \in ro
    BY <1>1
  <2> HIDE DEF u, a
  <2>4. TypedWorld(u) /\ u.erased = w.erased
    BY <2>2 DEF Frame, TypedWorld
  <2>5. Numbers(u.doc) \subseteq Numbers(w.doc)
    <3>1. Joins({a}, {})
      BY DEF Joins
    <3> QED BY <1>0, <2>2, <3>1, NoNewNumber DEF DocOK
  <2>6. FreeNumber(u.doc)
    <3>1. w.doc \in [Context -> Seq(APiece)] /\ u.doc \in [Context -> Seq(APiece)]
      BY <1>0, <2>2 DEF DocOK
    <3> QED BY <2>5, <3>1, FreeIs
  <2>7. /\ TypedWorld(v) /\ v.erased = u.erased
        /\ \A n : Written(u.doc, n) => Written(v.doc, n)
        /\ \E x : Numbers(v.doc) \subseteq Numbers(u.doc) \union {x}
    BY <2>4, <2>6, PreviewLasts
  <2> HIDE DEF v
  <2>8. ASSUME NEW n, Written(w.doc, n) PROVE Written(u.doc, n) \/ n \in ro
    <3>1. \A b \in {a} : b.comp # 0 \/ b.text.word \in ro
      BY <2>3
    <3> QED BY <2>2, <2>8, <3>1, WrittenKept
  <2>9. \E x : Numbers(v.doc) \subseteq Numbers(w.doc) \union {x}
    BY <2>5, <2>7
  <2> QED BY <2>1, <2>4, <2>7, <2>8, <2>9
<1>2. CASE ~restored
  <2> DEFINE u == [w EXCEPT !.session = NoWord, !.popup = FALSE]
             v == DeleteChar(u, c)
  <2>1. ReEdit(w, c, op) = v
    BY <1>2 DEF ReEdit
  <2>2. TypedWorld(u) /\ u.doc = w.doc /\ u.erased = w.erased
    <3>1. IsWorld(w)
      BY <1>0 DEF DocOK
    <3>2. IsWorld(u) /\ u.doc = w.doc /\ u.erased = w.erased /\ u.caret = w.caret /\ u.editor = w.editor
          /\ u.session = NoWord
      BY <3>1 DEF IsWorld, Field
    <3> HIDE DEF u
    <3> QED BY <1>0, <3>2 DEF DocOK, TypedWorld, Letters
  <2> HIDE DEF u
  <2>3. /\ TypedWorld(v) /\ u.erased \subseteq v.erased
        /\ \A n : Written(u.doc, n) => Written(v.doc, n) \/ n \in v.erased
        /\ Numbers(v.doc) \subseteq Numbers(u.doc)
    BY <2>2, DeleteCharLasts
  <2> HIDE DEF v
  <2> QED BY <2>1, <2>2, <2>3
<1> QED BY <1>1, <1>2

\* DocOp::Insert writes a character.
LEMMA InsertLasts ==
    ASSUME NEW w, TypedWorld(w), NEW c \in Context
    PROVE  LET v == InsertAtCaret(w, c, <<Plain(Character)>>)
           IN  /\ TypedWorld(v) /\ v.erased = w.erased
               /\ \A n : Written(w.doc, n) => Written(v.doc, n)
               /\ Numbers(v.doc) \subseteq Numbers(w.doc)
<1> DEFINE ps == <<Plain(Character)>>
           v == InsertAtCaret(w, c, ps)
<1>0. DocOK(w)
  BY DEF TypedWorld
<1>1. ps \in Suffix
  BY DEF Suffix
<1>2. ps \in Seq(APiece) /\ \A j \in 1..Len(ps) : ps[j] \in Blank
  BY <1>1, SuffixIsBlank
<1> HIDE DEF ps
<1>3. Frame(w, v) /\ DocOK(v) /\ Edit(w.doc, v.doc, c, {}, At(ps, 0))
  <2>1. 0 <= Len(ps) /\ \A j \in 1..Len(ps) : j # 0 => ps[j] \in Blank
    BY <1>2, LenProperties
  <2> QED BY <1>0, <1>2, <2>1, InsertOp
<1> HIDE DEF v
<1>4. At(ps, 0) = {}
  BY DEF At
<1>5. Numbers(v.doc) \subseteq Numbers(w.doc)
  <2>1. Joins({}, {})
    BY DEF Joins
  <2>2. w.doc \in [Context -> Seq(APiece)]
    BY <1>0 DEF DocOK
  <2> QED BY <1>3, <1>4, <2>1, <2>2, NoNewNumber
<1>6. ASSUME NEW n, Written(w.doc, n) PROVE Written(v.doc, n)
  BY <1>3, <1>4, <1>6, LiveGone
<1> QED BY <1>3, <1>5, <1>6 DEF Frame, TypedWorld, v, ps

\* Every session.
LEMMA ApplyLasts ==
    ASSUME MaxKeys \in Nat, NEW w, TypedWorld(w), NEW ro, NEW r, Asked(r, ro),
           r.op \in {"preview", "reedit"} => FreeNumber(w.doc)
    PROVE  Lasts(w, Apply(w, r), ro, r)
<1>0. r.ctx \in Context /\ r.op \in Op /\ r.suffix \in Suffix
  BY DEF Asked
<1>1. CASE r.op = "preview"
  <2>1. Apply(w, r) = Preview(w, r.ctx)
    BY <1>1 DEF Apply
  <2> QED BY <1>0, <1>1, <2>1, PreviewLasts DEF Lasts
<1>2. CASE r.op = "commit"
  <2>1. Apply(w, r) = Commit(w, r.ctx, r)
    BY <1>2 DEF Apply
  <2>2. r.text \in Letters
    BY <1>2 DEF Asked
  <2> DEFINE v == Commit(w, r.ctx, r)
  <2>3. /\ TypedWorld(v) /\ v.erased = w.erased
        /\ \A n : Written(w.doc, n) => Written(v.doc, n)
        /\ r.text \in Real => Written(v.doc, r.text.word)
        /\ Numbers(v.doc) \subseteq Numbers(w.doc)
    BY <1>0, <2>2, CommitLasts
  <2> HIDE DEF v
  <2> QED BY <1>2, <2>1, <2>3 DEF Lasts, v
<1>3. CASE r.op = "finalize"
  <2>1. Apply(w, r) = Finalize(w, r.ctx)
    BY <1>3 DEF Apply
  <2> QED BY <1>0, <1>3, <2>1, FinalizeLasts DEF Lasts
<1>4. CASE r.op = "insert"
  <2>1. Apply(w, r) = InsertAtCaret(w, r.ctx, <<Plain(r.text)>>)
    BY <1>4 DEF Apply
  <2>2. r.text = Character
    BY <1>4 DEF Asked
  <2> QED BY <1>0, <1>4, <2>1, <2>2, InsertLasts DEF Lasts
<1>5. CASE r.op = "reedit"
  <2>1. Apply(w, r) = ReEdit(w, r.ctx, r)
    BY <1>5 DEF Apply
  <2>2. r.text.word \in ro
    BY <1>5 DEF Asked
  <2> QED BY <1>0, <1>5, <2>1, <2>2, ReEditLasts DEF Lasts
<1> QED BY <1>0, <1>1, <1>2, <1>3, <1>4, <1>5 DEF Op

\* A set of numbers moved up by k has no more elements.
LEMMA Moved ==
    ASSUME NEW S \in SUBSET Nat, IsFiniteSet(S), NEW k \in Nat
    PROVE  LET T == {i + k : i \in S}
           IN  IsFiniteSet(T) /\ Cardinality(T) <= Cardinality(S)
<1> DEFINE T == {i + k : i \in S}
           f == [i \in S |-> i + k]
<1>1. f \in Surjection(S, T)
  BY DEF Surjection
<1> QED BY <1>1, FS_Surjection

\* The starters of a queue are finitely many ...
LEMMA StartersFinite ==
    ASSUME NEW q, IsRequests(q)
    PROVE  /\ IsFiniteSet(Starters(q)) /\ Cardinality(Starters(q)) \in Nat
           /\ Starters(q) \subseteq 1..Len(q) /\ Starters(q) \in SUBSET Nat
<1>1. Len(q) \in Nat
  BY LenProperties DEF IsRequests
<1>2. IsFiniteSet(1..Len(q))
  BY <1>1, FS_Interval
<1>3. Starters(q) \subseteq 1..Len(q)
  BY DEF Starters
<1>4. IsFiniteSet(Starters(q))
  BY <1>2, <1>3, FS_Subset
<1> QED BY <1>1, <1>3, <1>4, FS_CardinalityType

\* ... no more, after a concatenation, than both sides had ...
LEMMA StartersConcat ==
    ASSUME NEW q, IsRequests(q), NEW rs, IsRequests(rs)
    PROVE  Cardinality(Starters(q \o rs)) <= Cardinality(Starters(q)) + Cardinality(Starters(rs))
<1> DEFINE S == Starters(q)
           T == {i + Len(q) : i \in Starters(rs)}
<1>1. /\ Len(q \o rs) = Len(q) + Len(rs) /\ Len(q) \in Nat /\ Len(rs) \in Nat
      /\ \A i \in 1..Len(q) + Len(rs) : (q \o rs)[i] = IF i <= Len(q) THEN q[i] ELSE rs[i - Len(q)]
  BY RequestsConcat
<1>2. /\ IsFiniteSet(S) /\ Cardinality(S) \in Nat
      /\ IsFiniteSet(Starters(rs)) /\ Cardinality(Starters(rs)) \in Nat /\ Starters(rs) \in SUBSET Nat
  BY StartersFinite
<1>3. IsFiniteSet(T) /\ Cardinality(T) <= Cardinality(Starters(rs))
  BY <1>1, <1>2, Moved
<1>4. ASSUME NEW i \in Starters(q \o rs) PROVE i \in S \union T
  <2>1. i \in 1..Len(q) + Len(rs) /\ (q \o rs)[i].op \in {"preview", "reedit"}
    BY <1>1 DEF Starters
  <2>2. CASE i <= Len(q)
    BY <2>1, <2>2, <1>1 DEF Starters
  <2>3. CASE ~(i <= Len(q))
    <3>1. i - Len(q) \in 1..Len(rs) /\ i = (i - Len(q)) + Len(q)
      BY <2>1, <2>3, <1>1
    <3>2. i - Len(q) \in Starters(rs)
      BY <2>1, <2>3, <3>1, <1>1 DEF Starters
    <3> QED BY <3>1, <3>2
  <2> QED BY <2>2, <2>3
<1> HIDE DEF S, T
<1>5. IsFiniteSet(S \union T) /\ Cardinality(S \union T) = Cardinality(S) + Cardinality(T) - Cardinality(S \cap T)
  BY <1>2, <1>3, FS_Union
<1>6. Cardinality(T) \in Nat /\ Cardinality(S \cap T) \in Nat
  <2>1. S \cap T \subseteq S
    OBVIOUS
  <2>2. IsFiniteSet(S \cap T)
    BY <1>2, <2>1, FS_Subset
  <2> QED BY <1>3, <2>2, FS_CardinalityType
<1>7. Cardinality(Starters(q \o rs)) <= Cardinality(S \union T)
  BY <1>4, <1>5, FS_Subset
<1>8. Cardinality(Starters(q \o rs)) \in Nat
  BY RequestsConcat, StartersFinite
<1> QED BY <1>2, <1>3, <1>5, <1>6, <1>7, <1>8 DEF S

\* ... and one less when the head is one.
LEMMA StartersTail ==
    ASSUME NEW q, IsRequests(q), q # <<>>
    PROVE  Cardinality(Starters(Tail(q))) +
               (IF Head(q).op \in {"preview", "reedit"} THEN 1 ELSE 0) <= Cardinality(Starters(q))
<1>1. /\ IsRequests(Tail(q)) /\ Len(q) \in Nat \ {0} /\ Len(Tail(q)) = Len(q) - 1
      /\ \A i \in 1..Len(q) - 1 : Tail(q)[i] = q[i + 1]
      /\ Head(q) = q[1]
  BY RequestsHead
<1> DEFINE S == Starters(Tail(q))
           T == {i + 1 : i \in S}
           B == Starters(q)
           C == B \ {1}
           f == [i \in S |-> i + 1]
<1>2. IsFiniteSet(B) /\ Cardinality(B) \in Nat
  BY StartersFinite
<1>3. /\ IsFiniteSet(C) /\ Cardinality(C) = IF 1 \in B THEN Cardinality(B) - 1 ELSE Cardinality(B)
  <2>1. IsFiniteSet(B)
    BY <1>2
  <2> QED BY <2>1, FS_RemoveElement
<1>4. f \in Injection(S, C)
  <2>1. ASSUME NEW i \in S PROVE i + 1 \in C /\ i \in Nat
    <3>1. i \in 1..Len(q) - 1 /\ Tail(q)[i].op \in {"preview", "reedit"}
      BY <1>1 DEF Starters
    <3> QED BY <3>1, <1>1 DEF Starters
  <2> QED BY <2>1 DEF Injection, IsInjective
<1>5. Cardinality(S) <= Cardinality(C)
  BY <1>3, <1>4, FS_Injection
<1>6. Head(q).op \in {"preview", "reedit"} => 1 \in B
  BY <1>1 DEF Starters
<1>7. Cardinality(S) \in Nat
  BY <1>1, StartersFinite
<1> HIDE DEF B, C, S
<1> QED BY <1>2, <1>3, <1>5, <1>6, <1>7 DEF B, S

\* A handler requests no starter, or one as the only one or the last.
LEMMA StartersFew ==
    /\ Cardinality(Starters(<<>>)) = 0
    /\ \A r : r.op \in Op /\ r.nth \in Nat =>
           /\ Cardinality(Starters(<<r>>)) <= 1
           /\ r.op \notin {"preview", "reedit"} => Cardinality(Starters(<<r>>)) = 0
    /\ \A r, s : r.op \in Op /\ r.nth \in Nat /\ s.op \in Op /\ s.nth \in Nat /\ r.op \notin {"preview", "reedit"} =>
           Cardinality(Starters(<<r, s>>)) <= 1
<1>1. Cardinality({}) = 0 /\ \A i : IsFiniteSet({i}) /\ Cardinality({i}) = 1
  BY FS_EmptySet, FS_Singleton
<1>2. Starters(<<>>) = {}
  BY RequestsNone DEF Starters
<1>3. ASSUME NEW S, NEW i, S \subseteq {i} PROVE Cardinality(S) <= 1
  <2>1. IsFiniteSet({i}) /\ Cardinality({i}) = 1 /\ S \in SUBSET {i}
    BY <1>1, <1>3
  <2> QED BY <2>1, FS_Subset
<1>4. ASSUME NEW r, r.op \in Op, r.nth \in Nat
      PROVE  Starters(<<r>>) \subseteq {1} /\ (r.op \notin {"preview", "reedit"} => Starters(<<r>>) = {})
  BY <1>4, RequestsOne DEF Starters
<1>5. ASSUME NEW r, NEW s, r.op \in Op, r.nth \in Nat, s.op \in Op, s.nth \in Nat, r.op \notin {"preview", "reedit"}
      PROVE  Starters(<<r, s>>) \subseteq {2}
  <2>1. Len(<<r, s>>) = 2 /\ <<r, s>>[1] = r
    BY <1>5, RequestsTwo
  <2> QED BY <2>1, <1>5 DEF Starters
<1>6. ASSUME NEW r, r.op \in Op, r.nth \in Nat
      PROVE  /\ Cardinality(Starters(<<r>>)) <= 1
             /\ r.op \notin {"preview", "reedit"} => Cardinality(Starters(<<r>>)) = 0
  BY <1>1, <1>3, <1>4, <1>6
<1>7. ASSUME NEW r, NEW s, r.op \in Op, r.nth \in Nat, s.op \in Op, s.nth \in Nat, r.op \notin {"preview", "reedit"}
      PROVE  Cardinality(Starters(<<r, s>>)) <= 1
  BY <1>3, <1>5, <1>7
<1> QED BY <1>1, <1>2, <1>6, <1>7

\* While compositions are counted there is a free number for the next starter.
LEMMA RoomForStarter ==
    ASSUME MaxKeys \in Nat, NEW d \in [Context -> Seq(APiece)], IsFiniteSet(Numbers(d)),
           Cardinality(Numbers(d)) <= MaxKeys
    PROVE  FreeNumber(d)
<1> DEFINE N == Numbers(d)
           I == 1..MaxKeys + 1
<1>1. IsFiniteSet(I) /\ Cardinality(I) = MaxKeys + 1
  <2>1. MaxKeys + 1 \in Int /\ 1 \in Int /\ 1 <= MaxKeys + 1 + 1
    OBVIOUS
  <2>2. /\ IsFiniteSet(1..MaxKeys + 1)
        /\ Cardinality(1..MaxKeys + 1) = IF 1 > MaxKeys + 1 THEN 0 ELSE MaxKeys + 1 - 1 + 1
    BY <2>1, FS_Interval
  <2> QED BY <2>2
<1>2. ~(I \subseteq N)
  <2>1. I \subseteq N => Cardinality(I) <= Cardinality(N)
    BY FS_Subset
  <2>2. Cardinality(N) \in Nat
    BY FS_CardinalityType
  <2> QED BY <1>1, <2>1, <2>2
<1> QED BY <1>2, FreeIs

\* A session that runs from the head of the queue keeps all that.
LEMMA HeadLasts ==
    ASSUME MaxKeys \in Nat, NEW w, NEW h, h.keys \in 0..MaxKeys, NEW q, q # <<>>, Lasting(w, h, q)
    PROVE  Lasting(Apply(w, Head(q)), h, Tail(q))
<1> DEFINE r == Head(q)
           v == Apply(w, r)
           t == Tail(q)
           ro == h.reopened
<1>1. /\ IsRequests(q) /\ TypedWorld(w) /\ Counted(w.doc, q, h.keys) /\ h.committed \in Seq(Real)
      /\ \A i \in 1..Len(q) : Asked(q[i], ro)
      /\ \A i \in 1..Len(h.committed) : Safe(h.committed[i].word, w, ro, q)
  BY DEF Lasting
<1>2. /\ IsRequests(t) /\ Len(q) \in Nat \ {0} /\ Len(t) = Len(q) - 1
      /\ \A i \in 1..Len(q) - 1 : t[i] = q[i + 1]
      /\ r = q[1]
  BY <1>1, RequestsHead
<1>3. Asked(r, ro)
  BY <1>1, <1>2
<1> DEFINE one == IF r.op \in {"preview", "reedit"} THEN 1 ELSE 0
           C == Cardinality(Numbers(w.doc))
<1>4. /\ Cardinality(Starters(t)) + one <= Cardinality(Starters(q))
      /\ Cardinality(Starters(t)) \in Nat /\ Cardinality(Starters(q)) \in Nat
  BY <1>1, <1>2, StartersTail, StartersFinite
<1>5. IsFiniteSet(Numbers(w.doc)) /\ C \in Nat /\ C + Cardinality(Starters(q)) <= h.keys
  BY <1>1, FS_CardinalityType DEF Counted
<1>6. FreeNumber(w.doc)
  <2>1. C <= MaxKeys
    BY <1>4, <1>5
  <2>2. w.doc \in [Context -> Seq(APiece)]
    BY <1>1 DEF TypedWorld, DocOK
  <2> QED BY <1>5, <2>1, <2>2, RoomForStarter
<1>7. Lasts(w, v, ro, r)
  BY <1>1, <1>3, <1>6, ApplyLasts
<1> HIDE DEF v, t, ro, r
<1>8. \A i \in 1..Len(t) : Asked(t[i], ro)
  BY <1>1, <1>2
<1>9. Counted(v.doc, t, h.keys)
  <2>1. PICK x : Numbers(v.doc) \subseteq Numbers(w.doc) \union
                     (IF r.op \in {"preview", "reedit"} THEN {x} ELSE {})
    BY <1>7 DEF Lasts
  <2>2. CASE r.op \in {"preview", "reedit"}
    <3>1. IsFiniteSet(Numbers(w.doc) \union {x}) /\ Cardinality(Numbers(w.doc) \union {x}) \in Nat
          /\ Cardinality(Numbers(w.doc) \union {x}) <= C + 1
      <4>1. /\ IsFiniteSet(Numbers(w.doc) \union {x})
            /\ Cardinality(Numbers(w.doc) \union {x}) = IF x \in Numbers(w.doc) THEN C ELSE C + 1
        BY <1>5, FS_AddElement
      <4> QED BY <1>5, <4>1
    <3>2. Numbers(v.doc) \subseteq Numbers(w.doc) \union {x}
      BY <2>1, <2>2
    <3>3. IsFiniteSet(Numbers(v.doc)) /\ Cardinality(Numbers(v.doc)) <= Cardinality(Numbers(w.doc) \union {x})
      BY <3>1, <3>2, FS_Subset
    <3>4. Cardinality(Numbers(v.doc)) \in Nat /\ one = 1
      BY <2>2, <3>3, FS_CardinalityType
    <3> HIDE DEF one, C
    <3> QED BY <1>4, <1>5, <3>1, <3>3, <3>4 DEF Counted
  <2>3. CASE r.op \notin {"preview", "reedit"}
    <3>1. Numbers(v.doc) \subseteq Numbers(w.doc)
      BY <2>1, <2>3
    <3>2. IsFiniteSet(Numbers(v.doc)) /\ Cardinality(Numbers(v.doc)) <= C
      BY <1>5, <3>1, FS_Subset
    <3>3. Cardinality(Numbers(v.doc)) \in Nat /\ one = 0
      BY <2>3, <3>2, FS_CardinalityType
    <3> HIDE DEF one, C
    <3> QED BY <1>4, <1>5, <3>2, <3>3 DEF Counted
  <2> QED BY <2>2, <2>3
<1>10. ASSUME NEW i \in 1..Len(h.committed) PROVE Safe(h.committed[i].word, v, ro, t)
  <2> DEFINE n == h.committed[i].word
  <2> HIDE DEF n
  <2>1. Safe(n, w, ro, q)
    BY <1>1 DEF n
  <2>2. CASE Coming(q, n)
    <3>1. PICK j \in 1..Len(q) : q[j].op = "commit" /\ q[j].text \in Real /\ q[j].text.word = n
      BY <2>2 DEF Coming
    <3>2. CASE j = 1
      <4>1. r.op = "commit" /\ r.text \in Real /\ r.text.word = n
        BY <3>1, <3>2, <1>2
      <4> QED BY <4>1, <1>7 DEF Lasts, Safe, n
    <3>3. CASE j # 1
      <4>1. j - 1 \in 1..Len(t) /\ j - 1 \in 1..Len(q) - 1 /\ (j - 1) + 1 = j
        BY <3>3, <1>2
      <4>2. t[j - 1] = q[j]
        BY <4>1, <1>2
      <4>3. Coming(t, n)
        BY <3>1, <4>1, <4>2 DEF Coming
      <4> QED BY <4>3 DEF Safe, n
    <3> QED BY <3>2, <3>3
  <2>3. CASE n \in ro
    BY <2>3 DEF Safe, n
  <2>4. CASE n \in w.erased
    BY <2>4, <1>7 DEF Safe, Lasts, n
  <2>5. CASE Written(w.doc, n)
    BY <2>5, <1>7 DEF Safe, Lasts, n
  <2> QED BY <2>1, <2>2, <2>3, <2>4, <2>5 DEF Safe
<1>11. TypedWorld(v)
  BY <1>7 DEF Lasts
<1> QED BY <1>1, <1>2, <1>8, <1>9, <1>10, <1>11 DEF Lasting, v, t, ro, r

\* So do the first sessions of a handler, when they run at once.
LEMMA AfterLasts ==
    ASSUME MaxKeys \in Nat, NEW w, NEW h, h.keys \in 0..MaxKeys, NEW rs, Lasting(w, h, rs),
           Len(rs) <= 2, NEW k \in 0..Len(rs)
    PROVE  Lasting(After(w, rs, k), h, SubSeq(rs, k + 1, Len(rs)))
<1>1. IsRequests(rs) /\ Len(rs) \in Nat
  BY LenProperties DEF Lasting, IsRequests
<1>2. CASE k = 0
  <2>1. After(w, rs, k) = w
    BY <1>2 DEF After
  <2>2. SubSeq(rs, k + 1, Len(rs)) = rs
    BY <1>1, <1>2, SubSeqFull DEF IsRequests
  <2> QED BY <2>1, <2>2
<1>3. CASE k # 0
  <2>1. rs # <<>> /\ Len(rs) >= 1
    BY <1>1, <1>3, RequestsNone
  <2>2. /\ IsRequests(Tail(rs)) /\ Len(Tail(rs)) = Len(rs) - 1 /\ Head(rs) = rs[1]
        /\ \A i \in 1..Len(rs) - 1 : Tail(rs)[i] = rs[i + 1]
    BY <1>1, <2>1, RequestsHead
  <2>3. Lasting(Apply(w, rs[1]), h, Tail(rs))
    BY <2>1, <2>2, HeadLasts
  <2>4. Tail(rs) = SubSeq(rs, 2, Len(rs))
    BY <1>1, <2>1, TailIsSubSeq DEF IsRequests
  <2>5. CASE k = 1
    <3>1. After(w, rs, k) = Apply(w, rs[1]) /\ k + 1 = 2
      BY <2>5 DEF After
    <3> QED BY <3>1, <2>3, <2>4
  <2>6. CASE k # 1
    <3>0. k = 2
      <4> DEFINE L == Len(rs)
      <4>1. L \in Nat /\ L <= 2 /\ k \in 0..L
        BY <1>1
      <4> HIDE DEF L
      <4> QED BY <4>1, <1>3, <2>6
    <3>1. Len(rs) = 2
      <4> DEFINE L == Len(rs)
      <4>1. L \in Nat /\ L <= 2 /\ k \in 0..L
        BY <1>1
      <4> HIDE DEF L
      <4>2. L = 2
        BY <4>1, <3>0
      <4> QED BY <4>2 DEF L
    <3>2. After(w, rs, k) = Apply(Apply(w, rs[1]), rs[2])
      BY <3>0 DEF After
    <3> DEFINE t == Tail(rs)
    <3>3. IsRequests(t) /\ Len(t) = 1 /\ t[1] = rs[2]
      <4>1. Len(rs) - 1 = 1 /\ 1 \in 1..Len(rs) - 1
        BY <3>1
      <4> QED BY <4>1, <2>2
    <3> HIDE DEF t
    <3>4. t # <<>>
      <4>1. Len(t) # Len(<<>>)
        BY <3>3, RequestsNone
      <4> QED BY <4>1, Zenon
    <3>5. IsRequests(Tail(t)) /\ Len(Tail(t)) = 0 /\ Head(t) = rs[2]
      BY <3>3, <3>4, RequestsHead
    <3>6. Lasting(Apply(Apply(w, rs[1]), rs[2]), h, Tail(t))
      BY <2>3, <3>4, <3>5, HeadLasts DEF t
    <3>7. Tail(t) = <<>>
      BY <3>5, EmptySeq DEF IsRequests
    <3>8. SubSeq(rs, k + 1, Len(rs)) = <<>>
      <4>1. k + 1 \in Nat \ {0} /\ Len(rs) <= Len(rs) /\ ~(k + 1 <= Len(rs))
        BY <3>0, <3>1
      <4>2. IsRequests(SubSeq(rs, k + 1, Len(rs))) /\ Len(SubSeq(rs, k + 1, Len(rs))) = 0
        BY <1>1, <4>1, RequestsPart
      <4> QED BY <4>2, EmptySeq DEF IsRequests
    <3> QED BY <3>2, <3>6, <3>7, <3>8
  <2> QED BY <2>5, <2>6
<1> QED BY <1>2, <1>3

\* Unless sessions are lost, those that a handler requests are queued, or the first
\* ones run at once and nothing was queued before them.
LEMMA RunSplits ==
    ASSUME QueueInv, NEW u, NEW rs, IsRequests(rs), Run(u, rs), losses \in Nat, losses' = losses
    PROVE  \/ Become(u) /\ queue' = queue \o rs
           \/ /\ queue = <<>>
              /\ \E k \in 0..Len(rs) : Become(After(u, rs, k)) /\ queue' = SubSeq(rs, k + 1, Len(rs))
<1>1. PICK k \in 0..Len(rs), accepted \in BOOLEAN :
        /\ pending > 0 => k = 0
        /\ Become(After(u, rs, k))
        /\ queue' = IF accepted THEN queue \o SubSeq(rs, k + 1, Len(rs)) ELSE queue
        /\ losses' = IF accepted THEN losses ELSE losses + 1
  BY DEF Run
<1>2. accepted
  BY <1>1
<1>3. Len(queue) \in Nat /\ pending = Len(queue)
  BY LenProperties DEF QueueInv, IsRequests
<1>4. CASE k = 0
  <2>1. After(u, rs, k) = u
    BY <1>4 DEF After
  <2>2. SubSeq(rs, k + 1, Len(rs)) = rs
    BY <1>4, SubSeqFull DEF IsRequests
  <2> QED BY <1>1, <1>2, <2>1, <2>2
<1>5. CASE k # 0
  <2>1. queue = <<>>
    <3>1. Len(queue) = 0
      BY <1>1, <1>3, <1>5
    <3> QED BY <3>1, EmptySeq DEF QueueInv, IsRequests
  <2>2. queue \o SubSeq(rs, k + 1, Len(rs)) = SubSeq(rs, k + 1, Len(rs))
    <3>1. k + 1 \in Nat \ {0} /\ Len(rs) \in Nat /\ Len(rs) <= Len(rs)
      BY LenProperties DEF IsRequests
    <3>2. IsRequests(SubSeq(rs, k + 1, Len(rs)))
      BY <3>1, RequestsPart
    <3> QED BY <2>1, <3>2, ConcatEmptySeq DEF IsRequests
  <2> QED BY <1>1, <1>2, <2>1, <2>2
<1> QED BY <1>4, <1>5

\* The world becomes what the sessions leave.
LEMMA Becomes ==
    ASSUME NEW v, IsWorld(v), Become(v)
    PROVE  World' = v
BY DEF Become, World, IsWorld, Field

\* A handler leaves the world u and the rest g and requests rs: it erases nothing that
\* stands written, and a word that it commits is in a request.
Handles(w, h, u, g, rs) ==
    /\ TypedWorld(u) /\ w.erased \subseteq u.erased
    /\ \A n : Written(w.doc, n) => Written(u.doc, n)
    /\ Numbers(u.doc) \subseteq Numbers(w.doc)
    /\ IsRequests(rs) /\ Len(rs) <= 2 /\ \A i \in 1..Len(rs) : Asked(rs[i], g.reopened)
    /\ h.reopened \subseteq g.reopened
    /\ g.keys \in 0..MaxKeys /\ h.keys + Cardinality(Starters(rs)) <= g.keys
    /\ g.committed \in Seq(Real)
    /\ \A i \in 1..Len(g.committed) :
           \/ \E j \in 1..Len(h.committed) : g.committed[i] = h.committed[j]
           \/ Coming(rs, g.committed[i].word)

\* What is queued already and what is requested make one queue.
LEMMA RequestLasts ==
    ASSUME MaxKeys \in Nat, NEW w, NEW h, h.keys \in 0..MaxKeys, NEW q, Lasting(w, h, q),
           NEW u, NEW g, NEW rs, Handles(w, h, u, g, rs)
    PROVE  Lasting(u, g, q \o rs)
<1>1. /\ IsRequests(q) /\ IsRequests(rs) /\ TypedWorld(u) /\ g.committed \in Seq(Real)
      /\ h.reopened \subseteq g.reopened
  BY DEF Lasting, Handles
<1>2. /\ IsRequests(q \o rs) /\ Len(q \o rs) = Len(q) + Len(rs) /\ Len(q) \in Nat /\ Len(rs) \in Nat
      /\ \A i \in 1..Len(q) + Len(rs) : (q \o rs)[i] = IF i <= Len(q) THEN q[i] ELSE rs[i - Len(q)]
  BY <1>1, RequestsConcat
<1>3. ASSUME NEW i \in 1..Len(q \o rs) PROVE Asked((q \o rs)[i], g.reopened)
  <2>1. CASE i <= Len(q)
    <3>1. i \in 1..Len(q) /\ (q \o rs)[i] = q[i]
      BY <1>2, <2>1
    <3>2. Asked(q[i], h.reopened)
      BY <3>1 DEF Lasting
    <3> QED BY <1>1, <3>1, <3>2 DEF Asked
  <2>2. CASE ~(i <= Len(q))
    <3>1. i - Len(q) \in 1..Len(rs) /\ (q \o rs)[i] = rs[i - Len(q)]
      BY <1>2, <2>2
    <3> QED BY <3>1 DEF Handles
  <2> QED BY <2>1, <2>2
<1>4. Counted(u.doc, q \o rs, g.keys)
  <2> DEFINE A == Cardinality(Starters(q))
             B == Cardinality(Starters(rs))
             C == Cardinality(Starters(q \o rs))
             D == Cardinality(Numbers(w.doc))
             E == Cardinality(Numbers(u.doc))
  <2>1. IsFiniteSet(Numbers(w.doc)) /\ D + A <= h.keys /\ h.keys + B <= g.keys
    BY DEF Lasting, Handles, Counted
  <2>2. Numbers(u.doc) \subseteq Numbers(w.doc)
    BY DEF Handles
  <2>3. IsFiniteSet(Numbers(u.doc)) /\ E <= D
    BY <2>1, <2>2, FS_Subset
  <2>4. C <= A + B /\ A \in Nat /\ B \in Nat /\ C \in Nat
    BY <1>1, <1>2, StartersConcat, StartersFinite
  <2>5. D \in Nat /\ E \in Nat /\ h.keys \in Nat /\ g.keys \in Nat
    BY <2>1, <2>3, FS_CardinalityType DEF Handles
  <2> HIDE DEF A, B, C, D, E
  <2>6. E + C <= g.keys
    BY <2>1, <2>3, <2>4, <2>5
  <2> QED BY <2>3, <2>6 DEF Counted, E, C
<1>5. ASSUME NEW n, Coming(q, n) \/ Coming(rs, n) PROVE Coming(q \o rs, n)
  <2>1. CASE Coming(q, n)
    <3>1. PICK j \in 1..Len(q) : q[j].op = "commit" /\ q[j].text \in Real /\ q[j].text.word = n
      BY <2>1 DEF Coming
    <3>2. j \in 1..Len(q \o rs) /\ (q \o rs)[j] = q[j]
      BY <1>2
    <3> QED BY <3>1, <3>2 DEF Coming
  <2>2. CASE Coming(rs, n)
    <3>1. PICK j \in 1..Len(rs) : rs[j].op = "commit" /\ rs[j].text \in Real /\ rs[j].text.word = n
      BY <2>2 DEF Coming
    <3>2. j + Len(q) \in 1..Len(q \o rs) /\ (q \o rs)[j + Len(q)] = rs[j]
      BY <1>2
    <3> QED BY <3>1, <3>2 DEF Coming
  <2> QED BY <1>5, <2>1, <2>2
<1>6. ASSUME NEW n, Safe(n, w, h.reopened, q) PROVE Safe(n, u, g.reopened, q \o rs)
  <2>1. n \in h.reopened \/ n \in w.erased \/ Written(w.doc, n) \/ Coming(q, n)
    BY <1>6 DEF Safe
  <2>2. n \in g.reopened \/ n \in u.erased \/ Written(u.doc, n) \/ Coming(q \o rs, n)
    BY <1>1, <1>5, <2>1 DEF Handles
  <2> QED BY <2>2 DEF Safe
<1>7. ASSUME NEW i \in 1..Len(g.committed)
      PROVE  Safe(g.committed[i].word, u, g.reopened, q \o rs)
  <2>1. CASE \E j \in 1..Len(h.committed) : g.committed[i] = h.committed[j]
    <3>1. PICK j \in 1..Len(h.committed) : g.committed[i] = h.committed[j]
      BY <2>1
    <3>2. Safe(h.committed[j].word, w, h.reopened, q)
      BY DEF Lasting
    <3> QED BY <3>1, <3>2, <1>6
  <2>2. CASE Coming(rs, g.committed[i].word)
    BY <2>2, <1>5 DEF Safe
  <2> QED BY <2>1, <2>2 DEF Handles
<1> QED BY <1>1, <1>2, <1>3, <1>4, <1>7 DEF Lasting

\* `run` keeps it for the sessions a handler requests.
LEMMA RunLasts ==
    ASSUME MaxKeys \in Nat, QueueInv, keys \in 0..MaxKeys, Lasting(World, Rest_, queue),
           NEW u, NEW rs, Handles(World, Rest_, u, Rest_', rs), Run(u, rs),
           losses \in Nat, losses' = losses
    PROVE  Lasting(World', Rest_', queue')
<1>0. Rest_.keys \in 0..MaxKeys /\ Rest_'.keys \in 0..MaxKeys
  BY DEF Handles, Rest_
<1> DEFINE g == Rest_'
<1>1. Lasting(u, g, queue \o rs)
  BY <1>0, RequestLasts
<1>2. /\ IsRequests(rs) /\ Len(rs) <= 2
  BY DEF Handles
<1> HIDE DEF g
<1>3. \/ Become(u) /\ queue' = queue \o rs
      \/ /\ queue = <<>>
         /\ \E k \in 0..Len(rs) : Become(After(u, rs, k)) /\ queue' = SubSeq(rs, k + 1, Len(rs))
  BY <1>2, RunSplits
<1>4. \E v : Become(v) /\ Lasting(v, g, queue')
  <2>1. CASE Become(u) /\ queue' = queue \o rs
    BY <2>1, <1>1
  <2>2. CASE /\ queue = <<>>
             /\ \E k \in 0..Len(rs) : Become(After(u, rs, k)) /\ queue' = SubSeq(rs, k + 1, Len(rs))
    <3>1. PICK k \in 0..Len(rs) : Become(After(u, rs, k)) /\ queue' = SubSeq(rs, k + 1, Len(rs))
      BY <2>2
    <3>2. queue \o rs = rs
      BY <2>2, <1>2, ConcatEmptySeq DEF IsRequests
    <3>3. Lasting(After(u, rs, k), g, SubSeq(rs, k + 1, Len(rs)))
      BY <1>0, <1>1, <1>2, <3>2, AfterLasts DEF g
    <3> QED BY <3>1, <3>3
  <2> QED BY <1>3, <2>1, <2>2
<1>5. PICK v : Become(v) /\ Lasting(v, g, queue')
  BY <1>4
<1>6. IsWorld(v)
  BY <1>5 DEF Lasting, TypedWorld, DocOK
<1>7. World' = v
  BY <1>5, <1>6, Becomes
<1> QED BY <1>5, <1>7 DEF g

\* The bounds, and where the last eaten key came from.
Bounded ==
    /\ keys \in 0..MaxKeys /\ losses \in Nat /\ ended \in Nat
    /\ context \in Context \union {NoContext}

\* A session that `run` cannot place is lost for good.
LEMMA RunLoses ==
    ASSUME NEW u, NEW rs, Run(u, rs)
    PROVE  losses' \in {losses, losses + 1}
BY DEF Run

\* ... in finalize_composition too.
LEMMA FinalizeLoses ==
    ASSUME NEW u, FinalizeComposition(u)
    PROVE  losses' \in {losses, losses + 1}
BY RunLoses DEF FinalizeComposition

\* The bounds hold at every step, and what is lost stays lost.
LEMMA BoundedStep ==
    ASSUME MaxKeys \in Nat, Bounded, [Next]_vars
    PROVE  Bounded' /\ (losses' = 0 => losses = 0) /\ (ended' = 0 => ended = 0) /\ ended' \in {ended, ended + 1}
<1> DEFINE Steps ==
             /\ losses' \in {losses, losses + 1} /\ ended' \in {ended, ended + 1}
             /\ keys' = keys \/ (keys < MaxKeys /\ keys' = keys + 1)
             /\ context' = context \/ context' \in Context
<1>1. ASSUME NEW c \in Context, DropDeadState(c) PROVE Steps
  BY <1>1, RunLoses, FinalizeLoses DEF DropDeadState, bounds
<1>2. ASSUME NEW c \in Context, Key(c) PROVE
             /\ keys < MaxKeys /\ keys' = keys + 1 /\ context' \in Context /\ ended' = ended
  BY <1>2 DEF Key
<1>3. ASSUME NEW c \in Context,
             AppendChar(c) \/ Backspace(c) \/ MoveHighlight(c) \/ SwitchEditor(c) \/ CommitKey(c)
               \/ CommitThenType(c) \/ InsertKey(c) \/ ReEditKey(c)
      PROVE  Steps
  <2>1. Key(c)
    BY <1>3 DEF AppendChar, Backspace, MoveHighlight, SwitchEditor, CommitKey, CommitThenType, InsertKey, ReEditKey
  <2>2. (\E u : \E rs : Run(u, rs)) \/ losses' = losses
    BY <1>3 DEF AppendChar, Backspace, MoveHighlight, SwitchEditor, CommitKey, CommitThenType, InsertKey,
                ReEditKey, tsf
  <2> QED BY <2>1, <2>2, <1>2, RunLoses
<1>4. ASSUME NEW c \in Context, NEW left, Toggle(c, left) PROVE losses' \in {losses, losses + 1}
  BY <1>4, RunLoses DEF Toggle
<1>5. ASSUME NEW c \in Context, ToggleKey(c) \/ PreservedKey(c) \/ PassKey(c) PROVE Steps
  BY <1>5, <1>2, <1>4 DEF ToggleKey, PreservedKey, PassKey, tsf
<1>6. ASSUME NEW c \in Context, MoveCaret(c) PROVE Steps
  BY <1>6, RunLoses, FinalizeLoses DEF MoveCaret
<1>7. ASSUME NEW c \in Context, CompositionTerminated(c) \/ CompositionLost(c) PROVE Steps
  BY <1>7, RunLoses DEF CompositionTerminated, CompositionLost, engine, tsf
<1>8. ASSUME ClickRow \/ SetFocus \/ \E gained \in BOOLEAN : ThreadFocus(gained) PROVE Steps
  <2>1. CASE ClickRow
    BY <2>1, RunLoses DEF ClickRow
  <2>2. CASE SetFocus
    BY <2>2, FinalizeLoses DEF SetFocus
  <2>3. CASE \E gained \in BOOLEAN : ThreadFocus(gained)
    BY <2>3 DEF ThreadFocus, engine, tsf
  <2> QED BY <1>8, <2>1, <2>2, <2>3
<1>9. ASSUME RunQueued \/ Discard \/ UNCHANGED vars PROVE Steps
  BY <1>9 DEF RunQueued, Discard, bounds, vars, engine, tsf
<1>10. Steps
  BY <1>1, <1>3, <1>5, <1>6, <1>7, <1>8, <1>9 DEF Next, KeyDown
<1>11. losses \in Nat /\ ended \in Nat /\ keys \in 0..MaxKeys /\ context \in Context \union {NoContext}
  BY DEF Bounded
<1>12. losses' \in Nat /\ ended' \in Nat /\ keys' \in 0..MaxKeys /\ context' \in Context \union {NoContext}
  BY <1>10, <1>11
<1> QED BY <1>10, <1>11, <1>12 DEF Bounded

-----------------------------------------------------------------------------
\* What the handlers find and leave while nothing was lost.
Stays == anchor \in Anchors /\ Lasting(World, Rest_, queue)

\* What a step may assume.
Staying ==
    /\ ServiceAssumption /\ QueueInv /\ Bounded /\ Bounded' /\ losses = 0 /\ losses' = 0
    /\ Stays

\* What they find, field by field.
LEMMA StayFacts ==
    ASSUME Staying
    PROVE  /\ MaxKeys \in Nat /\ NoContext \notin Context
           /\ QueueInv /\ keys \in 0..MaxKeys /\ keys' \in 0..MaxKeys
           /\ losses \in Nat /\ losses' = losses /\ anchor \in Anchors
           /\ Lasting(World, Rest_, queue) /\ TypedWorld(World) /\ DocOK(World) /\ IsWorld(World)
           /\ session \in Letters /\ editor \in Letters /\ committed \in Seq(Real)
           /\ NoWord \in Letters /\ NoAnchor \in Anchors
<1>1. MaxKeys \in Nat /\ NoContext \notin Context
  BY DEF Staying, ServiceAssumption
<1>2. QueueInv /\ keys \in 0..MaxKeys /\ keys' \in 0..MaxKeys /\ losses \in Nat /\ losses' = losses
  BY DEF Staying, Bounded
<1>3. anchor \in Anchors /\ Lasting(World, Rest_, queue)
  BY DEF Staying, Stays
<1>4. TypedWorld(World) /\ Rest_.committed \in Seq(Real)
  BY <1>3 DEF Lasting
<1>5. DocOK(World) /\ World.session \in Letters /\ World.editor \in Letters
  BY <1>4 DEF TypedWorld
<1>6. NoWord \in Letters /\ NoAnchor \in Anchors
  BY DEF Letters, NoAnchor, Anchors
<1> QED BY <1>1, <1>2, <1>3, <1>4, <1>5, <1>6, WorldFields, RestFields DEF DocOK

\* A handler, by what it leaves in the state and requests.
LEMMA Handled ==
    ASSUME Staying, NEW u, TypedWorld(u), erased \subseteq u.erased,
           \A n : Written(doc, n) => Written(u.doc, n), Numbers(u.doc) \subseteq Numbers(doc),
           NEW rs, IsRequests(rs), Len(rs) <= 2, \A i \in 1..Len(rs) : Asked(rs[i], reopened'),
           reopened \subseteq reopened', keys + Cardinality(Starters(rs)) <= keys',
           \/ committed' = committed
           \/ \E t \in Real : committed' = Append(committed, t) /\ Coming(rs, t.word),
           anchor' \in Anchors, Run(u, rs)
    PROVE  Stays'
<1> DEFINE w == World
           h == Rest_
           g == Rest_'
<1>1. /\ h.keys = keys /\ h.committed = committed /\ h.reopened = reopened
      /\ g.keys = keys' /\ g.committed = committed' /\ g.reopened = reopened'
      /\ w.doc = doc /\ w.erased = erased
  BY RestFields, WorldFields
<1> HIDE DEF w, h, g
<1>2. /\ MaxKeys \in Nat /\ QueueInv /\ keys \in 0..MaxKeys /\ keys' \in 0..MaxKeys
      /\ losses \in Nat /\ losses' = losses
      /\ Lasting(World, Rest_, queue) /\ committed \in Seq(Real)
  BY StayFacts
<1>3. /\ committed' \in Seq(Real)
      /\ \A i \in 1..Len(committed') : \/ \E j \in 1..Len(committed) : committed'[i] = committed[j]
                                       \/ Coming(rs, committed'[i].word)
  <2>1. CASE committed' = committed
    BY <2>1, <1>2
  <2>2. CASE \E t \in Real : committed' = Append(committed, t) /\ Coming(rs, t.word)
    <3>1. PICK t \in Real : committed' = Append(committed, t) /\ Coming(rs, t.word)
      BY <2>2
    <3>2. /\ committed' \in Seq(Real) /\ Len(committed') = Len(committed) + 1 /\ Len(committed) \in Nat
          /\ \A i \in 1..Len(committed) : committed'[i] = committed[i]
          /\ committed'[Len(committed) + 1] = t
      BY <1>2, <3>1, AppendProperties, LenProperties
    <3> QED BY <3>1, <3>2
  <2> QED BY <2>1, <2>2
<1>4. Handles(w, h, u, g, rs)
  BY <1>1, <1>2, <1>3 DEF Handles
<1>5. Lasting(World', Rest_', queue')
  BY <1>2, <1>4, RunLasts DEF w, h, g
<1> QED BY <1>5 DEF Stays

\* A handler that requests nothing ...
LEMMA StayNone ==
    ASSUME Staying, NEW u, TypedWorld(u), erased \subseteq u.erased,
           \A n : Written(doc, n) => Written(u.doc, n), Numbers(u.doc) \subseteq Numbers(doc),
           reopened \subseteq reopened', keys' \in {keys, keys + 1}, committed' = committed,
           anchor' \in Anchors, Run(u, <<>>)
    PROVE  Stays'
<1> DEFINE rs == <<>>
<1>1. IsRequests(rs) /\ Len(rs) = 0 /\ Run(u, rs) /\ Cardinality(Starters(rs)) = 0
  BY RequestsNone, StartersFew
<1> HIDE DEF rs
<1>2. keys \in Nat
  BY StayFacts
<1>3. Len(rs) <= 2 /\ (\A i \in 1..Len(rs) : Asked(rs[i], reopened')) /\ keys + Cardinality(Starters(rs)) <= keys'
  BY <1>1, <1>2
<1> QED BY <1>1, <1>3, Handled

\* ... or one session.
LEMMA StayOne ==
    ASSUME Staying, NEW u, TypedWorld(u), erased \subseteq u.erased,
           \A n : Written(doc, n) => Written(u.doc, n), Numbers(u.doc) \subseteq Numbers(doc),
           NEW r, Asked(r, reopened'), reopened \subseteq reopened',
           keys' = keys + 1 \/ (keys' = keys /\ r.op \notin {"preview", "reedit"}),
           \/ committed' = committed
           \/ \E t \in Real : committed' = Append(committed, t) /\ r.op = "commit" /\ r.text = t,
           anchor' \in Anchors, Run(u, <<r>>)
    PROVE  Stays'
<1> DEFINE rs == <<r>>
<1>0. r.op \in Op /\ r.nth \in Nat
  BY DEF Asked
<1>1. /\ IsRequests(rs) /\ Len(rs) = 1 /\ rs[1] = r /\ Run(u, rs)
      /\ Cardinality(Starters(rs)) <= 1
      /\ r.op \notin {"preview", "reedit"} => Cardinality(Starters(rs)) = 0
  BY <1>0, RequestsOne, StartersFew
<1> HIDE DEF rs
<1>2. keys \in Nat /\ Cardinality(Starters(rs)) \in Nat
  BY <1>1, StayFacts, StartersFinite
<1>3. Len(rs) <= 2 /\ (\A i \in 1..Len(rs) : Asked(rs[i], reopened'))
  BY <1>1
<1>4. keys + Cardinality(Starters(rs)) <= keys'
  BY <1>1, <1>2
<1>5. ASSUME NEW t \in Real, r.op = "commit", r.text = t PROVE Coming(rs, t.word)
  <2>1. 1 \in 1..Len(rs)
    BY <1>1
  <2> QED BY <1>1, <1>5, <2>1 DEF Coming
<1> QED BY <1>1, <1>3, <1>4, <1>5, Handled

\* finalize_composition, from the state w that the handler leaves.
LEMMA StayFinalize ==
    ASSUME Staying, NEW w, TypedWorld(w), w.erased = erased,
           \A n : Written(doc, n) => Written(w.doc, n), Numbers(w.doc) \subseteq Numbers(doc),
           reopened' = reopened, keys' \in {keys, keys + 1}, committed' = committed,
           anchor' \in Anchors, FinalizeComposition(w)
    PROVE  Stays'
<1> DEFINE fields == {c \in Context : Lives(w.doc[c], w.composition)}
           u == [w EXCEPT !.session = NoWord, !.editor = NoWord, !.compCtx = NoContext,
                      !.popup = FALSE,
                      !.finalized = @ \union {w.doc[c][Place(w.doc[c], w.composition)].text.word :
                                                 c \in fields}]
           f == CHOOSE c \in fields : TRUE
           r == Request("finalize", f, NoWord)
<1>1. TypedWorld(u) /\ u.doc = w.doc /\ u.erased = w.erased
  <2>1. IsWorld(w) /\ NoWord \in Letters
    BY StayFacts DEF TypedWorld, DocOK
  <2>2. IsWorld(u) /\ u.doc = w.doc /\ u.erased = w.erased /\ u.caret = w.caret /\ u.editor = NoWord
        /\ u.session = NoWord
    BY <2>1 DEF IsWorld, Field
  <2> HIDE DEF u
  <2> QED BY <2>1, <2>2 DEF DocOK, TypedWorld
<1>2. CASE fields = {}
  <2>1. Run(u, <<>>)
    BY <1>2 DEF FinalizeComposition
  <2> HIDE DEF u
  <2> QED BY <1>1, <2>1, StayNone
<1>3. CASE fields # {}
  <2>1. Run(u, <<r>>) /\ f \in Context
    BY <1>3 DEF FinalizeComposition
  <2>2. Asked(r, reopened') /\ r.op = "finalize"
    BY <2>1, StayFacts DEF Request, Asked, Op, Suffix
  <2> HIDE DEF u, r
  <2> QED BY <1>1, <2>1, <2>2, StayOne
<1> QED BY <1>2, <1>3

\* The state with another word in it.
LEMMA TypedAs ==
    ASSUME NEW w, TypedWorld(w), NEW u, IsWorld(u), u.doc = w.doc, u.caret = w.caret,
           u.session \in Letters, u.editor \in Letters
    PROVE  TypedWorld(u)
BY DEF TypedWorld, DocOK

\* The compositions and what is written, when a handler leaves the text alone.
LEMMA SameText ==
    ASSUME NEW u, u.doc = doc, u.erased = erased
    PROVE  /\ erased \subseteq u.erased /\ Numbers(u.doc) \subseteq Numbers(doc)
           /\ \A n : Written(doc, n) => Written(u.doc, n)
OBVIOUS

\* Sessions as the handlers request them.
LEMMA Requested ==
    ASSUME NEW c \in Context, NEW ro
    PROVE  /\ \A op \in {"preview", "commit", "finalize"} : Asked(Request(op, c, NoWord), ro)
           /\ Asked(Request("insert", c, Character), ro)
           /\ \A t \in Letters : t.word \in ro => Asked(Request("reedit", c, t), ro)
           /\ \A op, t : Request(op, c, t).op = op
<1>1. NoWord \in Letters /\ <<>> \in Suffix
  BY DEF Letters, Suffix
<1>3. \A op \in {"preview", "commit", "finalize"} : Asked(Request(op, c, NoWord), ro)
  BY <1>1 DEF Request, Asked, Op
<1>4. Asked(Request("insert", c, Character), ro)
  BY <1>1 DEF Request, Asked, Op
<1>5. \A t \in Letters : t.word \in ro => Asked(Request("reedit", c, t), ro)
  BY <1>1 DEF Request, Asked, Op
<1>6. \A op, t : Request(op, c, t).op = op
  BY DEF Request
<1> QED BY <1>3, <1>4, <1>5, <1>6

\* A commit as the handlers request it.
LEMMA CommitAsked ==
    ASSUME NEW c \in Context, NEW ro, committed \in Seq(Real), NEW t \in Letters, NEW s \in Suffix
    PROVE  /\ Asked(CommitRequest(c, t, s), ro)
           /\ CommitRequest(c, t, s).op = "commit" /\ CommitRequest(c, t, s).text = t
<1>1. Len(committed) + 1 \in Nat
  BY LenProperties
<1> QED BY <1>1 DEF CommitRequest, Asked, Op

\* A key that changes the word only and previews it.
LEMMA StayPreview ==
    ASSUME Staying, NEW c \in Context, NEW u, IsWorld(u), u.doc = doc, u.caret = caret,
           u.erased = erased, u.session \in Letters, u.editor \in Letters,
           Run(u, <<Request("preview", c, NoWord)>>), keys' = keys + 1,
           committed' = committed, reopened' = reopened, anchor' = NoAnchor
    PROVE  Stays'
<1> DEFINE r == Request("preview", c, NoWord)
<1>1. TypedWorld(u)
  BY StayFacts, WorldFields, TypedAs
<1>2. Asked(r, reopened') /\ Run(u, <<r>>)
  BY Requested
<1> HIDE DEF r
<1> QED BY <1>1, <1>2, SameText, StayOne, StayFacts

\* Letters, Backspace, the arrows and the editor keys.
LEMMA WordKeyStays ==
    ASSUME Staying, NEW c \in Context,
           AppendChar(c) \/ Backspace(c) \/ MoveHighlight(c) \/ SwitchEditor(c)
    PROVE  Stays'
<1>w. /\ IsWorld(World) /\ World.session = session /\ World.editor = editor
      /\ World.doc = doc /\ World.caret = caret /\ World.erased = erased
      /\ session \in Letters /\ editor \in Letters /\ keys \in Nat
      /\ NoWord \in Letters /\ TypedWorld(World)
  BY StayFacts, WorldFields
<1>x. \A t \in Letters : t # NoWord => t \in Real
  BY DEF Letters
<1>y. \A t \in Real : t \in Letters /\ t # NoWord
  BY DEF Real, Letters, NoWord
<1>1. CASE AppendChar(c)
  <2> DEFINE u == [World EXCEPT !.session = Typed]
  <2>1. /\ Run(u, <<Request("preview", c, NoWord)>>) /\ anchor' = NoAnchor /\ keys' = keys + 1
        /\ committed' = committed /\ reopened' = reopened
    BY <1>1 DEF AppendChar, Key, history
  <2>2. Typed \in Letters
    <3>1. CASE session = NoWord
      BY <3>1, <1>w DEF Typed, NoWord, Real, Letters
    <3>2. CASE session # NoWord
      <4>1. session \in Real
        BY <3>2, <1>w, <1>x
      <4>2. /\ session = [word |-> session.word, len |-> session.len, pick |-> session.pick]
            /\ session.word \in Nat \ {0} /\ session.len \in Nat
        BY <4>1 DEF Real
      <4>3. Typed = [word |-> session.word, len |-> session.len + 1, pick |-> 0]
        BY <3>2, <4>2 DEF Typed
      <4>4. session.len + 1 \in Nat \ {0}
        BY <4>2
      <4> QED BY <4>2, <4>3, <4>4 DEF Real, Letters
    <3> QED BY <3>1, <3>2
  <2>3. /\ IsWorld(u) /\ u.session = Typed /\ u.editor = editor /\ u.doc = doc /\ u.caret = caret
        /\ u.erased = erased
    BY <1>w DEF IsWorld, Field
  <2> HIDE DEF u
  <2> QED BY <2>1, <2>2, <2>3, <1>w, StayPreview
<1>2. CASE Backspace(c)
  <2>0. /\ anchor' = NoAnchor /\ keys' = keys + 1 /\ session # NoWord /\ session \in Real
        /\ committed' = committed /\ reopened' = reopened
    BY <1>2, <1>w, <1>x DEF Backspace, Key, history
  <2>1. CASE session.len > 1
    <3> DEFINE t == [session EXCEPT !.len = @ - 1, !.pick = 0]
               u == [World EXCEPT !.session = t]
    <3>1. Run(u, <<Request("preview", c, NoWord)>>)
      BY <1>2, <2>1 DEF Backspace
    <3>2. t \in Letters
      <4> DEFINE k == session.len - 1
                 q == [session EXCEPT !.len = k]
      <4>1. k \in Nat \ {0}
        BY <2>0, <2>1 DEF Real
      <4> HIDE DEF k
      <4>2. q \in Real
        BY <2>0, <4>1 DEF Real
      <4>3. t = [q EXCEPT !.pick = 0]
        BY <2>0 DEF Real, k
      <4> HIDE DEF q
      <4>4. [q EXCEPT !.pick = 0] \in Real
        BY <4>2 DEF Real
      <4> HIDE DEF t
      <4> QED BY <4>3, <4>4, <1>y
    <3> HIDE DEF t
    <3>3. /\ IsWorld(u) /\ u.session = t /\ u.editor = editor /\ u.doc = doc /\ u.caret = caret
          /\ u.erased = erased
      BY <1>w DEF IsWorld, Field
    <3> HIDE DEF u
    <3> QED BY <2>0, <3>1, <3>2, <3>3, <1>w, StayPreview
  <2>2. CASE ~(session.len > 1)
    <3> DEFINE u == [World EXCEPT !.session = NoWord, !.popup = FALSE,
                                  !.erased = @ \union {session.word}]
               r == Request("commit", c, NoWord)
    <3>1. Run(u, <<r>>)
      BY <1>2, <2>2 DEF Backspace
    <3>2. /\ IsWorld(u) /\ u.session = NoWord /\ u.editor = editor /\ u.doc = doc /\ u.caret = caret
          /\ erased \subseteq u.erased
      BY <1>w DEF IsWorld, Field
    <3>3. Asked(r, reopened') /\ r.op = "commit"
      BY Requested
    <3> HIDE DEF u, r
    <3>4. TypedWorld(u)
      BY <1>w, <3>2, TypedAs
    <3>5. (\A n : Written(doc, n) => Written(u.doc, n)) /\ Numbers(u.doc) \subseteq Numbers(doc)
      BY <3>2
    <3> QED BY <2>0, <3>1, <3>2, <3>3, <3>4, <3>5, StayOne, StayFacts
  <2> QED BY <2>1, <2>2
<1>3. CASE MoveHighlight(c)
  <2> DEFINE t == [session EXCEPT !.pick = 1 - @]
             u == [World EXCEPT !.session.pick = 1 - @]
  <2>1. /\ Run(u, <<Request("preview", c, NoWord)>>) /\ anchor' = NoAnchor /\ keys' = keys + 1
        /\ session # NoWord /\ committed' = committed /\ reopened' = reopened
    BY <1>3 DEF MoveHighlight, Key, history
  <2>2. t \in Letters
    <3>1. session \in Real
      BY <2>1, <1>w, <1>x
    <3>2. t \in Real
      BY <3>1 DEF Real
    <3> QED BY <3>2, <1>y
  <2>3. /\ IsWorld(u) /\ u.session = t /\ u.editor = editor /\ u.doc = doc /\ u.caret = caret
        /\ u.erased = erased
    BY <1>w DEF IsWorld, Field
  <2> HIDE DEF u, t
  <2> QED BY <2>1, <2>2, <2>3, <1>w, StayPreview
<1>4. CASE SwitchEditor(c)
  <2> DEFINE u == [World EXCEPT !.editor = IF @ = NoWord THEN session ELSE NoWord]
  <2>1. /\ Run(u, <<Request("preview", c, NoWord)>>) /\ anchor' = NoAnchor /\ keys' = keys + 1
        /\ committed' = committed /\ reopened' = reopened
    BY <1>4 DEF SwitchEditor, Key, history
  <2>2. /\ IsWorld(u) /\ u.session = session /\ u.editor \in {session, NoWord} /\ u.doc = doc
        /\ u.caret = caret /\ u.erased = erased
    BY <1>w DEF IsWorld, Field
  <2> HIDE DEF u
  <2> QED BY <2>1, <2>2, <1>w, StayPreview
<1> QED BY <1>1, <1>2, <1>3, <1>4

\* More keys are only more room.
LEMMA LastsLonger ==
    ASSUME NEW w, NEW h, NEW q, Lasting(w, h, q), h.keys \in Nat, NEW g,
           g.keys \in {h.keys, h.keys + 1}, g.committed = h.committed, g.reopened = h.reopened
    PROVE  Lasting(w, g, q)
<1> DEFINE A == Cardinality(Starters(q))
           D == Cardinality(Numbers(w.doc))
<1>1. IsFiniteSet(Numbers(w.doc)) /\ D + A <= h.keys /\ IsRequests(q)
  BY DEF Lasting, Counted
<1>2. D \in Nat /\ A \in Nat
  BY <1>1, FS_CardinalityType, StartersFinite
<1> HIDE DEF A, D
<1>3. D + A <= g.keys
  BY <1>1, <1>2
<1>4. Counted(w.doc, q, g.keys)
  BY <1>1, <1>3 DEF Counted, A, D
<1> QED BY <1>4 DEF Lasting

\* Characters that are written at once, a second Backspace after a commit, keys that go on.
LEMMA IdleKeyStays ==
    ASSUME Staying, NEW c \in Context, InsertKey(c) \/ ReEditKey(c) \/ PassKey(c)
    PROVE  Stays'
<1>w. /\ IsWorld(World) /\ World.session = session /\ World.editor = editor
      /\ World.doc = doc /\ World.caret = caret /\ World.erased = erased
      /\ session \in Letters /\ editor \in Letters /\ keys \in Nat
      /\ NoWord \in Letters /\ NoAnchor \in Anchors /\ TypedWorld(World) /\ anchor \in Anchors
  BY StayFacts, WorldFields
<1>1. CASE InsertKey(c)
  <2> DEFINE r == Request("insert", c, Character)
  <2>1. /\ Run(World, <<r>>) /\ anchor' = NoAnchor /\ keys' = keys + 1
        /\ committed' = committed /\ reopened' = reopened
    BY <1>1 DEF InsertKey, Key, history
  <2>2. Asked(r, reopened')
    BY Requested
  <2> HIDE DEF r
  <2>3. /\ erased \subseteq World.erased /\ Numbers(World.doc) \subseteq Numbers(doc)
        /\ \A n : Written(doc, n) => Written(World.doc, n)
    BY <1>w
  <2> QED BY <2>1, <2>2, <2>3, <1>w, StayOne
<1>2. CASE ReEditKey(c) /\ anchor.space
  <2> DEFINE v == DeleteChar(World, c)
             h == Rest_
             g == Rest_'
  <2>1. /\ Become(v) /\ queue' = queue /\ anchor' = [anchor EXCEPT !.space = FALSE]
        /\ committed' = committed /\ reopened' = reopened /\ keys' = keys + 1
    BY <1>2 DEF ReEditKey, Key, tsf
  <2>2. /\ TypedWorld(v) /\ erased \subseteq v.erased
        /\ \A n : Written(doc, n) => Written(v.doc, n) \/ n \in v.erased
        /\ Numbers(v.doc) \subseteq Numbers(doc)
    BY <1>w, DeleteCharLasts
  <2> HIDE DEF v
  <2>3. anchor' \in Anchors
    BY <2>1, <1>w DEF Anchors
  <2>4. World' = v
    BY <2>1, <2>2, Becomes DEF TypedWorld, DocOK
  <2>5. /\ h.keys = keys /\ h.committed = committed /\ h.reopened = reopened
        /\ g.keys = keys' /\ g.committed = committed' /\ g.reopened = reopened'
    BY RestFields
  <2> HIDE DEF h, g
  <2>6. Lasting(World, h, queue)
    BY StayFacts DEF h
  <2>7. Counted(v.doc, queue, g.keys)
    <3> DEFINE A == Cardinality(Starters(queue))
               D == Cardinality(Numbers(doc))
               E == Cardinality(Numbers(v.doc))
    <3>1. IsFiniteSet(Numbers(doc)) /\ D + A <= keys /\ IsRequests(queue)
      BY <2>5, <2>6, <1>w DEF Lasting, Counted
    <3>2. IsFiniteSet(Numbers(v.doc)) /\ E <= D /\ D \in Nat /\ E \in Nat /\ A \in Nat
      BY <2>2, <3>1, FS_Subset, FS_CardinalityType, StartersFinite
    <3> HIDE DEF A, D, E
    <3>3. E + A <= keys + 1
      BY <3>1, <3>2, <1>w
    <3> QED BY <3>2, <3>3, <2>1, <2>5 DEF Counted, A, E
  <2>8. ASSUME NEW i \in 1..Len(g.committed)
        PROVE  Safe(g.committed[i].word, v, g.reopened, queue)
    <3>1. Safe(g.committed[i].word, World, h.reopened, queue)
      BY <2>1, <2>5, <2>6 DEF Lasting
    <3> DEFINE n == g.committed[i].word
    <3> HIDE DEF n
    <3>2. n \in h.reopened \/ n \in erased \/ Written(doc, n) \/ Coming(queue, n)
      BY <3>1, <1>w DEF Safe, n
    <3>3. n \in g.reopened \/ n \in v.erased \/ Written(v.doc, n) \/ Coming(queue, n)
      BY <3>2, <2>2, <2>1, <2>5
    <3> QED BY <3>3 DEF Safe, n
  <2>9. Lasting(v, g, queue)
    BY <2>1, <2>2, <2>5, <2>6, <2>7, <2>8 DEF Lasting
  <2> QED BY <2>1, <2>3, <2>4, <2>9 DEF Stays, g
<1>3. CASE ReEditKey(c) /\ ~anchor.space
  <2> DEFINE u == [World EXCEPT !.session = anchor.text]
             r == Request("reedit", c, anchor.text)
  <2>1. /\ Run(u, <<r>>) /\ anchor' = NoAnchor /\ keys' = keys + 1
        /\ committed' = committed /\ reopened' = reopened \union {anchor.text.word}
    BY <1>3 DEF ReEditKey, Key
  <2>2. anchor.text \in Letters
    BY <1>w DEF Anchors
  <2>3. Asked(r, reopened')
    BY <2>1, <2>2, Requested
  <2>4. /\ IsWorld(u) /\ u.session = anchor.text /\ u.editor = editor /\ u.doc = doc /\ u.caret = caret
        /\ u.erased = erased
    BY <1>w DEF IsWorld, Field
  <2> HIDE DEF u, r
  <2>5. TypedWorld(u)
    BY <1>w, <2>2, <2>4, TypedAs
  <2> QED BY <2>1, <2>3, <2>4, <2>5, <1>w, SameText, StayOne
<1>4. CASE PassKey(c)
  <2>1. /\ anchor' = NoAnchor /\ keys' = keys + 1 /\ queue' = queue
        /\ committed' = committed /\ reopened' = reopened /\ World' = World
    BY <1>4 DEF PassKey, screen, tsf, history, World
  <2> DEFINE w == World
             h == Rest_
             g == Rest_'
  <2>2. /\ h.keys = keys /\ h.committed = committed /\ h.reopened = reopened
        /\ g.keys = keys' /\ g.committed = committed' /\ g.reopened = reopened'
    BY RestFields
  <2>3. Lasting(w, h, queue)
    BY StayFacts
  <2> HIDE DEF w, h, g
  <2>4. Lasting(w, g, queue)
    BY <2>1, <2>2, <2>3, <1>w, LastsLonger
  <2> QED BY <2>1, <2>4, <1>w DEF Stays, w, g
<1> QED BY <1>1, <1>2, <1>3, <1>4

\* A commit of the text t, which leaves the engine empty.
LEMMA StayCommit ==
    ASSUME Staying, NEW c \in Context, NEW t \in Real, NEW s \in Suffix,
           Run(Committed(World), <<CommitRequest(c, t, s)>>),
           committed' = Append(committed, t), reopened' = reopened, keys' = keys + 1,
           anchor' \in Anchors
    PROVE  Stays'
<1> DEFINE u == Committed(World)
           r == CommitRequest(c, t, s)
<1>1. /\ IsWorld(World) /\ World.doc = doc /\ World.caret = caret /\ World.erased = erased
      /\ TypedWorld(World) /\ committed \in Seq(Real) /\ NoWord \in Letters /\ t \in Letters
  BY StayFacts, WorldFields DEF Letters
<1>2. /\ IsWorld(u) /\ u.session = NoWord /\ u.editor = NoWord /\ u.doc = doc /\ u.caret = caret
      /\ u.erased = erased
  BY <1>1 DEF Committed, IsWorld, Field
<1>3. Asked(r, reopened') /\ r.op = "commit" /\ r.text = t
  BY <1>1, CommitAsked
<1>4. Run(u, <<r>>)
  OBVIOUS
<1> HIDE DEF u, r
<1>5. TypedWorld(u)
  BY <1>1, <1>2, TypedAs
<1> QED BY <1>2, <1>3, <1>4, <1>5, SameText, StayOne

\* What is shown while a word is typed is a text.
LEMMA ShownIsText ==
    ASSUME Staying, Composing(World)
    PROVE  /\ Shown(World) \in Real /\ \A s : AnchorAfter(s) \in Anchors
<1>1. /\ World.session = session /\ World.editor = editor /\ session \in Letters /\ editor \in Letters
  BY StayFacts, WorldFields
<1>2. Shown(World) \in Real
  BY <1>1 DEF Shown, Composing, Letters
<1> QED BY <1>2 DEF AnchorAfter, NoAnchor, Anchors, Letters

\* Every key that commits, and a click on the list.
LEMMA CommitStays ==
    ASSUME Staying, ClickRow \/ \E c \in Context :
               CommitKey(c) \/ CommitThenType(c) \/ ToggleKey(c) \/ PreservedKey(c)
    PROVE  Stays'
<1>w. /\ IsWorld(World) /\ World.session = session /\ World.editor = editor
      /\ World.doc = doc /\ World.caret = caret /\ World.erased = erased
      /\ session \in Letters /\ editor \in Letters /\ keys \in Nat /\ committed \in Seq(Real)
      /\ NoWord \in Letters /\ NoAnchor \in Anchors /\ anchor \in Anchors /\ TypedWorld(World)
  BY StayFacts, WorldFields
<1>1. ASSUME NEW c \in Context, CommitKey(c) PROVE Stays'
  <2>1. /\ Composing(World) /\ committed' = Append(committed, Shown(World)) /\ keys' = keys + 1
        /\ reopened' = reopened
    BY <1>1 DEF CommitKey, Key
  <2>2. PICK s \in Suffix : /\ anchor' = AnchorAfter(s)
                            /\ Run(Committed(World), <<CommitRequest(c, Shown(World), s)>>)
    BY <1>1 DEF CommitKey
  <2>3. Shown(World) \in Real /\ anchor' \in Anchors
    BY <2>1, <2>2, ShownIsText
  <2> QED BY <2>1, <2>2, <2>3, StayCommit
<1>2. ASSUME NEW c \in Context, CommitThenType(c) PROVE Stays'
  <2> DEFINE t == [word |-> keys + 1, len |-> 1, pick |-> 0]
             u == [Committed(World) EXCEPT !.session = t]
             r == CommitRequest(c, editor, <<>>)
             s == Request("preview", c, NoWord)
             rs == <<r, s>>
  <2>1. /\ Run(u, rs) /\ anchor' = NoAnchor /\ keys' = keys + 1 /\ editor # NoWord
        /\ committed' = Append(committed, editor) /\ reopened' = reopened
    BY <1>2 DEF CommitThenType, Key
  <2>2. t \in Letters /\ editor \in Real /\ <<>> \in Suffix
    BY <2>1, <1>w DEF Letters, Real, Suffix
  <2>3. /\ IsWorld(u) /\ u.session = t /\ u.editor = NoWord /\ u.doc = doc /\ u.caret = caret
        /\ u.erased = erased
    BY <1>w DEF Committed, IsWorld, Field
  <2>4. /\ Asked(r, reopened') /\ r.op = "commit" /\ r.text = editor
        /\ Asked(s, reopened') /\ s.op = "preview"
    BY <2>2, <1>w, Requested, CommitAsked DEF Letters
  <2> HIDE DEF u, r, s, t
  <2>5. TypedWorld(u)
    BY <2>2, <2>3, <1>w, TypedAs
  <2>6. r.op \in Op /\ r.nth \in Nat /\ s.op \in Op /\ s.nth \in Nat
    BY <2>4 DEF Asked
  <2>7. IsRequests(rs) /\ Len(rs) = 2 /\ rs[1] = r /\ rs[2] = s /\ Cardinality(Starters(rs)) <= 1
    BY <2>4, <2>6, RequestsTwo, StartersFew
  <2> HIDE DEF rs
  <2>8. Cardinality(Starters(rs)) \in Nat
    BY <2>7, StartersFinite
  <2>9. Len(rs) <= 2 /\ keys + Cardinality(Starters(rs)) <= keys'
    <3>1. Len(rs) <= 2
      BY <2>7
    <3>2. keys + Cardinality(Starters(rs)) <= keys'
      BY <2>1, <2>7, <2>8, <1>w
    <3> QED BY <3>1, <3>2
  <2>10. \A i \in 1..Len(rs) : Asked(rs[i], reopened')
    <3>1. \A i \in 1..2 : i = 1 \/ i = 2
      OBVIOUS
    <3> QED BY <2>4, <2>7, <3>1
  <2>11. Coming(rs, editor.word)
    <3>1. 1 \in 1..Len(rs)
      BY <2>7
    <3> QED BY <2>2, <2>4, <2>7, <3>1 DEF Coming
  <2>12. \E e \in Real : committed' = Append(committed, e) /\ Coming(rs, e.word)
    BY <2>1, <2>2, <2>11
  <2>13. /\ erased \subseteq u.erased /\ Numbers(u.doc) \subseteq Numbers(doc)
         /\ \A n : Written(doc, n) => Written(u.doc, n)
    BY <2>3
  <2>14. reopened \subseteq reopened' /\ anchor' \in Anchors /\ Run(u, rs)
    BY <2>1, <1>w
  <2> QED BY <2>5, <2>7, <2>9, <2>10, <2>12, <2>13, <2>14, Handled
<1>3. ASSUME NEW c \in Context, NEW left \in Anchors, Toggle(c, left), keys' = keys + 1
      PROVE  Stays'
  <2>1. CASE Composing(World)
    <3>1. /\ Run(Committed(World), <<CommitRequest(c, Shown(World), <<>>)>>)
          /\ committed' = Append(committed, Shown(World)) /\ reopened' = reopened
          /\ anchor' = AnchorAfter(<<>>)
      BY <1>3, <2>1 DEF Toggle
    <3>2. <<>> \in Suffix /\ Shown(World) \in Real /\ anchor' \in Anchors
      BY <2>1, <3>1, ShownIsText DEF Suffix
    <3> QED BY <3>1, <3>2, <1>3, StayCommit
  <2>2. CASE ~Composing(World)
    <3>1. Run(World, <<>>) /\ committed' = committed /\ reopened' = reopened /\ anchor' = left
      BY <1>3, <2>2 DEF Toggle
    <3>2. /\ erased \subseteq World.erased /\ Numbers(World.doc) \subseteq Numbers(doc)
          /\ \A n : Written(doc, n) => Written(World.doc, n)
      BY <1>w
    <3> QED BY <3>1, <3>2, <1>3, <1>w, StayNone
  <2> QED BY <2>1, <2>2
<1>4. ASSUME NEW c \in Context, ToggleKey(c) \/ PreservedKey(c) PROVE Stays'
  BY <1>3, <1>4, <1>w DEF ToggleKey, PreservedKey, Key
<1>5. CASE ClickRow
  <2>1. PICK pick \in 0..1 :
          LET text == [session EXCEPT !.pick = pick]
          IN  /\ anchor' = [text |-> text, space |-> TRUE]
              /\ Run(Committed(World), <<CommitRequest(context, text, <<Plain(Space)>>)>>)
              /\ committed' = Append(committed, text)
    BY <1>5 DEF ClickRow
  <2>2. session \in Real /\ keys' = keys + 1 /\ reopened' = reopened /\ context \in Context
    BY <1>5, <1>w DEF ClickRow, Letters, Staying, Bounded
  <2> DEFINE t == [session EXCEPT !.pick = pick]
  <2>3. t \in Real
    BY <2>2 DEF Real
  <2>4. anchor' \in Anchors /\ <<Plain(Space)>> \in Suffix
    BY <2>1, <2>3 DEF Anchors, Letters, Suffix
  <2>5. /\ Run(Committed(World), <<CommitRequest(context, t, <<Plain(Space)>>)>>)
        /\ committed' = Append(committed, t)
    BY <2>1
  <2> HIDE DEF t
  <2> QED BY <2>2, <2>3, <2>4, <2>5, StayCommit
<1> QED BY <1>1, <1>2, <1>4, <1>5

\* The end of a composition takes no word away.
LEMMA EndedLasts ==
    ASSUME NEW w, TypedWorld(w), NEW c \in Context, NEW i \in DOMAIN w.doc[c], w.doc[c][i].comp # 0,
           NEW v, IsWorld(v), v.doc = [w.doc EXCEPT ![c] = Ended(w.doc[c], i)], v.caret = w.caret,
           v.session \in Letters, v.editor \in Letters
    PROVE  /\ TypedWorld(v) /\ Numbers(v.doc) \subseteq Numbers(w.doc)
           /\ \A n : Written(w.doc, n) => Written(v.doc, n)
<1> DEFINE a == w.doc[c][i]
<1>1. DocOK(w)
  BY DEF TypedWorld
<1>2. DocOK(v) /\ a \in Here(w.doc, c) /\ Edit(w.doc, v.doc, c, {a}, Freed(a))
  BY <1>1, EndedOp
<1>3. \A b \in {a} : b.comp # 0
  OBVIOUS
<1> HIDE DEF a
<1>4. Joins({a}, Freed(a))
  BY DEF Joins, Freed, Plain
<1>5. Numbers(v.doc) \subseteq Numbers(w.doc)
  BY <1>1, <1>2, <1>4, NoNewNumber DEF DocOK
<1>6. ASSUME NEW n, Written(w.doc, n) PROVE Written(v.doc, n)
  BY <1>2, <1>3, <1>6, LiveGone
<1> QED BY <1>2, <1>5, <1>6 DEF TypedWorld

\* What the host does, clicks, and the focus.
LEMMA HostStays ==
    ASSUME Staying,
           \/ SetFocus \/ \E gained \in BOOLEAN : ThreadFocus(gained)
           \/ \E c \in Context : DropDeadState(c) \/ MoveCaret(c) \/ CompositionTerminated(c) \/ CompositionLost(c)
           \/ RunQueued \/ Discard
    PROVE  Stays'
<1>w. /\ IsWorld(World) /\ World.session = session /\ World.editor = editor
      /\ World.doc = doc /\ World.caret = caret /\ World.erased = erased
      /\ session \in Letters /\ editor \in Letters /\ keys \in Nat /\ committed \in Seq(Real)
      /\ NoWord \in Letters /\ NoAnchor \in Anchors /\ anchor \in Anchors
      /\ TypedWorld(World) /\ DocOK(World)
  BY StayFacts, WorldFields
<1> DEFINE Same == committed' = committed /\ reopened' = reopened /\ anchor' \in Anchors
<1>a. ASSUME NEW u, TypedWorld(u), u.doc = doc, u.erased = erased, Run(u, <<>>) \/ FinalizeComposition(u),
             Same, keys' \in {keys, keys + 1}
      PROVE  Stays'
  <2>1. CASE Run(u, <<>>)
    BY <1>a, <2>1, StayNone
  <2>2. CASE FinalizeComposition(u)
    BY <1>a, <2>2, StayFinalize
  <2> QED BY <1>a, <2>1, <2>2
<1>1. CASE SetFocus
  BY <1>1, <1>a, <1>w DEF SetFocus, history
<1>2. ASSUME NEW c \in Context, DropDeadState(c) PROVE Stays'
  <2> DEFINE u == IF ~terminated THEN World
                  ELSE [World EXCEPT !.session = NoWord, !.editor = NoWord, !.popup = FALSE,
                                     !.composition = 0, !.compCtx = NoContext]
  <2>1. (Run(u, <<>>) \/ FinalizeComposition(u)) /\ Same /\ keys' = keys
    BY <1>2, <1>w DEF DropDeadState, bounds, history
  <2>2. /\ IsWorld(u) /\ u.doc = doc /\ u.erased = erased /\ u.caret = caret /\ u.session \in Letters
        /\ u.editor \in Letters
    BY <1>w DEF IsWorld, Field
  <2> HIDE DEF u
  <2>3. TypedWorld(u)
    BY <2>2, <1>w, TypedAs
  <2> QED BY <2>1, <2>2, <2>3, <1>a
<1>3. ASSUME NEW c \in Context, MoveCaret(c) PROVE Stays'
  <2>1. PICK at \in 0..Len(doc[c]) :
           LET u == [World EXCEPT !.caret[c] = at]
           IN  FinalizeComposition(u) \/ Run(u, <<>>)
    BY <1>3 DEF MoveCaret
  <2> DEFINE u == [World EXCEPT !.caret[c] = at]
  <2>2. DocOK(u) /\ SameWord(World, u) /\ u.doc = doc
    BY <1>w, WorldAt
  <2>3. u.erased = erased /\ u.session = session /\ u.editor = editor
    BY <1>w DEF IsWorld
  <2>4. FinalizeComposition(u) \/ Run(u, <<>>)
    BY <2>1
  <2> HIDE DEF u
  <2>5. TypedWorld(u)
    BY <2>2, <2>3, <1>w DEF TypedWorld
  <2>6. Same /\ keys' = keys
    BY <1>3, <1>w DEF MoveCaret, history
  <2> QED BY <2>2, <2>3, <2>4, <2>5, <2>6, <1>a
<1>4. ASSUME NEW c \in Context, CompositionTerminated(c) PROVE Stays'
  <2>1. PICK i \in DOMAIN doc[c], busy \in BOOLEAN :
          /\ doc[c][i].comp # 0
          /\ Run(IF busy THEN [World EXCEPT !.doc[c] = Ended(@, i)]
                 ELSE [World EXCEPT !.doc[c] = Ended(@, i), !.session = NoWord, !.editor = NoWord,
                                    !.popup = FALSE, !.composition = 0, !.compCtx = NoContext],
                 <<>>)
    BY <1>4 DEF CompositionTerminated
  <2> DEFINE u == IF busy THEN [World EXCEPT !.doc[c] = Ended(@, i)]
                  ELSE [World EXCEPT !.doc[c] = Ended(@, i), !.session = NoWord, !.editor = NoWord,
                                     !.popup = FALSE, !.composition = 0, !.compCtx = NoContext]
  <2>2. /\ IsWorld(u) /\ u.doc = [doc EXCEPT ![c] = Ended(doc[c], i)] /\ u.erased = erased
        /\ u.caret = caret /\ u.session \in Letters /\ u.editor \in Letters
    BY <1>w DEF IsWorld, Field
  <2>3. Run(u, <<>>)
    BY <2>1
  <2> HIDE DEF u
  <2>4. /\ TypedWorld(u) /\ Numbers(u.doc) \subseteq Numbers(doc)
        /\ \A n : Written(doc, n) => Written(u.doc, n)
    <3> DEFINE w == World
    <3>1. w.doc = doc /\ w.caret = caret /\ TypedWorld(w)
      BY <1>w
    <3> HIDE DEF w
    <3>2. /\ i \in DOMAIN w.doc[c] /\ w.doc[c][i].comp # 0
          /\ u.doc = [w.doc EXCEPT ![c] = Ended(w.doc[c], i)] /\ u.caret = w.caret
      BY <2>1, <2>2, <3>1
    <3>3. /\ TypedWorld(u) /\ Numbers(u.doc) \subseteq Numbers(w.doc)
          /\ \A n : Written(w.doc, n) => Written(u.doc, n)
      BY <2>2, <3>1, <3>2, EndedLasts
    <3> QED BY <3>1, <3>3
  <2>5. Same /\ keys' = keys
    BY <1>4, <1>w DEF CompositionTerminated, history
  <2> QED BY <2>2, <2>3, <2>4, <2>5, StayNone
<1>5. ASSUME NEW c \in Context, CompositionLost(c) PROVE Stays'
  <2>1. PICK i \in DOMAIN doc[c] : doc[c][i].comp # 0 /\ doc' = [doc EXCEPT ![c] = Ended(@, i)]
    BY <1>5 DEF CompositionLost
  <2>2. /\ session' = session /\ editor' = editor /\ caret' = caret /\ erased' = erased
        /\ keys' = keys /\ committed' = committed /\ reopened' = reopened /\ anchor' = anchor
        /\ queue' = queue
    BY <1>5 DEF CompositionLost, engine, tsf, history
  <2> DEFINE v == World'
             h == Rest_
             g == Rest_'
  <2>3. /\ IsWorld(v) /\ v.doc = doc' /\ v.caret = caret /\ v.erased = erased
        /\ v.session = session /\ v.editor = editor
    BY <2>2 DEF World, IsWorld, Field
  <2>4. /\ h.keys = keys /\ h.committed = committed /\ h.reopened = reopened
        /\ g.keys = keys' /\ g.committed = committed' /\ g.reopened = reopened'
    BY RestFields
  <2> HIDE DEF v, h, g
  <2>5. /\ TypedWorld(v) /\ Numbers(v.doc) \subseteq Numbers(doc)
        /\ \A n : Written(doc, n) => Written(v.doc, n)
    <3> DEFINE w == World
    <3>1. w.doc = doc /\ w.caret = caret /\ TypedWorld(w)
      BY <1>w
    <3> HIDE DEF w
    <3>2. /\ i \in DOMAIN w.doc[c] /\ w.doc[c][i].comp # 0
          /\ v.doc = [w.doc EXCEPT ![c] = Ended(w.doc[c], i)] /\ v.caret = w.caret
      BY <2>1, <2>3, <3>1
    <3>3. /\ TypedWorld(v) /\ Numbers(v.doc) \subseteq Numbers(w.doc)
          /\ \A n : Written(w.doc, n) => Written(v.doc, n)
      BY <2>3, <3>1, <3>2, <1>w, EndedLasts
    <3> QED BY <3>1, <3>3
  <2>6. Lasting(World, h, queue)
    BY StayFacts DEF h
  <2>7. Lasting(v, h, queue)
    <3>1. Counted(v.doc, queue, h.keys)
      <4> DEFINE A == Cardinality(Starters(queue))
                 D == Cardinality(Numbers(doc))
                 E == Cardinality(Numbers(v.doc))
      <4>1. IsFiniteSet(Numbers(doc)) /\ D + A <= keys /\ IsRequests(queue)
        BY <2>4, <2>6, <1>w DEF Lasting, Counted
      <4>2. IsFiniteSet(Numbers(v.doc)) /\ E <= D /\ D \in Nat /\ E \in Nat /\ A \in Nat
        BY <2>5, <4>1, FS_Subset, FS_CardinalityType, StartersFinite
      <4> HIDE DEF A, D, E
      <4>3. E + A <= keys
        BY <4>1, <4>2, <1>w
      <4> QED BY <4>2, <4>3, <2>4 DEF Counted, A, E
    <3>2. ASSUME NEW i_ \in 1..Len(h.committed) PROVE Safe(h.committed[i_].word, v, h.reopened, queue)
      <4> DEFINE n == h.committed[i_].word
      <4>1. Safe(n, World, h.reopened, queue)
        BY <2>6 DEF Lasting
      <4> HIDE DEF n
      <4>2. n \in h.reopened \/ n \in erased \/ Written(doc, n) \/ Coming(queue, n)
        BY <4>1, <1>w DEF Safe
      <4>3. n \in h.reopened \/ n \in v.erased \/ Written(v.doc, n) \/ Coming(queue, n)
        BY <4>2, <2>3, <2>5
      <4> QED BY <4>3 DEF Safe, n
    <3> QED BY <2>5, <2>6, <3>1, <3>2 DEF Lasting
  <2>8. Lasting(v, g, queue)
    BY <2>2, <2>4, <2>7, <1>w, LastsLonger
  <2> QED BY <2>2, <2>8, <1>w DEF Stays, v, g
<1>6. ASSUME NEW gained \in BOOLEAN, ThreadFocus(gained) PROVE Stays'
  <2>1. /\ session' = session /\ editor' = editor /\ caret' = caret /\ erased' = erased /\ doc' = doc
        /\ keys' = keys + 1 /\ committed' = committed /\ reopened' = reopened /\ anchor' = anchor
        /\ queue' = queue
    BY <1>6 DEF ThreadFocus, engine, tsf, history
  <2> DEFINE v == World'
             h == Rest_
             g == Rest_'
  <2>2. /\ IsWorld(v) /\ v.doc = doc /\ v.caret = caret /\ v.erased = erased
        /\ v.session = session /\ v.editor = editor
    BY <2>1 DEF World, IsWorld, Field
  <2>3. /\ h.keys = keys /\ h.committed = committed /\ h.reopened = reopened
        /\ g.keys = keys' /\ g.committed = committed' /\ g.reopened = reopened'
    BY RestFields
  <2> HIDE DEF v, h, g
  <2>4. Lasting(World, h, queue)
    BY StayFacts DEF h
  <2>5. TypedWorld(v)
    BY <2>2, <1>w, TypedAs
  <2>6. Lasting(v, h, queue)
    BY <2>2, <2>4, <2>5, <1>w DEF Lasting, Safe
  <2>7. Lasting(v, g, queue)
    BY <2>1, <2>3, <2>6, <1>w, LastsLonger
  <2> QED BY <2>1, <2>7, <1>w DEF Stays, v, g
<1>7. CASE RunQueued
  <2> DEFINE v == Apply(World, Head(queue))
             h == Rest_
             g == Rest_'
  <2>1. /\ queue # <<>> /\ Become(v) /\ queue' = Tail(queue) /\ anchor' = anchor /\ keys' = keys
        /\ committed' = committed /\ reopened' = reopened
    BY <1>7 DEF RunQueued, bounds, history
  <2>2. /\ h.keys = keys /\ h.committed = committed /\ h.reopened = reopened
        /\ g.keys = keys' /\ g.committed = committed' /\ g.reopened = reopened'
    BY RestFields
  <2> HIDE DEF h, g
  <2>3. Lasting(World, h, queue) /\ MaxKeys \in Nat /\ h.keys \in 0..MaxKeys
    BY <2>2, StayFacts DEF h
  <2>4. Lasting(v, h, Tail(queue))
    BY <2>1, <2>3, HeadLasts
  <2> HIDE DEF v
  <2>5. World' = v
    BY <2>1, <2>4, Becomes DEF Lasting, TypedWorld, DocOK
  <2>6. Lasting(v, g, Tail(queue))
    BY <2>1, <2>2, <2>4, <1>w, LastsLonger
  <2> QED BY <2>1, <2>5, <2>6, <1>w DEF Stays, g
<1>8. ~Discard
  <2>1. losses = 0 /\ losses' = 0
    BY DEF Staying
  <2> QED BY <2>1 DEF Discard
<1> QED BY <1>1, <1>2, <1>3, <1>4, <1>5, <1>6, <1>7, <1>8

\* While nothing was lost, every word that the user committed is written, or the session
\* that writes it is queued, and there is a number for every composition that queued
\* sessions may start.
StayInv == ServiceInv /\ Bounded /\ (losses = 0 => Stays)

\* It holds at first ...
LEMMA StayInit == ServiceAssumption /\ Init => StayInv
<1> SUFFICES ASSUME ServiceAssumption, Init PROVE StayInv
  OBVIOUS
<1>1. ServiceInv
  BY ServiceInit
<1>2. Bounded
  BY DEF ServiceAssumption, Bounded, Init
<1>3. /\ session = NoWord /\ editor = NoWord /\ anchor = NoAnchor /\ queue = <<>> /\ committed = <<>>
      /\ doc = [c \in Context |-> <<>>] /\ caret = [c \in Context |-> 0] /\ keys = 0
  BY DEF Init
<1> DEFINE w == World
           h == Rest_
<1>4. /\ IsWorld(w) /\ w.session = NoWord /\ w.editor = NoWord
      /\ w.doc = [c \in Context |-> <<>>] /\ w.caret = [c \in Context |-> 0]
      /\ h.keys = 0 /\ h.committed = <<>>
  BY <1>3, WorldIsWorld, WorldFields, RestFields
<1> HIDE DEF w, h
<1>5. TypedWorld(w)
  <2>1. w.doc \in [Context -> Seq(APiece)] /\ w.caret \in [Context -> Nat]
    BY <1>4, EmptySeq
  <2>2. \A c \in Context : w.caret[c] <= Len(w.doc[c])
    BY <1>4, RequestsNone
  <2> QED BY <1>4, <2>1, <2>2 DEF TypedWorld, DocOK, Letters
<1>6. Numbers(w.doc) = {}
  <2>1. \A c \in Context : Here(w.doc, c) = {}
    BY <1>4 DEF Here
  <2> QED BY <2>1 DEF Numbers, Absent
<1>7. Counted(w.doc, <<>>, h.keys)
  <2>1. Cardinality(Starters(<<>>)) = 0
    BY StartersFew
  <2>2. Counted(w.doc, <<>>, 0)
    BY <1>6, <2>1, FS_EmptySet DEF Counted
  <2> QED BY <2>2, <1>4
<1>8. Lasting(w, h, <<>>)
  <2>1. h.committed \in Seq(Real) /\ Len(h.committed) = 0
    BY <1>4, EmptySeq, RequestsNone
  <2> QED BY <1>5, <1>7, <2>1, RequestsNone DEF Lasting
<1>9. anchor \in Anchors
  BY <1>3 DEF Anchors, NoAnchor, Letters
<1> QED BY <1>1, <1>2, <1>3, <1>8, <1>9 DEF StayInv, Stays, w, h

\* ... and every step keeps it.
LEMMA StayStep ==
    ASSUME ServiceAssumption, StayInv, [Next]_vars
    PROVE  StayInv'
<1>1. ServiceInv'
  BY ServiceStep DEF StayInv
<1>2. MaxKeys \in Nat
  BY DEF ServiceAssumption
<1>3. Bounded' /\ (losses' = 0 => losses = 0)
  BY <1>2, BoundedStep DEF StayInv
<1>4. ASSUME losses' = 0 PROVE Stays'
  <2>1. Staying
    BY <1>3, <1>4 DEF Staying, StayInv, ServiceInv
  <2>2. CASE UNCHANGED vars
    <3>1. anchor' = anchor /\ World' = World /\ Rest_' = Rest_ /\ queue' = queue
      BY <2>2 DEF vars, engine, screen, tsf, bounds, history, World, Rest_
    <3>2. Stays
      BY <2>1 DEF Staying
    <3> QED BY <3>1, <3>2 DEF Stays
  <2>3. CASE Next
    BY <2>1, <2>3, WordKeyStays, IdleKeyStays, CommitStays, HostStays DEF Next, KeyDown
  <2> QED BY <2>2, <2>3
<1> QED BY <1>1, <1>3, <1>4 DEF StayInv

\* What is written is in a field.
LEMMA WrittenIsThere ==
    ASSUME ServiceAssumption, DocOK(World), NEW n, Written(doc, n)
    PROVE  Copies(n) > 0
<1>1. IsFiniteSet(Context)
  BY DEF ServiceAssumption
<1>2. InDoc(doc, n)
  BY DEF Written, InDoc
<1> QED BY <1>1, <1>2, SomeCopy

\* Whether the host grants sessions at once or queues them, in whichever order keys,
\* clicks, toggles, focus changes and ended compositions come: once the queue is empty
\* and nothing was lost, a committed word that Backspace did not reopen is in a field,
\* or the user deleted it (Commit, ReEdit, finalize_composition, `run`).
THEOREM CommittedWordsAlwaysStay ==
    ASSUME ServiceAssumption
    PROVE  Spec => []CommittedWordsStay
<1>1. ASSUME StayInv PROVE CommittedWordsStay
  <2> SUFFICES ASSUME Quiet, NEW i \in DOMAIN committed
               PROVE  committed[i].word \in reopened \/ Kept(committed[i].word)
    BY DEF CommittedWordsStay
  <2>1. queue = <<>> /\ Lasting(World, Rest_, queue)
    BY <1>1 DEF Quiet, StayInv, Stays
  <2> DEFINE n == committed[i].word
             h == Rest_
  <2>2. h.committed = committed /\ h.reopened = reopened
    BY RestFields
  <2> HIDE DEF h
  <2>3. h.committed \in Seq(Real) /\ \A j \in 1..Len(h.committed) : Safe(h.committed[j].word, World, h.reopened, queue)
    BY <2>1 DEF Lasting, h
  <2>4. i \in 1..Len(committed)
    BY <2>2, <2>3
  <2>5. Safe(n, World, reopened, <<>>)
    BY <2>1, <2>2, <2>3, <2>4
  <2> HIDE DEF n
  <2>6. ~Coming(<<>>, n)
    BY RequestsNone DEF Coming
  <2>7. n \in reopened \/ n \in erased \/ Written(doc, n)
    BY <2>5, <2>6, WorldFields DEF Safe
  <2>8. DocOK(World)
    BY <2>1 DEF Lasting, TypedWorld
  <2>9. n \in reopened \/ Kept(n)
    BY <2>7, <2>8, WrittenIsThere DEF Kept
  <2> QED BY <2>9 DEF n
<1>2. Init => StayInv
  BY StayInit
<1>3. StayInv /\ [Next]_vars => StayInv'
  BY StayStep
<1> QED BY <1>1, <1>2, <1>3, PTL DEF Spec
=============================================================================
