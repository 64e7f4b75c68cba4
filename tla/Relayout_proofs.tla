-------------------------- MODULE Relayout_proofs --------------------------
(***************************************************************************)
(* Theorems about Relayout, whatever the budget, the places and the        *)
(* lengths of the queues: its re-reads of the position do not feed on      *)
(* their own echoes, and still the popup follows the word.                 *)
(***************************************************************************)
EXTENDS Relayout, TLAPS

Ops == {"preview", "relayout"}

\* No Relayout is queued, of a sequence of sessions.
NoRelayout(q) == \A i \in DOMAIN q : q[i] # "relayout"

\* The inductive invariant: the mark stands for the one Relayout in the queue,
\* there is none once a re-read has settled, and only that one is counted.
Inv ==
    /\ queue \in Seq(Ops)
    /\ \A i, j \in DOMAIN queue : queue[i] = "relayout" /\ queue[j] = "relayout" => i = j
    /\ ~queued => NoRelayout(queue)
    /\ settled => NoRelayout(queue)
    /\ idleReads \in {0, 1}
    /\ idleReads = 1 => settled

\* Running or discarding the first session leaves the others as they were.
LEMMA TailKeeps ==
    ASSUME NEW q \in Seq(Ops), q # <<>>,
           \A i, j \in DOMAIN q : q[i] = "relayout" /\ q[j] = "relayout" => i = j
    PROVE  /\ Head(q) \in Ops /\ Tail(q) \in Seq(Ops)
           /\ \A i, j \in DOMAIN Tail(q) : Tail(q)[i] = "relayout" /\ Tail(q)[j] = "relayout" => i = j
           /\ Head(q) = "relayout" => NoRelayout(Tail(q))
           /\ NoRelayout(q) => NoRelayout(Tail(q)) /\ Head(q) # "relayout"
<1>1. /\ Head(q) \in Ops /\ Head(q) = q[1] /\ Tail(q) \in Seq(Ops)
      /\ 1 \in DOMAIN q /\ DOMAIN q = 1 .. Len(q) /\ DOMAIN Tail(q) = 1 .. Len(q) - 1
      /\ \A i \in DOMAIN Tail(q) : Tail(q)[i] = q[i + 1] /\ i + 1 \in DOMAIN q /\ i + 1 # 1
  OBVIOUS
<1>2. ASSUME NEW i \in DOMAIN Tail(q), NEW j \in DOMAIN Tail(q),
             Tail(q)[i] = "relayout", Tail(q)[j] = "relayout"
      PROVE  i = j
  BY <1>1, <1>2
<1> QED BY <1>1, <1>2 DEF NoRelayout

\* Queueing a Preview adds no Relayout, and a Relayout is queued where there is
\* none.
LEMMA AppendKeeps ==
    ASSUME NEW q \in Seq(Ops), NEW op \in Ops,
           \A i, j \in DOMAIN q : q[i] = "relayout" /\ q[j] = "relayout" => i = j,
           op = "relayout" => NoRelayout(q)
    PROVE  /\ Append(q, op) \in Seq(Ops)
           /\ \A i, j \in DOMAIN Append(q, op) :
                 Append(q, op)[i] = "relayout" /\ Append(q, op)[j] = "relayout" => i = j
           /\ op = "preview" /\ NoRelayout(q) => NoRelayout(Append(q, op))
<1>1. /\ Append(q, op) \in Seq(Ops) /\ DOMAIN q = 1 .. Len(q)
      /\ DOMAIN Append(q, op) = 1 .. Len(q) + 1 /\ Append(q, op)[Len(q) + 1] = op
      /\ \A i \in DOMAIN q : Append(q, op)[i] = q[i]
  OBVIOUS
<1>2. \A i \in DOMAIN Append(q, op) : i \in DOMAIN q \/ i = Len(q) + 1
  BY <1>1
<1> QED BY <1>1, <1>2 DEF NoRelayout

\* Every step keeps the invariant.
LEMMA InvStep == Inv /\ [Next]_vars => Inv'
<1> SUFFICES ASSUME Inv, [Next]_vars PROVE Inv'
  OBVIOUS
<1>1. CASE RunSession
  <2>1. queue # <<>> /\ queue' = Tail(queue)
    BY <1>1 DEF RunSession
  <2>2. /\ queue' \in Seq(Ops)
        /\ \A i, j \in DOMAIN queue' : queue'[i] = "relayout" /\ queue'[j] = "relayout" => i = j
        /\ Head(queue) \in Ops /\ (Head(queue) = "relayout" => NoRelayout(queue'))
        /\ NoRelayout(queue) => NoRelayout(queue') /\ Head(queue) # "relayout"
    BY <2>1, TailKeeps DEF Inv
  <2>3. CASE Head(queue) = "preview"
    <3>1. /\ queued' = queued
          /\ (settled' = settled /\ idleReads' = idleReads) \/ (settled' = FALSE /\ idleReads' = 0)
      BY <1>1, <2>3 DEF RunSession, Preview
    <3> QED BY <2>2, <3>1 DEF Inv
  <2>4. CASE Head(queue) = "relayout"
    <3>1. /\ queued' = FALSE
          /\ (settled' = settled /\ idleReads' = idleReads)
             \/ (settled' = TRUE /\ idleReads' = idleReads + 1)
      BY <1>1, <2>4 DEF RunSession, Read
    <3>2. ~settled /\ idleReads = 0
      BY <2>2, <2>4 DEF Inv
    <3> QED BY <2>2, <2>4, <3>1, <3>2 DEF Inv
  <2> QED BY <2>2, <2>3, <2>4 DEF Ops
<1>2. CASE Discard
  <2>1. /\ queue # <<>> /\ queue' = Tail(queue) /\ settled' = settled /\ idleReads' = idleReads
        /\ queued' = (queued /\ Head(queue) # "relayout")
    BY <1>2 DEF Discard
  <2>2. /\ queue' \in Seq(Ops)
        /\ \A i, j \in DOMAIN queue' : queue'[i] = "relayout" /\ queue'[j] = "relayout" => i = j
        /\ Head(queue) = "relayout" => NoRelayout(queue')
        /\ NoRelayout(queue) => NoRelayout(queue')
    BY <2>1, TailKeeps DEF Inv
  <2> QED BY <2>1, <2>2 DEF Inv
<1>3. CASE OnLayoutChange
  <2>1. settled' = settled /\ idleReads' = idleReads
    BY <1>3 DEF OnLayoutChange
  <2>2. CASE Follows
    <3>1. queue' = Append(queue, "relayout") /\ queued' = TRUE /\ ~queued /\ ~settled
      BY <1>3, <2>2 DEF OnLayoutChange, Follows
    <3>2. /\ queue' \in Seq(Ops)
          /\ \A i, j \in DOMAIN queue' : queue'[i] = "relayout" /\ queue'[j] = "relayout" => i = j
      BY <3>1, AppendKeeps DEF Inv, Ops
    <3> QED BY <2>1, <3>1, <3>2 DEF Inv
  <2>3. CASE ~Follows
    <3>1. queue' = queue /\ queued' = queued
      BY <1>3, <2>3 DEF OnLayoutChange
    <3> QED BY <2>1, <3>1 DEF Inv
  <2> QED BY <2>2, <2>3
<1>4. CASE Key
  <2>1. queue' = Append(queue, "preview") /\ queued' = queued /\ settled' = settled /\ idleReads' = idleReads
    BY <1>4 DEF Key
  <2>2. /\ queue' \in Seq(Ops)
        /\ \A i, j \in DOMAIN queue' : queue'[i] = "relayout" /\ queue'[j] = "relayout" => i = j
        /\ NoRelayout(queue) => NoRelayout(queue')
    BY <2>1, AppendKeeps DEF Inv, Ops
  <2> QED BY <2>1, <2>2 DEF Inv
<1>5. CASE Pumped
  BY <1>5 DEF Pumped, Inv
<1>6. CASE AppPosts \/ AppMoves \/ EndWord \/ ThreadFocus \/ UNCHANGED vars
  <2>1. UNCHANGED <<queue, queued, settled, idleReads>>
    BY <1>6 DEF AppPosts, AppMoves, EndWord, ThreadFocus, vars
  <2> QED BY <2>1 DEF Inv
<1> QED BY <1>1, <1>2, <1>3, <1>4, <1>5, <1>6 DEF Next

\* Between two turns of the application's loop, or two previews, at most one
\* re-read finds the word in place, for any budget, any queue and any number of
\* echoes (OnLayoutChange, DocOp::Relayout, ClearOnDrop).
THEOREM EchoesNeverFeed == Spec => []EchoesEnd
<1>1. Init => Inv
  BY DEF Init, Inv, NoRelayout
<1>2. Inv => EchoesEnd
  BY DEF Inv, EchoesEnd
<1> QED BY <1>1, <1>2, InvStep, PTL DEF Spec

-----------------------------------------------------------------------------
(* The popup follows the word.                                             *)

Has(q, op) == \E i \in DOMAIN q : q[i] = op

\* What is still on its way when the place shown is not the word's: a report of the
\* move, or the re-read the mark stands for; before the composition exists, the
\* preview that starts it.
OnItsWay ==
    /\ budget \in Nat
    /\ visible \/ started => composing
    /\ queued => Has(queue, "relayout")
    /\ composing /\ ~started /\ ~blind => Has(queue, "preview")
    /\ composing /\ started /\ ~blind => shown = pos \/ note = "real" \/ Has(queue, "relayout")

\* A session that is not the first stays queued.
LEMMA HasTail ==
    ASSUME NEW q \in Seq(Ops), q # <<>>, NEW op, Has(q, op), Head(q) # op
    PROVE  Has(Tail(q), op)
<1>1. PICK i \in DOMAIN q : q[i] = op
  BY DEF Has
<1>2. DOMAIN q = 1..Len(q) /\ DOMAIN Tail(q) = 1..Len(q) - 1 /\ Head(q) = q[1] /\ i # 1 /\ Len(q) \in Nat
  BY <1>1
<1>3. i - 1 \in DOMAIN Tail(q) /\ Tail(q)[i - 1] = q[i]
  BY <1>1, <1>2
<1> QED BY <1>1, <1>3 DEF Has

\* Queueing keeps what is queued, and adds the session.
LEMMA HasAppend ==
    ASSUME NEW q \in Seq(Ops), NEW op \in Ops
    PROVE  Has(Append(q, op), op) /\ \A o \in Ops : Has(q, o) => Has(Append(q, op), o)
<1>1. /\ DOMAIN q = 1..Len(q) /\ DOMAIN Append(q, op) = 1..Len(q) + 1 /\ Len(q) \in Nat
      /\ Append(q, op)[Len(q) + 1] = op /\ \A i \in DOMAIN q : Append(q, op)[i] = q[i]
  OBVIOUS
<1>2. Len(q) + 1 \in DOMAIN Append(q, op) /\ \A i \in DOMAIN q : i \in DOMAIN Append(q, op)
  BY <1>1
<1> QED BY <1>1, <1>2 DEF Has

\* Asking finds the word, or leaves a reason why not; a move not yet reported stays so.
LEMMA AskFinds ==
    ASSUME NEW answer, NEW follow, NEW before, Ask(answer, follow, before), answer \in Answers
    PROVE  (blind' \/ shown' = pos) /\ (before = "real" => note' = "real")
<1>1. (before = "real" => note' = "real") /\ blind' = (answer = "none") /\ shown' \in Chosen(answer, follow)
  BY DEF Ask
<1>2. answer = "place" => Chosen(answer, follow) = {pos}
  BY DEF Chosen
<1> QED BY <1>1, <1>2 DEF Answers

\* A session run keeps what is on its way.
LEMMA RunKeepsOnItsWay ==
    ASSUME RELAYOUT_BUDGET \in Nat, Inv, OnItsWay, RunSession
    PROVE  OnItsWay'
<1>1. queue # <<>> /\ queue' = Tail(queue) /\ queue \in Seq(Ops) /\ UNCHANGED <<pos, composing, editor>>
  BY DEF RunSession, Inv
<1>2. Head(queue) \in Ops
  BY <1>1, TailKeeps DEF Inv
<1>3. \A op \in Ops : Has(queue, op) /\ Head(queue) # op => Has(queue', op)
  BY <1>1, HasTail
<1>4. CASE Head(queue) = "preview"
  <2>1. Preview /\ queued' = queued
    BY <1>4 DEF RunSession
  <2>2. Has(queue, "relayout") => Has(queue', "relayout")
    BY <1>3, <1>4 DEF Ops
  <2>3. CASE ~composing
    <3>1. UNCHANGED <<pos, shown, known, composing, started, visible, queued, budget, note, blind>>
      BY <1>1, <2>1, <2>3 DEF Preview, DontAsk
    <3> QED BY <2>2, <2>3, <3>1 DEF OnItsWay
  <2>4. CASE composing
    <3>1. started' /\ composing' /\ budget' \in Nat
      BY <1>1, <2>1, <2>4 DEF Preview
    <3>2. CASE started /\ DontAsk(note)
      <4>1. UNCHANGED <<pos, shown, blind, note>>
        BY <1>1, <3>2 DEF DontAsk
      <4> QED BY <2>1, <2>2, <2>4, <3>1, <3>2, <4>1 DEF OnItsWay
    <3>3. CASE \E answer \in Answers : Ask(answer, FALSE, note)
      <4>1. blind' \/ shown' = pos'
        BY <1>1, <3>3, AskFinds
      <4> QED BY <2>1, <2>2, <3>1, <4>1 DEF OnItsWay
    <3> QED BY <2>1, <2>4, <3>2, <3>3 DEF Preview
  <2> QED BY <2>3, <2>4
<1>5. CASE Head(queue) = "relayout"
  <2>1. Read(note) /\ queued' = FALSE /\ UNCHANGED <<started, budget>>
    BY <1>5 DEF RunSession
  <2>2. Has(queue, "preview") => Has(queue', "preview")
    BY <1>3, <1>5 DEF Ops
  <2>3. CASE ~(composing /\ started)
    <3>1. UNCHANGED <<composing, started, visible, budget, blind>>
      BY <1>1, <2>1, <2>3 DEF Read, DontAsk
    <3> QED BY <2>1, <2>2, <2>3, <3>1 DEF OnItsWay
  <2>4. CASE composing /\ started
    <3>1. \E answer \in Answers : Ask(answer, TRUE, note)
      BY <2>1, <2>4 DEF Read
    <3>2. blind' \/ shown' = pos'
      BY <1>1, <3>1, AskFinds
    <3> QED BY <1>1, <2>1, <2>4, <3>2 DEF OnItsWay
  <2> QED BY <2>3, <2>4
<1> QED BY <1>2, <1>4, <1>5 DEF Ops

\* Every step keeps what is on its way.
LEMMA OnItsWayStep ==
    ASSUME RELAYOUT_BUDGET \in Nat, Inv, OnItsWay, [Next]_vars
    PROVE  OnItsWay'
<1>1. CASE RunSession
  BY <1>1, RunKeepsOnItsWay
<1>2. CASE Discard
  <2>1. /\ queue # <<>> /\ queue' = Tail(queue) /\ queue \in Seq(Ops) /\ blind'
        /\ UNCHANGED <<composing, started, visible, budget>> /\ queued' = (queued /\ Head(queue) # "relayout")
    BY <1>2 DEF Discard, word, Inv
  <2>2. queued' => Has(queue', "relayout")
    BY <2>1, HasTail DEF OnItsWay
  <2> QED BY <2>1, <2>2 DEF OnItsWay
<1>3. CASE OnLayoutChange
  <2>1. queue \in Seq(Ops) /\ UNCHANGED <<pos, shown, composing, started, visible>> /\ note # "none"
    BY <1>3 DEF OnLayoutChange, word, Inv
  <2>2. CASE Follows
    <3>1. queue' = Append(queue, "relayout") /\ blind' = blind /\ budget' = budget - 1 /\ budget > 0
      BY <1>3, <2>2 DEF OnLayoutChange, Follows
    <3>2. Has(queue', "relayout") /\ (Has(queue, "preview") => Has(queue', "preview"))
      BY <2>1, <3>1, HasAppend DEF Ops
    <3> QED BY <2>1, <3>1, <3>2 DEF OnItsWay
  <2>3. CASE ~Follows
    <3>1. /\ UNCHANGED <<queue, queued, budget>>
          /\ blind' = (blind \/ (note = "real" /\ (settled \/ budget = 0 \/ ~visible)))
      BY <1>3, <2>3 DEF OnLayoutChange
    <3>2. ~blind' /\ note = "real" /\ composing => Has(queue, "relayout")
      <4> SUFFICES ASSUME ~blind', note = "real", composing, ~queued PROVE FALSE
        BY DEF OnItsWay
      <4>1. ~settled /\ budget # 0 /\ visible
        BY <3>1
      <4>2. budget > 0
        BY <4>1 DEF OnItsWay
      <4> QED BY <2>3, <4>1, <4>2 DEF Follows
    <3> QED BY <2>1, <3>1, <3>2 DEF OnItsWay
  <2> QED BY <2>2, <2>3
<1>4. CASE Key
  <2>1. /\ queue \in Seq(Ops) /\ queue' = Append(queue, "preview") /\ composing'
        /\ UNCHANGED <<pos, shown, started, visible, queued, budget, note, blind>>
    BY <1>4 DEF Key, Inv
  <2>2. Has(queue', "preview") /\ (Has(queue, "relayout") => Has(queue', "relayout"))
    BY <2>1, HasAppend DEF Ops
  <2> QED BY <2>1, <2>2 DEF OnItsWay
<1>5. CASE AppMoves
  BY <1>5 DEF AppMoves, word, OnItsWay
<1>6. CASE EndWord
  BY <1>6 DEF EndWord, OnItsWay
<1>7. CASE ThreadFocus
  BY <1>7 DEF ThreadFocus, word, OnItsWay
<1>8. CASE AppPosts \/ Pumped \/ UNCHANGED vars
  <2>1. UNCHANGED <<pos, shown, composing, started, visible, queue, queued, budget, note, blind>>
    BY <1>8 DEF AppPosts, Pumped, word, vars
  <2> QED BY <2>1 DEF OnItsWay
<1> QED BY <1>1, <1>2, <1>3, <1>4, <1>5, <1>6, <1>7, <1>8 DEF Next

\* Once nothing is on its way the popup stands where the word is, for every place and
\* every order of sessions, reports and messages (update_text_rect, OnLayoutChange,
\* DocOp::Relayout, ClearOnDrop).
THEOREM PopupFollowsTheWord ==
    ASSUME RELAYOUT_BUDGET \in Nat
    PROVE  Spec => []FollowsTheWord
<1>1. Init => Inv /\ OnItsWay
  BY DEF Init, Inv, NoRelayout, OnItsWay
<1>2. OnItsWay => FollowsTheWord
  <2> SUFFICES ASSUME OnItsWay, queue = <<>>, note = "none", composing, visible, ~blind PROVE shown = pos
    BY DEF FollowsTheWord
  <2>1. ~Has(queue, "preview") /\ ~Has(queue, "relayout")
    BY DEF Has
  <2> QED BY <2>1 DEF OnItsWay
<1>3. Inv /\ OnItsWay /\ [Next]_vars => Inv' /\ OnItsWay'
  BY InvStep, OnItsWayStep
<1> QED BY <1>1, <1>2, <1>3, PTL DEF Spec
=============================================================================
