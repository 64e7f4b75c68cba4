------------------------------ MODULE Relayout ------------------------------
(***************************************************************************)
(* Where the popup stands (anchor.rs, update_text_rect) and how it follows *)
(* the word (OnLayoutChange and DocOp::Relayout, service.rs).              *)
(*                                                                         *)
(* TSF and the application share one thread: TSF runs its queued sessions  *)
(* and reports layout changes before the application's message loop turns  *)
(* again.  In some applications reading a position is reported as a layout *)
(* change itself, the echo.                                                *)
(***************************************************************************)
EXTENDS Naturals, SequencesExt

CONSTANTS
    Place,             \* where the application can put the word
    Elsewhere,         \* the caret or the pointer, when the application gives no place
    RELAYOUT_BUDGET,
    MaxQueue,          \* bound on the sessions queued in TSF
    MaxInbox           \* bound on the messages the application has not handled

VARIABLES
    pos,        \* where the word is, or would be
    shown,      \* State::text_rect
    known,      \* State::rect_known
    composing, started, editor,   \* a word is typed, its composition exists, the editor is open
    visible,    \* the popup is
    queue,      \* TSF's queue of our sessions, in order
    queued,     \* relayout_queued
    settled,    \* layout_settled
    budget,     \* relayout_budget
    note,       \* a layout change TSF has not reported yet: "none", "echo", "real"
    inbox,      \* the application's messages: "move" of its own, our "marker"
    idleReads,  \* re-reads since the last turn or preview that found the word in place
    blind       \* the place shown may be wrong with good reason: no answer, or a move we were right not to see

word == <<composing, started, editor>>
vars == <<pos, shown, known, word, visible, queue, queued, settled, budget, note, inbox, idleReads, blind>>

Answers == {"place", "none"}       \* GetTextExt; none: no layout, the origin, no monitor

-----------------------------------------------------------------------------
(* update_text_rect: the application's answer, else the last one, else the *)
(* caret or the pointer, which a re-read never takes.                      *)

Chosen(answer, follow) ==
    IF answer = "place" THEN {pos}
    ELSE IF known \/ follow THEN {shown} ELSE {Elsewhere}

\* before: what of the layout TSF has still to report.
Ask(answer, follow, before) ==
    /\ shown' \in Chosen(answer, follow)
    /\ known' = (known \/ answer = "place")
    /\ blind' = (answer = "none")
    /\ note' \in {before, IF before = "none" THEN "echo" ELSE before}

DontAsk(before) == UNCHANGED <<shown, known, blind>> /\ note' = before

-----------------------------------------------------------------------------
(* The sessions.                                                           *)

\* DocOp::Preview: the diacritics editor's previews do not ask again.
Preview ==
    IF ~composing THEN DontAsk(note) /\ UNCHANGED <<started, visible, settled, budget, idleReads>>
    ELSE /\ \E restarted \in IF started THEN BOOLEAN ELSE {TRUE}, answer \in Answers :
               IF editor /\ known /\ ~restarted THEN DontAsk(note) ELSE Ask(answer, FALSE, note)
         /\ started' = TRUE /\ budget' = RELAYOUT_BUDGET /\ settled' = FALSE
         /\ visible' = TRUE /\ idleReads' = 0

ReadUnsettled(before) ==   \* mutant: a re-read that found no move does not settle
    IF ~(composing /\ started)
    THEN DontAsk(before) /\ UNCHANGED <<visible, settled, inbox, idleReads>>
    ELSE /\ \E answer \in Answers : Ask(answer, TRUE, before)
         /\ IF shown' # shown
            THEN visible' = TRUE /\ UNCHANGED <<settled, inbox, idleReads>>
            ELSE /\ inbox' = Append(inbox, "marker") /\ idleReads' = idleReads + 1
                 /\ UNCHANGED <<settled, visible>>

\* DocOp::Relayout: a move shows the popup again; no move settles until the
\* marker comes back.
Read(before) ==
    IF ~(composing /\ started)
    THEN DontAsk(before) /\ UNCHANGED <<visible, settled, inbox, idleReads>>
    ELSE /\ \E answer \in Answers : Ask(answer, TRUE, before)
         /\ IF shown' # shown
            THEN visible' = TRUE /\ UNCHANGED <<settled, inbox, idleReads>>
            ELSE /\ settled' = TRUE /\ inbox' = Append(inbox, "marker")
                 /\ idleReads' = idleReads + 1 /\ UNCHANGED visible

\* TSF runs the session at the head of its queue; a Relayout's mark goes with it.
RunSession ==
    /\ queue # <<>> /\ queue' = Tail(queue)
    /\ IF Head(queue) = "preview" THEN Preview /\ UNCHANGED <<queued, inbox>>
       ELSE Read(note) /\ queued' = FALSE /\ UNCHANGED <<started, budget>>
    /\ UNCHANGED <<pos, composing, editor>>

DiscardKeepingMark ==   \* mutant: only running the session clears the mark
    /\ queue # <<>> /\ queue' = Tail(queue) /\ blind' = TRUE
    /\ UNCHANGED <<pos, shown, known, word, visible, queued, settled, budget, note, inbox, idleReads>>

\* TSF releases a session without running it: ClearOnDrop clears its mark.
Discard ==
    /\ queue # <<>> /\ queue' = Tail(queue) /\ blind' = TRUE
    /\ queued' = (queued /\ Head(queue) # "relayout")
    /\ UNCHANGED <<pos, shown, known, word, visible, settled, budget, note, inbox, idleReads>>

-----------------------------------------------------------------------------
(* TSF reports a layout change.  A session run at once is one queued and    *)
(* run next; one the host refuses is one discarded.                        *)

Follows == ~queued /\ ~settled /\ budget > 0 /\ composing /\ visible

OnLayoutChange ==
    /\ note # "none" /\ note' = "none"
    /\ IF Follows
       THEN /\ Len(queue) < MaxQueue /\ queue' = Append(queue, "relayout") /\ queued' = TRUE
            /\ budget' = budget - 1 /\ UNCHANGED blind
       ELSE /\ blind' = (blind \/ (note = "real" /\ (settled \/ budget = 0 \/ ~visible)))
            /\ UNCHANGED <<queue, queued, budget>>
    /\ UNCHANGED <<pos, shown, known, word, visible, settled, inbox, idleReads>>

-----------------------------------------------------------------------------
(* The application's message loop turns, once TSF has nothing to report.   *)

Turn == note = "none"

AppPosts ==
    /\ Turn /\ Len(inbox) < MaxInbox /\ inbox' = Append(inbox, "move")
    /\ UNCHANGED <<pos, shown, known, word, visible, queue, queued, settled, budget, note, idleReads, blind>>

AppMoves ==
    /\ Turn /\ inbox # <<>> /\ Head(inbox) = "move" /\ inbox' = Tail(inbox)
    /\ pos' \in Place \ {pos} /\ note' = "real"
    /\ UNCHANGED <<shown, known, word, visible, queue, queued, settled, budget, idleReads, blind>>

\* WM_T3A_PUMPED.
Pumped ==
    /\ Turn /\ inbox # <<>> /\ Head(inbox) = "marker" /\ inbox' = Tail(inbox)
    /\ settled' = FALSE /\ idleReads' = 0
    /\ UNCHANGED <<pos, shown, known, word, visible, queue, queued, budget, note, blind>>

\* A key of the word, or one that opens or closes the editor.
Key ==
    /\ Turn /\ Len(queue) < MaxQueue /\ Len(inbox) < MaxInbox
    /\ composing' = TRUE /\ editor' \in IF composing THEN BOOLEAN ELSE {FALSE}
    /\ queue' = Append(queue, "preview")
    /\ UNCHANGED <<pos, shown, known, started, visible, queued, settled, budget, note, inbox, idleReads, blind>>

\* A commit, or the word's end without one; after OnSetFocus the place is not
\* known any more.
EndWord ==
    /\ Turn /\ composing /\ composing' = FALSE /\ started' = FALSE /\ editor' = FALSE
    /\ visible' = FALSE /\ known' \in {known, FALSE}
    /\ UNCHANGED <<pos, shown, queue, queued, settled, budget, note, inbox, idleReads, blind>>

\* OnKillThreadFocus and OnSetThreadFocus: the place is not read again.
ThreadFocus ==
    /\ Turn /\ composing
    /\ visible' = ~visible
    /\ UNCHANGED <<pos, shown, known, word, queue, queued, settled, budget, note, inbox, idleReads, blind>>

Init ==
    /\ pos = (CHOOSE p \in Place : TRUE) /\ shown = Elsewhere /\ known = FALSE
    /\ composing = FALSE /\ started = FALSE /\ editor = FALSE /\ visible = FALSE
    /\ queue = <<>> /\ queued = FALSE /\ settled = FALSE /\ budget = 0
    /\ note = "none" /\ inbox = <<>> /\ idleReads = 0 /\ blind = FALSE

Next ==
    \/ RunSession \/ Discard \/ OnLayoutChange
    \/ AppPosts \/ AppMoves \/ Pumped \/ Key \/ EndWord \/ ThreadFocus

Spec == Init /\ [][Next]_vars

-----------------------------------------------------------------------------
(* Properties.                                                             *)

\* Re-reads do not feed on their own echoes ("A notification must never be able
\* to feed itself", docs/02-tsf-integration.md 9): after one that found the word
\* in place there is none until the application's loop turned or a key came, in
\* whatever order sessions are queued, run and discarded.
EchoesEnd == idleReads <= 1

\* Once nothing is on its way the popup stands where the word is, however the
\* application moved it, unless it gave no place, or the move came while
\* notifications were ignored, the budget spent or the popup hidden.
FollowsTheWord ==
    queue = <<>> /\ note = "none" /\ composing /\ visible /\ ~blind => shown = pos

=============================================================================
