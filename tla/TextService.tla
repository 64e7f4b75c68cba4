---------------------------- MODULE TextService ----------------------------
(***************************************************************************)
(* The text service of one thread (crates/t3a-tip/src/win/service.rs): key *)
(* handlers change the engine's word at once and change the document only  *)
(* through edit sessions (`run`), which TSF grants at once, queues, or     *)
(* loses.  Handlers are atomic: they run on one thread and hold no borrow  *)
(* of the state across a call into TSF.                                    *)
(*                                                                         *)
(* A document is a sequence of pieces of text, each perhaps the range of a *)
(* live composition; the caret is the number of pieces before it.  A text  *)
(* is the word it comes from, how many letters were typed and which        *)
(* candidate is highlighted: the engine is a function of these.            *)
(***************************************************************************)
EXTENDS Naturals, Sequences, SequencesExt, FiniteSets

CONSTANTS
    Context,    \* text fields of the thread (ITfContext)
    Deferred,   \* TRUE: the host may refuse a synchronous lock, so TSF queues sessions
    MaxKeys,    \* bound: keys, clicks on the popup and focus changes of the user
    MaxLen,     \* bound: letters of a word
    MaxClicks,  \* bound: caret moves by mouse or by the app
    MaxEnded,   \* bound: compositions the host ends or invalidates
    MaxLosses   \* bound: sessions that are refused, or discarded unrun

NoContext == "no context"

ASSUME ServiceAssumption ==
    /\ Context # {} /\ IsFiniteSet(Context) /\ NoContext \notin Context
    /\ Deferred \in BOOLEAN
    /\ MaxKeys \in Nat /\ MaxLen \in Nat \ {0} /\ MaxClicks \in Nat
    /\ MaxEnded \in Nat /\ MaxLosses \in Nat

Text == [word : 0..MaxKeys, len : 0..MaxLen, pick : 0..1]
NoWord == [word |-> 0, len |-> 0, pick |-> 0]
Space == NoWord                                  \* the space after a committed word
Character == [word |-> 0, len |-> 1, pick |-> 0] \* an inserted character or mark
NoAnchor == [text |-> NoWord, space |-> FALSE]
Piece == [text : Text, comp : Nat]

VARIABLES
    session,     \* State::session: the word being typed, NoWord when empty
    editor,      \* State::tashkeel: the word in the diacritics editor, NoWord for None
    composition, \* State::composition: number of the composition, 0 for None
    compCtx,     \* State::comp_ctx
    anchor,      \* State::anchor: the committed text and whether its space is left
    context,     \* State::context: where the last eaten key came from
    popup,       \* the list or the editor is on screen
    arabic,      \* State::arabic_mode
    terminated,  \* TextService::terminated
    pending,     \* TextService::pending
    doc,         \* the text of each field
    caret,       \* its caret
    queue,       \* sessions TSF has accepted and not run yet, oldest first
    keys, clicks, ended, losses, \* bound counters
    committed,   \* history: texts in the order the user committed them
    landed,      \* history: commits (by number) in the order their sessions ran
    reopened,    \* history: words that Backspace reopened
    crossed,     \* history: Ctrl+Space came from another field than the word's
    erased,      \* history: words the user deleted letter by letter
    finalized    \* history: words on screen when finalize_composition left them there

engine == <<session, editor, anchor, context, arabic, terminated>>
screen == <<doc, caret, composition, compCtx, popup, landed, erased, finalized>>
tsf == <<queue, pending, losses>>
bounds == <<keys, clicks, ended>>
history == <<committed, reopened, crossed>>
vars == <<engine, screen, tsf, bounds, history>>

-----------------------------------------------------------------------------
(* Edit sessions: what `apply` does to the document and the state.         *)

\* What an edit session reads and writes.
World == [session |-> session, editor |-> editor, composition |-> composition,
          compCtx |-> compCtx, popup |-> popup, doc |-> doc, caret |-> caret,
          landed |-> landed, erased |-> erased, finalized |-> finalized]

Composing(w) == w.session # NoWord \/ w.editor # NoWord

\* preview_text: the word that the field shows and that Enter commits.
Shown(w) == IF w.editor # NoWord THEN w.editor ELSE w.session

Lives(d, n) == n # 0 /\ \E i \in DOMAIN d : d[i].comp = n
Place(d, n) == CHOOSE i \in DOMAIN d : d[i].comp = n
Fresh(w) == CHOOSE n \in 1..MaxKeys + 1 : \A c \in Context : ~Lives(w.doc[c], n)

\* insert_at_caret: at the selection of c, caret after it.
InsertAtCaret(w, c, pieces) ==
    [w EXCEPT !.doc[c] = SubSeq(@, 1, w.caret[c]) \o pieces
                         \o SubSeq(@, w.caret[c] + 1, Len(@)),
              !.caret[c] = @ + Len(pieces)]

Plain(t) == [text |-> t, comp |-> 0]

\* Our composition still takes text in c: comp_ctx is c or not known, and
\* SetText works, which needs a live range in the context of the edit cookie.
TakesText(w, c) == w.compCtx \in {NoContext, c} /\ Lives(w.doc[c], w.composition)

\* SetText on the composition's range; the caret goes to its end.
SetText(w, c, t, n) ==
    LET at == Place(w.doc[c], w.composition)
    IN  [w EXCEPT !.doc[c][at] = [text |-> t, comp |-> n], !.caret[c] = at]

\* start_composition at the caret of c, showing the word.
StartComposition(w, c) ==
    LET n == Fresh(w)
    IN  [InsertAtCaret(w, c, <<[text |-> Shown(w), comp |-> n]>>)
            EXCEPT !.composition = n, !.compCtx = c]

\* DocOp::Preview: the word as it is when the session runs, not when requested.
Preview(w, c) ==
    IF ~Composing(w) THEN w
    ELSE [IF TakesText(w, c) THEN SetText(w, c, Shown(w), w.composition)
          ELSE StartComposition(w, c) EXCEPT !.popup = TRUE]

\* Delete the piece before the caret.
Delete(w, c) ==
    [w EXCEPT !.doc[c] = RemoveAt(@, w.caret[c]), !.caret[c] = @ - 1]

\* A Backspace in the document: the character before the caret.
DeleteChar(w, c) ==
    IF w.caret[c] = 0 THEN w
    ELSE LET text == w.doc[c][w.caret[c]].text
             noted == [w EXCEPT !.erased = @ \union {text.word}]
         IN  IF text.len <= 1 THEN Delete(noted, c)
             ELSE [noted EXCEPT !.doc[c][w.caret[c]].text.len = @ - 1]

CommitAtCaret(w, c, op) ==   \* mutant: comp_ctx is taken before it is compared
    InsertAtCaret([w EXCEPT !.composition = 0, !.compCtx = NoContext],
                  c, <<Plain(op.text)>> \o op.suffix)

CommitNeedsComposition(w, c, op) ==   \* mutant: nothing is written without one
    IF ~TakesText(w, c) THEN w
    ELSE [w EXCEPT !.doc = SetText(w, c, op.text, 0).doc,
                   !.composition = 0, !.compCtx = NoContext]

\* DocOp::Commit: into the composition, else at the caret; an empty text cancels.
Commit(w, c, op) ==
    LET done == [w EXCEPT !.composition = 0, !.compCtx = NoContext,
                          !.landed = IF op.nth = 0 THEN @ ELSE Append(@, op.nth)]
        set == SetText(w, c, op.text, 0)
        shown == [done EXCEPT !.doc = set.doc, !.caret = set.caret]
        word == IF op.text = NoWord THEN <<>> ELSE <<Plain(op.text)>>
    IN  IF ~TakesText(w, c) THEN InsertAtCaret(done, c, word \o op.suffix)
        ELSE IF op.text = NoWord THEN Delete(shown, c)
        ELSE InsertAtCaret(shown, c, op.suffix)

FinalizeWithoutEnd(w, c) == [w EXCEPT !.compCtx = NoContext]   \* mutant

\* DocOp::Finalize: EndComposition works only with the cookie of its own context.
Finalize(w, c) ==
    [w EXCEPT !.composition = 0, !.compCtx = NoContext,
              !.doc[c] = IF Lives(@, w.composition)
                         THEN [@ EXCEPT ![Place(@, w.composition)].comp = 0] ELSE @]

ReEditUnchecked(w, c, op) ==   \* mutant: the text before the caret is not compared
    IF w.caret[c] > 0 THEN Preview(Delete(w, c), c) ELSE w

\* DocOp::ReEdit: reopen the word before the caret, else a plain Backspace.
ReEdit(w, c, op) ==
    IF w.caret[c] > 0 /\ w.doc[c][w.caret[c]].text = op.text
    THEN Preview(Delete(w, c), c)
    ELSE DeleteChar([w EXCEPT !.session = NoWord, !.popup = FALSE], c)

Apply(w, r) ==
    CASE r.op = "preview"  -> Preview(w, r.ctx)
      [] r.op = "commit"   -> Commit(w, r.ctx, r)
      [] r.op = "finalize" -> Finalize(w, r.ctx)
      [] r.op = "insert"   -> InsertAtCaret(w, r.ctx, <<Plain(r.text)>>)
      [] r.op = "reedit"   -> ReEdit(w, r.ctx, r)

Request(op, c, t) == [op |-> op, ctx |-> c, text |-> t, suffix |-> <<>>, nth |-> 0]
CommitRequest(c, t, s) ==
    [op |-> "commit", ctx |-> c, text |-> t, suffix |-> s, nth |-> Len(committed) + 1]

-----------------------------------------------------------------------------
(* `run`: a session runs at once when none is queued and the host grants   *)
(* it, else it is queued, or lost when the host refuses that too.          *)

Become(w) ==
    /\ session' = w.session /\ editor' = w.editor /\ composition' = w.composition
    /\ compCtx' = w.compCtx /\ popup' = w.popup /\ doc' = w.doc /\ caret' = w.caret
    /\ landed' = w.landed /\ erased' = w.erased /\ finalized' = w.finalized

\* The first k sessions of rs (a handler requests at most two) have run.
After(w, rs, k) ==
    CASE k = 0 -> w
      [] k = 1 -> Apply(w, rs[1])
      [] k = 2 -> Apply(Apply(w, rs[1]), rs[2])

RunDontCare(w, rs) ==   \* mutant: TF_ES_ASYNCDONTCARE, whatever is queued
    \E k \in 0..Len(rs) :
        /\ ~Deferred => k = Len(rs)
        /\ Become(After(w, rs, k))
        /\ queue' = queue \o SubSeq(rs, k + 1, Len(rs))
        /\ pending' = pending + Len(rs) - k
        /\ UNCHANGED losses

\* The handler leaves the state w and then requests rs in this order.
Run(w, rs) ==
    \E k \in 0..Len(rs), accepted \in BOOLEAN :
        /\ pending > 0 => k = 0
        /\ ~Deferred => k = Len(rs)
        /\ ~accepted => k < Len(rs) /\ losses < MaxLosses
        /\ Become(After(w, rs, k))
        /\ queue' = IF accepted THEN queue \o SubSeq(rs, k + 1, Len(rs)) ELSE queue
        /\ pending' = IF accepted THEN pending + Len(rs) - k ELSE pending
        /\ losses' = IF accepted THEN losses ELSE losses + 1

FinalizeCompositionOnly(w) ==   \* mutant: no Finalize is requested
    Run([w EXCEPT !.session = NoWord, !.editor = NoWord, !.compCtx = NoContext,
                  !.popup = FALSE], <<>>)

\* finalize_composition: the engine forgets the word, what is shown stays.
FinalizeComposition(w) ==
    LET fields == {c \in Context : Lives(w.doc[c], w.composition)}
    IN  Run([w EXCEPT !.session = NoWord, !.editor = NoWord, !.compCtx = NoContext,
                      !.popup = FALSE,
                      !.finalized = @ \union {w.doc[c][Place(w.doc[c], w.composition)].text.word :
                                                 c \in fields}],
            IF fields = {} THEN <<>>
            ELSE <<Request("finalize", CHOOSE c \in fields : TRUE, NoWord)>>)

-----------------------------------------------------------------------------
(* Keys (OnTestKeyDown, OnKeyDown, execute).                               *)

NeverElsewhere(w, c) == FALSE   \* mutant: only a focus change finalizes

\* The key comes from another context than the one we compose in.
Elsewhere(w, c) == Composing(w) /\ w.compCtx \notin {NoContext, c}

\* drop_dead_state, which OnTestKeyDown runs before the key's OnKeyDown.
DropDeadState(c) ==
    LET w == IF ~terminated THEN World
             ELSE [World EXCEPT !.session = NoWord, !.editor = NoWord, !.popup = FALSE,
                                !.composition = 0, !.compCtx = NoContext]
    IN  /\ terminated \/ Elsewhere(w, c)
        /\ keys < MaxKeys
        /\ IF Elsewhere(w, c) THEN FinalizeComposition(w) ELSE Run(w, <<>>)
        /\ terminated' = FALSE
        /\ UNCHANGED <<anchor, context, arabic, bounds, history>>

\* OnKeyDown of a key that is eaten.
Key(c) ==
    /\ ~terminated /\ ~Elsewhere(World, c)
    /\ keys < MaxKeys /\ keys' = keys + 1
    /\ context' = c
    /\ UNCHANGED <<terminated, clicks, ended>>

Typed == IF session = NoWord THEN [word |-> keys + 1, len |-> 1, pick |-> 0]
         ELSE [session EXCEPT !.len = @ + 1, !.pick = 0]

\* push_char.
AppendChar(c) ==
    /\ Key(c) /\ arabic /\ editor = NoWord /\ session.len < MaxLen
    /\ anchor' = NoAnchor
    /\ Run([World EXCEPT !.session = Typed], <<Request("preview", c, NoWord)>>)
    /\ UNCHANGED <<arabic, history>>

\* The last letter deleted cancels the composition.
Backspace(c) ==
    /\ Key(c) /\ session # NoWord /\ editor = NoWord
    /\ anchor' = NoAnchor
    /\ IF session.len > 1
       THEN Run([World EXCEPT !.session = [session EXCEPT !.len = @ - 1, !.pick = 0]],
                <<Request("preview", c, NoWord)>>)
       ELSE Run([World EXCEPT !.session = NoWord, !.popup = FALSE,
                              !.erased = @ \union {session.word}],
                <<Request("commit", c, NoWord)>>)
    /\ UNCHANGED <<arabic, history>>

HighlightOnly(c) ==   \* mutant: no preview is requested
    /\ Key(c) /\ session # NoWord /\ editor = NoWord
    /\ anchor' = NoAnchor
    /\ Run([World EXCEPT !.session.pick = 1 - @], <<>>)
    /\ UNCHANGED <<arabic, history>>

\* Next/PrevCandidate, Next/PrevPage: another candidate is highlighted.
MoveHighlight(c) ==
    /\ Key(c) /\ session # NoWord /\ editor = NoWord
    /\ anchor' = NoAnchor
    /\ Run([World EXCEPT !.session.pick = 1 - @], <<Request("preview", c, NoWord)>>)
    /\ UNCHANGED <<arabic, history>>

\* OpenTashkeel, and TashkeelAction::BackToList.
SwitchEditor(c) ==
    /\ Key(c) /\ Composing(World)
    /\ anchor' = NoAnchor
    /\ Run([World EXCEPT !.editor = IF @ = NoWord THEN session ELSE NoWord],
           <<Request("preview", c, NoWord)>>)
    /\ UNCHANGED <<arabic, history>>

CommittedKeepsPopup(w) == [w EXCEPT !.session = NoWord, !.editor = NoWord]   \* mutant

\* What `commit` leaves in the state before it requests the edit.
Committed(w) == [w EXCEPT !.session = NoWord, !.editor = NoWord, !.popup = FALSE]
AnchorAfter(s) == IF s = <<Plain(Character)>> THEN NoAnchor
                  ELSE [text |-> Shown(World), space |-> s # <<>>]
Suffix == {<<>>, <<Plain(Space)>>, <<Plain(Character)>>}

\* Space, Enter, Esc, punctuation, and keys that commit and go on to the host.
CommitKey(c) ==
    \E s \in Suffix :
        /\ Key(c) /\ Composing(World)
        /\ anchor' = AnchorAfter(s)
        /\ Run(Committed(World), <<CommitRequest(c, Shown(World), s)>>)
        /\ committed' = Append(committed, Shown(World))
        /\ UNCHANGED <<arabic, reopened, crossed>>

\* A letter that is no editor command: commit, then start a word with it.
CommitThenType(c) ==
    /\ Key(c) /\ editor # NoWord
    /\ anchor' = NoAnchor
    /\ Run([Committed(World) EXCEPT !.session = [word |-> keys + 1, len |-> 1, pick |-> 0]],
           <<CommitRequest(c, editor, <<>>), Request("preview", c, NoWord)>>)
    /\ committed' = Append(committed, editor)
    /\ UNCHANGED <<arabic, reopened, crossed>>

\* InsertPunctuation while idle, InsertLatin in Latin mode.
InsertKey(c) ==
    /\ Key(c) /\ (arabic => ~Composing(World))
    /\ anchor' = NoAnchor
    /\ Run(World, <<Request("insert", c, Character)>>)
    /\ UNCHANGED <<arabic, history>>

\* Backspace right after a commit.  The host deletes the space itself.
ReEditKey(c) ==
    /\ Key(c) /\ arabic /\ ~Composing(World) /\ anchor # NoAnchor
    /\ IF anchor.space
       THEN /\ anchor' = [anchor EXCEPT !.space = FALSE]
            /\ Become(DeleteChar(World, c))
            /\ UNCHANGED <<tsf, reopened>>
       ELSE /\ anchor' = NoAnchor
            /\ Run([World EXCEPT !.session = anchor.text],
                   <<Request("reedit", c, anchor.text)>>)
            /\ reopened' = reopened \union {anchor.text.word}
    /\ UNCHANGED <<arabic, committed, crossed>>

\* A key that is not eaten: OnTestKeyDown drops the anchor.
PassKey(c) ==
    /\ ~terminated /\ ~Composing(World) /\ anchor # NoAnchor
    /\ keys < MaxKeys /\ keys' = keys + 1
    /\ anchor' = NoAnchor
    /\ UNCHANGED <<session, editor, context, arabic, terminated, screen, tsf, clicks, ended, history>>

ToggleOnly(c, left) ==   \* mutant: the word is not committed first
    /\ arabic' = ~arabic /\ anchor' = left
    /\ Run(World, <<>>)
    /\ UNCHANGED <<committed, reopened>>

\* CommitThenToggle, ToggleMode; `left` is the anchor when no word was typed.
Toggle(c, left) ==
    /\ arabic' = ~arabic
    /\ anchor' = IF Composing(World) THEN AnchorAfter(<<>>) ELSE left
    /\ IF Composing(World)
       THEN /\ Run(Committed(World), <<CommitRequest(c, Shown(World), <<>>)>>)
            /\ committed' = Append(committed, Shown(World))
       ELSE /\ Run(World, <<>>)
            /\ UNCHANGED committed
    /\ UNCHANGED reopened

\* A toggle key that the router sees.
ToggleKey(c) == Key(c) /\ Toggle(c, NoAnchor) /\ UNCHANGED crossed

-----------------------------------------------------------------------------
(* Events that do not come through OnTestKeyDown.                          *)

\* OnPreservedKey (Ctrl+Space) comes with the field that has the focus.
PreservedKey(c) ==
    /\ keys < MaxKeys /\ keys' = keys + 1
    /\ Toggle(c, anchor)
    /\ crossed' = (crossed \/ Elsewhere(World, c))
    /\ UNCHANGED <<context, terminated, clicks, ended>>

\* A click on a row of the list commits it, in the context of the last key.
ClickRow ==
    /\ popup /\ session # NoWord /\ editor = NoWord /\ context # NoContext
    /\ keys < MaxKeys /\ keys' = keys + 1
    /\ \E pick \in 0..1 :
          LET text == [session EXCEPT !.pick = pick]
          IN  /\ anchor' = [text |-> text, space |-> TRUE]
              /\ Run(Committed(World), <<CommitRequest(context, text, <<Plain(Space)>>)>>)
              /\ committed' = Append(committed, text)
    /\ UNCHANGED <<context, arabic, terminated, clicks, ended, reopened, crossed>>

\* ITfThreadMgrEventSink::OnSetFocus; Deactivate does the same to this state.
SetFocus ==
    /\ keys < MaxKeys /\ keys' = keys + 1
    /\ FinalizeComposition(World)
    /\ anchor' = NoAnchor
    /\ UNCHANGED <<context, arabic, terminated, clicks, ended, history>>

\* OnKillThreadFocus, OnSetThreadFocus.
ThreadFocus(gained) ==
    /\ popup' = (gained /\ (popup \/ Composing(World))) /\ popup' # popup
    /\ keys < MaxKeys /\ keys' = keys + 1
    /\ UNCHANGED <<engine, doc, caret, composition, compCtx, landed, erased, finalized, tsf, clicks, ended, history>>

\* The caret of c is moved (OnEndEdit): out of the word, the word is finalized.
MoveCaret(c) ==
    \E at \in 0..Len(doc[c]) :
        LET w == [World EXCEPT !.caret[c] = at]
            outside == /\ Composing(w) /\ Lives(w.doc[c], w.composition)
                       /\ at \notin {Place(w.doc[c], w.composition) - 1,
                                    Place(w.doc[c], w.composition)}
        IN  /\ at # caret[c]
            /\ clicks < MaxClicks /\ clicks' = clicks + 1
            /\ IF outside THEN FinalizeComposition(w) ELSE Run(w, <<>>)
            /\ UNCHANGED <<anchor, context, arabic, terminated, keys, ended, history>>

\* The text stays, it is no composition any more.
Ended(d, i) == [d EXCEPT ![i].comp = 0]

\* The host ends a composition of ours: OnCompositionTerminated, whose argument
\* is not compared with State::composition.  Busy: the next key sees the flag.
CompositionTerminated(c) ==
    \E i \in DOMAIN doc[c], busy \in BOOLEAN :
        /\ doc[c][i].comp # 0
        /\ ended < MaxEnded /\ ended' = ended + 1
        /\ Run(IF busy THEN [World EXCEPT !.doc[c] = Ended(@, i)]
               ELSE [World EXCEPT !.doc[c] = Ended(@, i), !.session = NoWord, !.editor = NoWord,
                                  !.popup = FALSE, !.composition = 0, !.compCtx = NoContext],
               <<>>)
        /\ terminated' = (terminated \/ busy)
        /\ UNCHANGED <<anchor, context, arabic, keys, clicks, history>>

\* The host ends it without telling us.
CompositionLost(c) ==
    \E i \in DOMAIN doc[c] :
        /\ doc[c][i].comp # 0
        /\ ended < MaxEnded /\ ended' = ended + 1
        /\ doc' = [doc EXCEPT ![c] = Ended(@, i)]
        /\ UNCHANGED <<engine, caret, composition, compCtx, popup, landed, erased, finalized, tsf, keys, clicks, history>>

\* TSF runs its queue first in, first out; the token is dropped first.
RunQueued ==
    /\ queue # <<>>
    /\ Become(Apply(World, Head(queue)))
    /\ queue' = Tail(queue)
    /\ pending' = pending - 1
    /\ UNCHANGED <<anchor, context, arabic, terminated, losses, bounds, history>>

DiscardKeepsToken ==   \* mutant: only a session that runs counts down
    \E i \in DOMAIN queue :
        /\ losses < MaxLosses /\ losses' = losses + 1
        /\ queue' = RemoveAt(queue, i)
        /\ UNCHANGED <<pending, engine, screen, bounds, history>>

\* TSF releases a session unrun: its token is dropped with it.
Discard ==
    \E i \in DOMAIN queue :
        /\ losses < MaxLosses /\ losses' = losses + 1
        /\ queue' = RemoveAt(queue, i)
        /\ pending' = pending - 1
        /\ UNCHANGED <<engine, screen, bounds, history>>

-----------------------------------------------------------------------------
Init ==
    /\ session = NoWord /\ editor = NoWord /\ anchor = NoAnchor
    /\ context = NoContext /\ arabic = TRUE /\ terminated = FALSE
    /\ composition = 0 /\ compCtx = NoContext /\ popup = FALSE
    /\ doc = [c \in Context |-> <<>>] /\ caret = [c \in Context |-> 0]
    /\ queue = <<>> /\ pending = 0 /\ losses = 0
    /\ keys = 0 /\ clicks = 0 /\ ended = 0
    /\ committed = <<>> /\ landed = <<>> /\ reopened = {} /\ crossed = FALSE /\ erased = {} /\ finalized = {}

KeyDown(c) ==
    \/ AppendChar(c) \/ Backspace(c) \/ MoveHighlight(c) \/ SwitchEditor(c)
    \/ CommitKey(c) \/ CommitThenType(c) \/ InsertKey(c) \/ ReEditKey(c)
    \/ PassKey(c) \/ ToggleKey(c)

Next ==
    \/ \E c \in Context : \/ DropDeadState(c) \/ KeyDown(c) \/ PreservedKey(c)
                           \/ MoveCaret(c) \/ CompositionTerminated(c) \/ CompositionLost(c)
    \/ ClickRow \/ SetFocus \/ \E gained \in BOOLEAN : ThreadFocus(gained)
    \/ RunQueued \/ Discard

Spec == Init /\ [][Next]_vars

\* TSF grants a queued session when the host's lock is free; nothing is assumed
\* of the user and the host.
FairSpec == Spec /\ WF_vars(RunQueued)

-----------------------------------------------------------------------------
(* Properties.                                                             *)

Pieces == UNION {{c} \X DOMAIN doc[c] : c \in Context}
Piece_(q) == doc[q[1]][q[2]]
Live == {Piece_(q) : q \in {r \in Pieces : Piece_(r).comp # 0}}
Copies(n) == Cardinality({q \in Pieces : Piece_(q).text.word = n})

\* Nothing is on its way to the document, and nothing got lost on it.
Quiet == queue = <<>> /\ losses = 0 /\ ~terminated

\* The composition the state knows, while a word is being typed.
Known(q) == q.comp = composition /\ Composing(World)

\* Every composition of ours in a field is known: the list and the editor never
\* eat keys whose edits can no longer land, and no underlined word is left behind,
\* whichever field the keys come from (drop_dead_state), except by Ctrl+Space.
NoOrphan == Quiet /\ ~crossed => \A q \in Live : Known(q)

\* What the comment on comp_ctx says: keys arriving from another context first
\* finalize the word, Ctrl+Space too.
NoOrphanEver == Quiet => \A q \in Live : Known(q)

\* Unless the host ended one, a composition shows the word the engine has.  With no
\* word left to show, one can stay behind only after a re-edit (see EditorOverAWord).
ShowsTheWord ==
    Quiet /\ ended = 0 /\ (Composing(World) \/ reopened = {}) =>
        \A q \in Live : q.text = Shown(World)

\* The diacritics editor is open over a word only: a re-edit that finds other text
\* undoes the restore, as the comment at the end of ReEdit says.
EditorOverAWord == editor # NoWord => session # NoWord

\* The list or the editor is on screen only while a word is being typed.
PopupWhileComposing == popup => Composing(World)

\* In Latin mode nothing is being typed: every toggle commits the word first.
ArabicWhileComposing == Composing(World) => arabic

\* Commits reach the document in the order the user made them, whatever the
\* host grants at once, queues or discards (`run`).
LandInOrder == \A i \in DOMAIN landed : \A j \in 1..i-1 : landed[j] < landed[i]

Kept(n) == n \in erased \/ Copies(n) > 0 \/ session.word = n

\* A committed word stays in the document until the user deletes it: no later
\* word, Backspace, click or host event replaces it ...
CommittedWordsStay ==
    Quiet => \A i \in DOMAIN committed :
                 committed[i].word \in reopened \/ Kept(committed[i].word)

\* ... also when Backspace reopens it: it is being typed again, or is back ...
ReopenedWordsStay == Quiet => \A i \in DOMAIN committed : Kept(committed[i].word)

\* ... and so does a word that a click or a focus change finalized as shown.
FinalizedStay == Quiet => \A n \in finalized : Kept(n)

\* A committed word is written once, unless Backspace reopened it (in behaviours
\* in which neither the host nor finalize_composition ended a word).
Once ==
    Quiet /\ ended = 0 /\ finalized = {} =>
        \A i \in DOMAIN committed :
            committed[i].word \in reopened \/ Copies(committed[i].word) <= 1

\* The word being typed is in one field only, at one place.
TypedOnce ==
    Quiet /\ ended = 0 /\ session # NoWord /\ session.word \notin reopened =>
        Copies(session.word) <= 1

\* The count of queued sessions returns to 0, whatever TSF refuses or discards:
\* a lost session can never leave every later edit queued.
Thaws == []<>(pending = 0)
=============================================================================
