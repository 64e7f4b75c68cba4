----------------------------- MODULE Lifecycle -----------------------------
(***************************************************************************)
(* The life of a text service: its object and the DLL (factory.rs, dll.rs), *)
(* ActivateEx and Deactivate (service.rs), the sinks advised on the thread *)
(* and on the document in between (ensure_edit_sink), and the way out after *)
(* a panic: guard (guard.rs), DoEditSession (compose.rs) and               *)
(* passthrough_cleanup.  TextService.tla has the words and the document.   *)
(*                                                                         *)
(* State is never borrowed when a callback comes.                          *)
(***************************************************************************)
EXTENDS Naturals, Sequences, FiniteSets

CONSTANTS
    Context,   \* documents of the application
    MaxQueue,  \* bound on the queued edit sessions
    MaxLives   \* bound on activations

VARIABLES
    object,      \* "none", "held" by TSF, "released" by it
    lives,       \* activations so far
    active,      \* between ActivateEx and Deactivate
    advised,     \* what TSF calls: [sink, ctx]
    cookies,     \* what the service knows of that
    watched,     \* State::edit_sink: the context, "none"
    composing,   \* the session has letters
    composition, \* State::composition: its context, "none"
    popup,       \* State::popup: "none", "hidden", "shown"
    queue,       \* edit sessions TSF will run, oldest first
    disabled,    \* DISABLED (guard.rs), of the process
    cleanedUp,   \* TextService::cleaned_up
    count        \* OBJECT_COUNT (dll.rs)

word == <<composing, composition, popup>>
sinks == <<advised, cookies, watched>>
vars == <<object, lives, active, sinks, word, queue, disabled, cleanedUp, count>>

Sink(s, c) == [sink |-> s, ctx |-> c]
ThreadSinks == {"manager", "focus", "key", "toggle"}   \* the toggle is a preserved key
Op(kind, ctx) == [kind |-> kind, ctx |-> ctx]

\* What keeps the object: TSF, the sinks, the composition's among them, queued
\* sessions and the popup, whose handler holds it (show_popup).
KeptAlive(o, adv, comp, pop, q) ==
    o = "held" \/ adv # {} \/ comp # "none" \/ pop # "none" \/ q # <<>>

\* The last reference goes: Drop.
Counted == count' = IF count = 1 /\ ~KeptAlive(object', advised', composition', popup', queue') THEN 0 ELSE count

-----------------------------------------------------------------------------
(* The word's edits.                                                       *)

\* ensure_edit_sink: one context is watched; a host may refuse the layout sink
\* or both.
Watch(c) ==
    IF watched = c THEN UNCHANGED sinks
    ELSE \E kinds \in {{}, {"edit"}, {"edit", "layout"}} :
            LET new == {Sink(k, c) : k \in kinds}
                old == {s \in cookies : s.sink \in {"edit", "layout"}}
            IN  /\ advised' = (advised \ old) \union new
                /\ cookies' = (cookies \ old) \union new
                /\ watched' = IF kinds = {} THEN "none" ELSE c

\* The document's part of a session (apply).
RunOp(op) ==
    IF op.kind = "preview" /\ composing
    THEN \/ Watch(op.ctx) /\ composition' = op.ctx /\ popup' = "shown" /\ UNCHANGED composing
         \/ UNCHANGED <<sinks, composition, composing>> /\ popup' = "shown"   \* the host refuses a composition
    ELSE IF op.kind = "finalize" THEN composition' = "none" /\ UNCHANGED <<sinks, composing, popup>>
    ELSE UNCHANGED <<sinks, word>>

\* run: at once when nothing is queued and the host grants it, else queued, or
\* refused.
Requested(op) == IF Len(queue) < MaxQueue THEN queue' \in {Append(queue, op), queue} ELSE UNCHANGED queue

\* hide_popup.
HiddenOf(p) == IF p = "shown" THEN "hidden" ELSE p

EndComposition ==
    \/ queue = <<>> /\ composition' = "none" /\ UNCHANGED queue
    \/ /\ UNCHANGED composition
       /\ IF composition = "none" THEN UNCHANGED queue ELSE Requested(Op("finalize", composition))

KeepLetters == UNCHANGED composing /\ EndComposition   \* mutant: the session is not reset

\* finalize_composition without its popup.
FinalizeComposition == composing' = FALSE /\ EndComposition

\* passthrough_cleanup at the end of a callback: the popup is destroyed.
Cleanup ==
    IF disabled /\ ~cleanedUp
    THEN /\ cleanedUp' = TRUE /\ popup' = "none"
         /\ FinalizeComposition /\ UNCHANGED sinks
    ELSE UNCHANGED <<sinks, word, queue, cleanedUp>>

-----------------------------------------------------------------------------
(* Life.                                                                   *)

\* ClassFactory::CreateInstance, TextService::new.
Create ==
    /\ object = "none" /\ count = 0 /\ ~disabled
    /\ object' = "held" /\ count' = 1
    /\ UNCHANGED <<lives, active, sinks, word, queue, disabled, cleanedUp>>

\* ActivateEx: a sink may be refused; nothing is advised in passthrough.
ActivateEx ==
    /\ object = "held" /\ ~active /\ lives < MaxLives
    /\ active' = TRUE /\ lives' = lives + 1
    /\ IF disabled THEN UNCHANGED <<advised, cookies>>
       ELSE \E refused \in ThreadSinks \union {"none"} :
               LET new == {Sink(s, "thread") : s \in ThreadSinks \ {refused}}
               IN  advised' = advised \union new /\ cookies' = cookies \union new
    /\ UNCHANGED <<object, watched, word, queue, disabled, cleanedUp, count>>

\* Deactivate, in passthrough too: the composition, the sinks and the popup.
Deactivate ==
    /\ active /\ active' = FALSE
    /\ FinalizeComposition
    /\ advised' = advised \ cookies /\ cookies' = {} /\ watched' = "none"
    /\ popup' = "none"
    /\ UNCHANGED <<object, lives, disabled, cleanedUp>> /\ Counted

\* TSF lets the object go.
Release ==
    /\ object = "held" /\ ~active /\ object' = "released"
    /\ UNCHANGED <<lives, active, sinks, word, queue, disabled, cleanedUp>> /\ Counted

\* The object is gone and its memory free.
Gone ==
    /\ object = "released" /\ count = 0 /\ object' = "none"
    /\ cleanedUp' = FALSE
    /\ UNCHANGED <<lives, active, sinks, word, queue, disabled, count>>

-----------------------------------------------------------------------------
(* Callbacks, in passthrough and not.                                      *)

Called(s) == \E c \in Context \union {"thread"} : Sink(s, c) \in advised

\* A key of a word: its preview runs at once or later.
Key(c) ==
    /\ Called("key") /\ ~disabled
    /\ \/ /\ queue = <<>> /\ UNCHANGED queue
          /\ composing' = TRUE
          /\ \/ Watch(c) /\ composition' = c
             \/ UNCHANGED <<sinks, composition>>
          /\ popup' = "shown"
       \/ composing' = TRUE /\ Requested(Op("preview", c)) /\ UNCHANGED <<sinks, composition, popup>>
    /\ UNCHANGED <<object, lives, active, disabled, cleanedUp, count>>

\* Focus moves, another context is typed in: the word is finalized.
Finalize ==
    /\ (Called("manager") \/ Called("key")) /\ ~disabled
    /\ FinalizeComposition /\ popup' = HiddenOf(popup)
    /\ UNCHANGED <<object, lives, active, sinks, disabled, cleanedUp>> /\ Counted

\* OnSetThreadFocus shows the popup again.
SetThreadFocus ==
    /\ Called("focus") /\ ~disabled /\ composing /\ popup' = "shown"
    /\ UNCHANGED <<object, lives, active, sinks, composing, composition, queue, disabled, cleanedUp, count>>

\* OnCompositionTerminated.
Terminated ==
    /\ composition # "none" /\ ~disabled
    /\ composing' = FALSE /\ composition' = "none" /\ popup' = HiddenOf(popup)
    /\ UNCHANGED <<object, lives, active, sinks, queue, disabled, cleanedUp>> /\ Counted

\* A queued session runs, guarded or not, or TSF drops it; it may panic.
RunSession ==
    /\ queue # <<>> /\ queue' = Tail(queue)
    /\ \/ RunOp(Head(queue)) /\ UNCHANGED disabled
       \/ UNCHANGED <<sinks, word, disabled>>
       \/ UNCHANGED <<sinks, word>> /\ disabled' = TRUE
    /\ UNCHANGED <<object, lives, active, cleanedUp>> /\ Counted

\* A callback that ends with passthrough_cleanup may come, one of the popup's too.
Reached == popup = "shown" \/ \E s \in {"manager", "focus", "key", "edit", "layout"} : Called(s)

\* A panic in a callback: DISABLED, and for most callbacks the cleanup.
Panic ==
    /\ Reached /\ ~disabled /\ disabled' = TRUE
    /\ UNCHANGED <<object, lives, active, sinks, word, queue, cleanedUp, count>>

\* Any later callback but OnTestKeyUp, OnKeyUp, OnPreservedKey and
\* OnCompositionTerminated.
CallbackInPassthrough ==
    /\ disabled /\ Reached /\ Cleanup /\ UNCHANGED <<object, lives, active, disabled>> /\ Counted

Init ==
    /\ object = "none" /\ lives = 0 /\ active = FALSE
    /\ advised = {} /\ cookies = {} /\ watched = "none"
    /\ composing = FALSE /\ composition = "none" /\ popup = "none"
    /\ queue = <<>> /\ disabled = FALSE /\ cleanedUp = FALSE /\ count = 0

Next ==
    \/ Create \/ ActivateEx \/ Deactivate \/ Release \/ Gone
    \/ \E c \in Context : Key(c)
    \/ Finalize \/ SetThreadFocus \/ Terminated \/ RunSession
    \/ Panic \/ CallbackInPassthrough

Spec == Init /\ [][Next]_vars

-----------------------------------------------------------------------------
(* Properties.                                                             *)

\* DllCanUnloadNow, with no server lock.
CanUnload == count = 0

\* After Deactivate nothing of the service is left in the host, in passthrough
\* too and whatever sessions still run: no sink is advised, no window stands, and
\* once TSF has let go and its last session has run the DLL can be unloaded.
\* After the cleanup that follows a panic "no frozen list or editor stays on
\* screen" (passthrough_cleanup, service.rs).
NothingLeftBehind ==
    /\ ~active => advised = {} /\ popup = "none"
    /\ object = "released" /\ queue = <<>> /\ composition = "none" => CanUnload
    /\ cleanedUp => popup = "none"

=============================================================================
