------------------------------ MODULE Layouts ------------------------------
(***************************************************************************)
(* The user's list of keyboards and the layouts loaded in the session      *)
(* (t3a-hotkey/profile.rs, tidy_if_changed in its main.rs).  Windows loads *)
(* Arabic layouts nobody chose; the companion unloads them, and enabling   *)
(* Type3arabi removes those that came with it.  Both look at the list and  *)
(* at the loaded layouts several times, in two processes, while the user   *)
(* and Windows change them.                                                *)
(***************************************************************************)
EXTENDS FiniteSets

CONSTANTS
    Arabic,    \* Arabic layouts (stray_arabic_layout): Arabic 101 and the like
    Other      \* other layouts, such as the one Type3arabi runs on

Process == {"companion", "installer"}
TIP == "Type3arabi"
None == {"none"}

VARIABLES
    saved,     \* the user's saved inputs (saved_inputs)
    hasArabic, \* Arabic is one of the user's languages
    loaded,    \* the session's layouts (loaded_layouts)
    seen,      \* TIDY_SEEN, None when a check left something behind
    pc,        \* each process: "idle", "install", "list", "enumerate", "drop"
    keep,      \* the inputs it leaves alone
    listed,    \* saved_inputs of drop_layouts_except
    todo,      \* strays it has still to drop
    failed,    \* Tidy::failed > 0
    chosen,    \* the Arabic layouts the user chose
    crossed,   \* the user chose a layout while a process was at work
    since      \* the list or the layouts changed since the companion began to look at them

lists == <<saved, hasArabic, loaded>>
work == <<pc, keep, listed, todo, failed>>
vars == <<lists, seen, work, chosen, crossed, since>>

Goto(p, label) == pc' = [pc EXCEPT ![p] = label]

-----------------------------------------------------------------------------
(* drop_layouts_except.                                                    *)

\* What a process holds is gone when it is done.
Done(p) ==
    /\ pc[p] = "drop" /\ todo[p] = {} /\ Goto(p, "idle")
    /\ keep' = [keep EXCEPT ![p] = {}] /\ listed' = [listed EXCEPT ![p] = {}]
    /\ failed' = [failed EXCEPT ![p] = FALSE] /\ UNCHANGED todo

Begin(p, inputs) ==
    /\ Goto(p, "list") /\ keep' = [keep EXCEPT ![p] = inputs]
    /\ failed' = [failed EXCEPT ![p] = FALSE]

ListSaved(p) ==
    /\ pc[p] = "list" /\ Goto(p, "enumerate")
    /\ listed' = [listed EXCEPT ![p] = saved]
    /\ UNCHANGED <<lists, seen, keep, todo, failed, chosen, crossed, since>>

\* stray_arabic_layout: an Arabic layout that is not kept.
Enumerate(p) ==
    /\ pc[p] = "enumerate" /\ Goto(p, "drop")
    /\ todo' = [todo EXCEPT ![p] = (loaded \intersect Arabic) \ keep[p]]
    /\ UNCHANGED <<lists, seen, keep, listed, failed, chosen, crossed, since>>

\* A stray in the list is taken out of it; unloading fails while a window uses it.
Drop(p, layout) ==
    /\ pc[p] = "drop" /\ layout \in todo[p]
    /\ todo' = [todo EXCEPT ![p] = @ \ {layout}]
    /\ saved' \in {saved, IF layout \in listed[p] THEN saved \ {layout} ELSE saved}
    /\ \/ loaded' = loaded \ {layout} /\ UNCHANGED failed
       \/ failed' = [failed EXCEPT ![p] = TRUE] /\ UNCHANGED loaded
    /\ since' = (since \/ p # "companion")
    /\ UNCHANGED <<hasArabic, seen, pc, keep, listed, chosen, crossed>>

-----------------------------------------------------------------------------
(* The companion.                                                          *)

\* tidy_if_changed and tidy: nothing to do on the layouts seen last, or without
\* Type3arabi in the list.
Check ==
    /\ pc["companion"] = "idle" /\ seen # loaded
    /\ IF TIP \in saved THEN Begin("companion", saved) /\ since' = FALSE /\ UNCHANGED todo
       ELSE /\ Goto("companion", "drop") /\ todo' = [todo EXCEPT !["companion"] = {}]
            /\ since' = TRUE /\ UNCHANGED <<keep, failed>>
    /\ UNCHANGED <<lists, seen, listed, chosen, crossed>>

RememberAnyway ==   \* mutant: a check that left a layout behind is remembered
    /\ Done("companion") /\ seen' = loaded
    /\ UNCHANGED <<lists, chosen, crossed, since>>

\* The layouts are looked at again to be remembered, so that a failed unload is
\* tried again.
Remember ==
    /\ Done("companion") /\ seen' = IF failed["companion"] THEN None ELSE loaded
    /\ UNCHANGED <<lists, chosen, crossed, since>>

-----------------------------------------------------------------------------
(* enable and disable, by the installer or the Settings app.               *)

EnableKeepingNothing ==   \* mutant: what the user had is not looked at
    /\ pc["installer"] = "idle" /\ Goto("installer", "install")
    /\ keep' = [keep EXCEPT !["installer"] = {}]
    /\ UNCHANGED <<lists, seen, listed, todo, failed, chosen, crossed, since>>

\* What the user had for Arabic is kept: a layout merely loaded is no choice.
Enable ==
    /\ pc["installer"] = "idle" /\ Goto("installer", "install")
    /\ keep' = [keep EXCEPT !["installer"] = IF hasArabic THEN saved ELSE {}]
    /\ UNCHANGED <<lists, seen, listed, todo, failed, chosen, crossed, since>>

\* InstallLayoutOrTip: a language the user did not have comes with its own
\* keyboard.
Install ==
    /\ pc["installer"] = "install"
    /\ \/ /\ Begin("installer", keep["installer"])
          /\ \E extra \in IF hasArabic THEN {{}} ELSE {{a} : a \in Arabic} :
                saved' = saved \union {TIP} \union extra /\ loaded' = loaded \union extra
          /\ hasArabic' = TRUE /\ since' = TRUE
       \/ /\ Goto("installer", "idle") /\ keep' = [keep EXCEPT !["installer"] = {}]
          /\ UNCHANGED <<lists, failed, since>>
    /\ UNCHANGED <<seen, listed, todo, chosen, crossed>>

Enabled ==
    /\ Done("installer")
    /\ UNCHANGED <<lists, seen, chosen, crossed, since>>

Disable ==
    /\ pc["installer"] = "idle" /\ TIP \in saved
    /\ saved' = saved \ {TIP} /\ since' = TRUE
    /\ UNCHANGED <<hasArabic, loaded, seen, work, chosen, crossed>>

-----------------------------------------------------------------------------
(* The user and Windows.                                                   *)

UserAdds(layout) ==
    /\ layout \notin chosen /\ chosen' = chosen \union {layout}
    /\ saved' = saved \union {layout} /\ loaded' = loaded \union {layout} /\ hasArabic' = TRUE
    /\ crossed' = (crossed \/ \E p \in Process : pc[p] # "idle") /\ since' = TRUE
    /\ UNCHANGED <<seen, work>>

\* It may stay loaded.
UserRemoves(layout) ==
    /\ layout \in chosen /\ chosen' = chosen \ {layout}
    /\ saved' = saved \ {layout} /\ loaded' \in {loaded, loaded \ {layout}} /\ since' = TRUE
    /\ crossed' = (crossed /\ chosen' # {})
    /\ UNCHANGED <<hasArabic, seen, work>>

WindowsLoads(layout) ==
    /\ layout \notin loaded /\ loaded' = loaded \union {layout} /\ since' = TRUE
    /\ UNCHANGED <<saved, hasArabic, seen, work, chosen, crossed>>

Init ==
    /\ saved = {} /\ hasArabic = FALSE /\ loaded = {} /\ seen = None
    /\ pc = [p \in Process |-> "idle"] /\ keep = [p \in Process |-> {}]
    /\ listed = [p \in Process |-> {}] /\ todo = [p \in Process |-> {}]
    /\ failed = [p \in Process |-> FALSE] /\ chosen = {} /\ crossed = FALSE /\ since = FALSE

Next ==
    \/ Check \/ Remember \/ Enable \/ Install \/ Enabled \/ Disable
    \/ \E p \in Process : ListSaved(p) \/ Enumerate(p) \/ \E layout \in todo[p] : Drop(p, layout)
    \/ \E layout \in Arabic : UserAdds(layout) \/ UserRemoves(layout)
    \/ \E layout \in Arabic \union Other : WindowsLoads(layout)

Spec == Init /\ [][Next]_vars

-----------------------------------------------------------------------------
(* Properties.                                                             *)

\* No Arabic keyboard the user chose is taken out of the list, by enabling
\* Type3arabi or by a tidy-up that runs beside it ("Keep only the layouts the
\* user already had", profile.rs), unless it was chosen while one was at work.
ChosenStay == chosen \subseteq saved \/ crossed

\* A check that is left out because the layouts are those seen last leaves no
\* stray in the session ("a failed unload is retried", t3a-hotkey/main.rs),
\* unless the list or the layouts changed after it looked at them.
SkippedChecksMissNothing ==
    pc["companion"] = "idle" /\ seen = loaded /\ ~since => loaded \intersect Arabic \subseteq saved

=============================================================================
