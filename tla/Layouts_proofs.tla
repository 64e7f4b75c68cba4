--------------------------- MODULE Layouts_proofs ---------------------------
(***************************************************************************)
(* Theorems about Layouts: no keyboard the user chose is taken out of the   *)
(* list, and no stray is forgotten, for any layouts.                       *)
(***************************************************************************)
EXTENDS Layouts, TLAPS

Types ==
    /\ pc \in [Process -> {"idle", "install", "list", "enumerate", "drop"}]
    /\ keep \in [Process -> SUBSET (Arabic \union Other \union {TIP})]
    /\ todo \in [Process -> SUBSET Arabic]
    /\ saved \subseteq Arabic \union Other \union {TIP}
    /\ chosen \subseteq Arabic
    /\ crossed \in BOOLEAN /\ hasArabic \in BOOLEAN

\* What a process p holds is no danger to the chosen layouts: it keeps them until
\* it knows its strays, and none of them is among these.
Harmless(p) ==
    /\ pc[p] \in {"install", "list", "enumerate"} => chosen \subseteq keep[p]
    /\ todo[p] \intersect chosen = {}

Inv ==
    /\ Types
    /\ \A p \in Process : pc[p] # "drop" => todo[p] = {}
    /\ chosen # {} => hasArabic
    /\ ~crossed => chosen \subseteq saved /\ \A p \in Process : Harmless(p)

\* Every step keeps the invariant.
LEMMA InvStep ==
    ASSUME TIP \notin Arabic
    PROVE  Inv /\ [Next]_vars => Inv'
<1> SUFFICES ASSUME Inv, [Next]_vars PROVE Inv'
  OBVIOUS
<1> USE DEF Inv, Types, Harmless, Goto
<1>1. CASE Check
  <2>1. CASE TIP \in saved
    BY <1>1, <2>1 DEF Check, Begin, Process, lists
  <2>2. CASE TIP \notin saved
    BY <1>1, <2>2 DEF Check, Process, lists
  <2> QED BY <2>1, <2>2
<1>2. CASE Remember \/ Enabled
  BY <1>2 DEF Remember, Enabled, Done, Process, lists
<1>3. CASE Enable
  BY <1>3 DEF Enable, Process, lists
<1>4. CASE Install
  <2>1. \/ /\ Begin("installer", keep["installer"])
           /\ \E extra \in SUBSET Arabic : saved' = saved \union {TIP} \union extra
           /\ hasArabic' = TRUE
        \/ /\ Goto("installer", "idle") /\ keep' = [keep EXCEPT !["installer"] = {}]
           /\ UNCHANGED lists
    BY <1>4 DEF Install
  <2>2. pc["installer"] = "install" /\ UNCHANGED <<todo, chosen, crossed>>
    BY <1>4 DEF Install
  <2>3. "installer" \in Process
    BY DEF Process
  <2>4. CASE Begin("installer", keep["installer"]) /\ hasArabic' = TRUE
             /\ \E extra \in SUBSET Arabic : saved' = saved \union {TIP} \union extra
    BY <2>2, <2>3, <2>4 DEF Begin
  <2>5. CASE Goto("installer", "idle") /\ keep' = [keep EXCEPT !["installer"] = {}] /\ UNCHANGED lists
    BY <2>2, <2>3, <2>5 DEF lists
  <2> QED BY <2>1, <2>4, <2>5
<1>5. CASE Disable
  BY <1>5 DEF Disable, work
<1>6. ASSUME NEW p \in Process, ListSaved(p) PROVE Inv'
  BY <1>6 DEF ListSaved, lists
<1>7. ASSUME NEW p \in Process, Enumerate(p) PROVE Inv'
  BY <1>7 DEF Enumerate, lists
<1>8. ASSUME NEW p \in Process, NEW layout \in todo[p], Drop(p, layout) PROVE Inv'
  BY <1>8 DEF Drop
<1>9. ASSUME NEW layout \in Arabic, UserAdds(layout) PROVE Inv'
  BY <1>9 DEF UserAdds, work
<1>10. ASSUME NEW layout \in Arabic, UserRemoves(layout) PROVE Inv'
  BY <1>10 DEF UserRemoves, work
<1>11. ASSUME NEW layout, WindowsLoads(layout) PROVE Inv'
  BY <1>11 DEF WindowsLoads, work
<1>12. CASE UNCHANGED vars
  BY <1>12 DEF vars, lists, work
<1> QED BY <1>1, <1>2, <1>3, <1>4, <1>5, <1>6, <1>7, <1>8, <1>9, <1>10, <1>11, <1>12 DEF Next

\* Enabling Type3arabi and tidying up take no keyboard the user chose out of the
\* list, in whatever order the steps of both, the user and Windows come, for any
\* set of layouts (drop_layouts_except, enable, tidy).
THEOREM ChosenNeverDropped ==
    ASSUME TIP \notin Arabic
    PROVE  Spec => []ChosenStay
<1>1. Init => Inv
  BY DEF Init, Inv, Types, Harmless
<1>2. Inv => ChosenStay
  BY DEF Inv, ChosenStay
<1> QED BY <1>1, <1>2, InvStep, PTL DEF Spec

-----------------------------------------------------------------------------
(* Skipped checks.                                                         *)

\* What the companion knows of the session while nobody else touches it: the
\* list is the one it keeps, and a stray is to be dropped or one it could not.
Knows ==
    CASE pc["companion"] = "idle"      -> seen = loaded => loaded \intersect Arabic \subseteq saved
      [] pc["companion"] = "list"      -> saved = keep["companion"]
      [] pc["companion"] = "enumerate" -> saved = keep["companion"] /\ saved = listed["companion"]
      [] OTHER -> /\ saved = keep["companion"] /\ saved = listed["companion"]
                  /\ todo["companion"] \intersect saved = {}
                  /\ \/ failed["companion"]
                     \/ loaded \intersect Arabic \subseteq saved \union todo["companion"]

SkipInv ==
    /\ pc \in [Process -> {"idle", "install", "list", "enumerate", "drop"}]
    /\ pc["companion"] # "install"
    /\ DOMAIN keep = Process /\ DOMAIN listed = Process /\ DOMAIN todo = Process /\ DOMAIN failed = Process
    /\ loaded \subseteq Arabic \union Other
    /\ ~since => Knows

\* What the installer, the user and Windows do to the layouts sets `since`, and
\* nothing else of theirs is the companion's.
LEMMA OthersKeep ==
    ASSUME SkipInv, since' \/ UNCHANGED <<since, saved, loaded>>, UNCHANGED seen,
           loaded' \subseteq Arabic \union Other,
           pc' \in [Process -> {"idle", "install", "list", "enumerate", "drop"}],
           DOMAIN keep' = Process, DOMAIN listed' = Process, DOMAIN todo' = Process, DOMAIN failed' = Process,
           /\ pc'["companion"] = pc["companion"] /\ keep'["companion"] = keep["companion"]
           /\ listed'["companion"] = listed["companion"] /\ todo'["companion"] = todo["companion"]
           /\ failed'["companion"] = failed["companion"]
    PROVE  SkipInv'
BY DEF SkipInv, Knows

\* Every step of the companion keeps it.
LEMMA CompanionKeeps ==
    ASSUME SkipInv, "none" \notin Arabic \union Other,
           \/ Check \/ Remember \/ ListSaved("companion") \/ Enumerate("companion")
           \/ \E layout \in todo["companion"] : Drop("companion", layout)
    PROVE  SkipInv'
<1> USE DEF SkipInv, Process, Goto, lists
<1>1. CASE Check
  BY <1>1 DEF Check, Begin, Knows
<1>2. CASE Remember
  <2>1. /\ pc' = [pc EXCEPT !["companion"] = "idle"] /\ todo["companion"] = {}
        /\ pc["companion"] = "drop" /\ UNCHANGED <<saved, loaded, todo, since>>
        /\ seen' = IF failed["companion"] THEN None ELSE loaded
        /\ DOMAIN keep' = Process /\ DOMAIN listed' = Process /\ DOMAIN failed' = Process
    BY <1>2 DEF Remember, Done
  <2>2. None # loaded
    BY DEF None
  <2> QED BY <2>1, <2>2 DEF Knows
<1>3. CASE ListSaved("companion")
  BY <1>3 DEF ListSaved, Knows
<1>4. CASE Enumerate("companion")
  BY <1>4 DEF Enumerate, Knows
<1>5. ASSUME NEW layout \in todo["companion"], Drop("companion", layout) PROVE SkipInv'
  <2> DEFINE old  == todo["companion"]
             left == old \ {layout}
  <2>1. /\ pc["companion"] = "drop" /\ UNCHANGED <<pc, keep, listed, seen>> /\ (since => since')
        /\ loaded' \subseteq loaded /\ loaded \ {layout} \subseteq loaded'
        /\ DOMAIN todo' = Process /\ DOMAIN failed' = Process
    <3>1. pc["companion"] = "drop" /\ UNCHANGED <<pc, keep, listed, seen>> /\ (since => since')
      BY <1>5 DEF Drop
    <3>2. loaded' = loaded \/ loaded' = loaded \ {layout}
      BY <1>5 DEF Drop
    <3>3. DOMAIN todo' = Process /\ DOMAIN failed' = Process
      BY <1>5 DEF Drop
    <3> QED BY <3>1, <3>2, <3>3
  <2>2. todo'["companion"] = left
    BY <1>5 DEF Drop
  <2>3. failed["companion"] => failed'["companion"]
    BY <1>5 DEF Drop
  <2>4. layout \notin loaded' \/ failed'["companion"]
    BY <1>5 DEF Drop
  <2>5. saved = listed["companion"] /\ old \intersect saved = {} => saved' = saved
    BY <1>5 DEF Drop
  <2> HIDE DEF old, left
  <2>6. ASSUME ~since' PROVE Knows'
    <3>1. /\ saved = keep["companion"] /\ saved = listed["companion"] /\ old \intersect saved = {}
          /\ failed["companion"] \/ loaded \intersect Arabic \subseteq saved \union old
      BY <2>1, <2>6 DEF Knows, old
    <3>2. left \intersect saved' = {} /\ saved' = saved
      BY <2>5, <3>1 DEF left
    <3>3. failed'["companion"] \/ loaded' \intersect Arabic \subseteq saved' \union left
      BY <2>1, <2>3, <2>4, <3>1, <3>2 DEF left
    <3> QED BY <2>1, <2>2, <3>1, <3>2, <3>3 DEF Knows
  <2> QED BY <2>1, <2>6
<1> QED BY <1>1, <1>2, <1>3, <1>4, <1>5

\* ... and so does every other step.
LEMMA SkipStep ==
    ASSUME "none" \notin Arabic \union Other
    PROVE  SkipInv /\ [Next]_vars => SkipInv'
<1> SUFFICES ASSUME SkipInv, [Next]_vars PROVE SkipInv'
  OBVIOUS
<1> USE DEF Process, Goto, lists
<1>1. ASSUME NEW p \in Process, \/ ListSaved(p) \/ Enumerate(p) \/ \E layout \in todo[p] : Drop(p, layout)
      PROVE  SkipInv'
  <2>1. CASE p = "companion"
    BY <1>1, <2>1, CompanionKeeps
  <2>2. CASE p = "installer"
    BY <1>1, <2>2, OthersKeep DEF ListSaved, Enumerate, Drop, SkipInv
  <2> QED BY <2>1, <2>2
<1>2. CASE Check \/ Remember
  BY <1>2, CompanionKeeps
<1>3. CASE Enable \/ Enabled \/ Disable
  BY <1>3, OthersKeep DEF Enable, Enabled, Done, Disable, work, SkipInv
<1>4. CASE Install
  BY <1>4, OthersKeep DEF Install, Begin, SkipInv
<1>5. ASSUME NEW layout \in Arabic \union Other, UserAdds(layout) \/ UserRemoves(layout) \/ WindowsLoads(layout)
      PROVE  SkipInv'
  BY <1>5, OthersKeep DEF UserAdds, UserRemoves, WindowsLoads, work, SkipInv
<1>6. CASE UNCHANGED vars
  BY <1>6, OthersKeep DEF vars, work, SkipInv
<1> QED BY <1>1, <1>2, <1>3, <1>4, <1>5, <1>6 DEF Next

\* A check that is skipped leaves no stray, unless somebody else changed the list
\* or the layouts after the companion looked at them, for any set of layouts
\* (tidy_if_changed, TIDY_SEEN).
THEOREM SkippedChecksAreDone ==
    ASSUME "none" \notin Arabic \union Other
    PROVE  Spec => []SkippedChecksMissNothing
<1>1. Init => SkipInv
  <2> SUFFICES ASSUME Init PROVE SkipInv
    OBVIOUS
  <2>1. loaded = {} /\ pc["companion"] = "idle" /\ pc \in [Process -> {"idle"}]
    BY DEF Init, Process
  <2> QED BY <2>1 DEF Init, SkipInv, Knows
<1>2. SkipInv => SkippedChecksMissNothing
  BY DEF SkipInv, Knows, SkippedChecksMissNothing
<1> QED BY <1>1, <1>2, SkipStep, PTL DEF Spec
=============================================================================
