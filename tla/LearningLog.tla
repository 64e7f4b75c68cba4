---------------------------- MODULE LearningLog ----------------------------
(***************************************************************************)
(* What the persistent user store promises of the learning it keeps on     *)
(* disk: every record ever written counts once until the next wipe, and    *)
(* not at all from then on.  Compactions, failed file operations, crashes  *)
(* and restarts are not visible at this level.                             *)
(***************************************************************************)
EXTENDS Naturals

CONSTANTS Id        \* identities of the journal records

VARIABLES learned,  \* learned[n]: how often record n counts for a process that starts now
          seen      \* the records ever written to the journal

Nothing == [n \in Id |-> 0]

Init == learned = Nothing /\ seen = {}

\* A choice, or negative evidence, is written: it counts once.
Learn(n) ==
    /\ n \notin seen
    /\ learned' = [learned EXCEPT ![n] = 1]
    /\ seen' = seen \union {n}

\* A wipe is written: nothing written before it counts any more.
Forget(n) ==
    /\ n \notin seen
    /\ learned' = Nothing
    /\ seen' = seen \union {n}

Next == \E n \in Id : Learn(n) \/ Forget(n)

Spec == Init /\ [][Next]_<<learned, seen>>
=============================================================================
