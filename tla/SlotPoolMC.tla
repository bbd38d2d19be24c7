----------------------------- MODULE SlotPoolMC -----------------------------
(***************************************************************************)
(* Scenes for SlotPool: trees of tasks, their weights, locks, reservations.*)
(***************************************************************************)
EXTENDS SlotPool

CONSTANTS a, b, c, d, e, k

Light == [t \in Task |-> 1]
Heavy == [t \in Task |-> IF t = e THEN 2 ELSE 1]
Unlocked == [t \in Task |-> NoKey]
LockedAD == [t \in Task |-> IF t \in {a, d} THEN k ELSE NoKey]
Plainly == [t \in Task |-> 0]
ReserveE == [t \in Task |-> IF t = e THEN 2 ELSE 0]

\* b and c are a's spells, run side by side.
Fan == [t \in Task |-> IF t \in {b, c} THEN a ELSE NoTask]
\* b is a's spell.
One == [t \in Task |-> IF t = b THEN a ELSE NoTask]
=============================================================================
