---------------------------- MODULE ProjectLockMC ----------------------------
(***************************************************************************)
(* The plans the project locks are checked on: four invocations on at most *)
(* three projects.                                                         *)
(***************************************************************************)
EXTENDS ProjectLock, TLC

CONSTANTS i1, i2, i3, i4, p1, p2, p3, p4

FourInvs == {i1, i2, i3, i4}

InOrder == [i \in Inv |-> CASE i = i1 -> 1 [] i = i2 -> 2 [] i = i3 -> 3 [] OTHER -> 4]

\* Invocations that lock one project each, in a process each, one after the other.
Apart == [
  wants     |-> [i \in Inv |-> {1}],
  process   |-> [i \in Inv |-> CASE i = i1 -> p1 [] i = i2 -> p2 [] i = i3 -> p3 [] OTHER -> p4],
  role      |-> [i \in Inv |-> "plain"],
  started   |-> InOrder,
  run       |-> [i \in Inv |-> i],
  ancestors |-> [i \in Inv |-> {}],
  statuses  |-> FALSE, kills |-> {}, stalls |-> {}]

\* Three gates and a background refresh, the first to begin; a status, a gate
\* that is killed and one that stalls.
Queue4 == [i \in Inv |-> IF i = i1 THEN "background" ELSE "gate"]
Gates == [Apart EXCEPT !.role = Queue4]
GatesFail == [Gates EXCEPT !.statuses = TRUE, !.kills = {p3}, !.stalls = {i2}]

\* Three invocations of one process on overlapping projects, and a fourth
\* elsewhere.
Server == [Apart EXCEPT
  !.wants   = [i \in Inv |-> CASE i = i3 -> {2, 3} [] i = i4 -> {2} [] OTHER -> {1, 2}],
  !.process = [i \in Inv |-> IF i = i4 THEN p4 ELSE p1],
  !.role    = [i \in Inv |->
    CASE i \in {i1, i3} -> "gate" [] i = i2 -> "background" [] OTHER -> "plain"]]

\* A run, the magus of one of its steps, a second one its own process serves,
\* and a stranger.
Nest == [Apart EXCEPT
  !.wants     = [i \in Inv |-> CASE i = i1 -> {2} [] i = i4 -> {1} [] OTHER -> {1, 2}],
  !.process   = [i \in Inv |-> CASE i \in {i1, i3} -> p1 [] i = i2 -> p2 [] OTHER -> p4],
  !.run       = [i \in Inv |-> IF i = i4 THEN i4 ELSE i1],
  !.ancestors = [i \in Inv |-> IF i \in {i2, i3} THEN {i1} ELSE {}]]

\* The same, where the run is killed from under the others: the run, the magus of its
\* step and the stranger want one project.
Corpse == [Nest EXCEPT !.wants = [i \in Inv |-> IF i = i3 THEN {2} ELSE {1}], !.kills = {p1}]

HoldingPlans == {GatesFail, Server, Nest, Corpse}

-----------------------------------------------------------------------------
\* One plan each, for what the code says and does not do.
None(i) == [Apart.wants EXCEPT ![i] = {}]

BoundPlan   == {Gates}
RequestPlan == {[Apart EXCEPT !.wants = None(i4), !.role = [i \in Inv |-> "gate"]]}
ProbePlan   == {[Apart EXCEPT !.wants = None(i4), !.statuses = TRUE, !.kills = {p1}]}

\* Two siblings of one run, each with a nested magus that wants the other's lock.
SiblingPlan == {[Apart EXCEPT
  !.wants     = [i \in Inv |-> IF i \in {i1, i4} THEN {1} ELSE {2}],
  !.run       = [i \in Inv |-> i1],
  !.ancestors = [i \in Inv |-> CASE i = i3 -> {i1} [] i = i4 -> {i2} [] OTHER -> {}]]}

SurprisingPlans == BoundPlan \cup RequestPlan \cup ProbePlan \cup {Corpse} \cup SiblingPlan
=============================================================================
