------------------------------ MODULE Admission ------------------------------
(***************************************************************************)
(* What a broker promises about the machine: a request asks once, waits,   *)
(* and is seated only when the budget admits it beside the claims seated   *)
(* then, or is recorded unasked when its work already runs.  Which waiting *)
(* request is tried, and behind which other, is left open here: Broker adds *)
(* the queue and is shown to implement this module.  The three actions on  *)
(* seats are MachineBudget's Request, Assert and Release.                  *)
(***************************************************************************)
EXTENDS MachineBudget

CONSTANTS
  Unasked,   \* requests whose work already runs: re-asserted claims, job exec holds
  Parent,    \* the step whose command is the magus that asks, NoParent for a root
  NoParent

ASSUME AdmissionAssumption ==
  /\ Unasked \subseteq Request
  /\ \A r \in Request : Claim[r].invocation \in Wrapper => r \in Unasked
  /\ NoParent \notin Request
  /\ Parent \in [Request -> Request \cup {NoParent}]

VARIABLES
  phase,     \* of each request: not asked yet, waiting, seated or over
  charged    \* history: the ancestors whose free seat a request was given

admissionVars == <<phase, charged>>

Phase == {"idle", "waiting", "seated", "over"}

Waiting == {r \in Request : phase[r] = "waiting"}
Seated  == {r \in Request : phase[r] = "seated"}

AdmissionTypeOK ==
  /\ phase \in [Request -> Phase]
  /\ charged \in [Request -> SUBSET Invocation]

AdmissionInit ==
  /\ phase = [r \in Request |-> "idle"]
  /\ charged = [r \in Request |-> {}]

\* A magus asks while the step that started it holds its seat.
Ask(r) ==
  /\ phase[r] = "idle"
  /\ Parent[r] # NoParent => phase[Parent[r]] = "seated"
  /\ phase' = [phase EXCEPT ![r] = "waiting"]
  /\ UNCHANGED charged

\* r may be tried as if one other waiting request already held its seat.
Ahead(r) == {{}} \cup {{q} : q \in Waiting \ {r}}

Seat(r) ==
  /\ phase[r] = "waiting"
  /\ r \notin Unasked
  /\ \E ahead \in Ahead(r) :
       /\ Admits(r, Seated \cup ahead)
       /\ charged' = [charged EXCEPT ![r] = ChargeOf(r, Seated \cup ahead)]
  /\ phase' = [phase EXCEPT ![r] = "seated"]

Record(r) ==
  /\ phase[r] = "waiting"
  /\ r \in Unasked
  /\ phase' = [phase EXCEPT ![r] = "seated"]
  /\ UNCHANGED charged

\* A seat is handed back, by its holder or because its connection closed.
Release(r) ==
  /\ phase[r] = "seated"
  /\ phase' = [phase EXCEPT ![r] = "over"]
  /\ UNCHANGED charged

\* Requests are answered with no seat: too large, cancelled, or turned away,
\* a whole queue at once when the broker stops.
Withdraw(S) ==
  /\ S # {}
  /\ phase' = [r \in Request |-> IF r \in S THEN "over" ELSE phase[r]]
  /\ UNCHANGED charged

AdmissionNext ==
  \/ \E r \in Request : Ask(r) \/ Seat(r) \/ Record(r) \/ Release(r)
  \/ \E S \in SUBSET Waiting : Withdraw(S)

AdmissionSpec == AdmissionInit /\ [][AdmissionNext]_admissionVars

-----------------------------------------------------------------------------
\* A magus asks with its parent's chain and its parent's own reference at the end,
\* and a reference names one invocation, started underneath one chain.
Chained ==
  /\ \A r \in Request : Parent[r] # NoParent =>
       Claim[r].ancestors = Append(Claim[Parent[r]].ancestors, Claim[Parent[r]].invocation)
  /\ \A q, r \in Request : \A i \in 1..Len(Claim[r].ancestors) :
       Claim[r].ancestors[i] = Claim[q].invocation
         => Claim[q].ancestors = SubSeq(Claim[r].ancestors, 1, i - 1)

\* A seated request nobody seated runs underneath.
Leaves ==
  {r \in Seated : \A q \in Seated : Claim[r].invocation \notin AncestorsOf(q)}

\* The leaves that were admitted because they fit.
RegularLeaves == {r \in Leaves : r \notin Unasked /\ charged[r] = {}}

\* What runs is what the machine was budgeted for.  A blocked ancestor's claim
\* is excused and a free seat or an unasked claim comes on top, but the steps
\* that were seated because they fit, with nothing seated beneath them, never
\* exceed the budget together (fitsOverTime, machine.go:211, with held, :187).
RegularLeavesFit ==
  /\ BudgetSlots > 0 => SumSlots(RegularLeaves) <= BudgetSlots
  /\ BudgetMB > 0    => SumMB(RegularLeaves) <= BudgetMB

\* "Charging the seat to the stalled ancestor caps over-admission at one claim
\* per stalled ancestor" (freeSlot, machine.go:364-365): two claims seated on a
\* free seat at once were never given the same ancestor's.
OneFreeSeatPerAncestor ==
  \A r, q \in Seated : r # q => charged[r] \cap charged[q] = {}

\* A step whose magus waits or runs is blocked in exec on it; a wrapper is not,
\* since its deadline ends it whatever its command waits for.
Blocked(q) ==
  /\ Claim[q].invocation \notin Wrapper
  /\ \E c \in Request : Parent[c] = q /\ phase[c] \in {"waiting", "seated"}

\* "The bottom of every chain can always run and recursive make cannot wedge
\* however it nests" (freeSlot, machine.go:355-357): when nothing seated can
\* finish on its own, the budget admits some request that waits, or some
\* waiting request is one it refuses outright.
NeverWedged ==
  (\A q \in Seated : Blocked(q)) /\ Waiting # {}
    => \E r \in Waiting :
         r \in Unasked \/ Admits(r, Seated) \/ ~FitsAlone(r)
=============================================================================
