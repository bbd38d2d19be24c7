----------------------------- MODULE MachineHold -----------------------------
(***************************************************************************)
(* The machine claim of one running step, handed back while the step waits *)
(* on members that claim for themselves and taken again after              *)
(* (machine_gate.go's machineHold).  The step's spells run side by side    *)
(* and each may wait, so several waits lend the one claim.                 *)
(*                                                                         *)
(* The budget is left abstract: it seats a claim at some time or refuses   *)
(* it.  What it does in between is module Broker's.                        *)
(***************************************************************************)
EXTENDS Integers, FiniteSets

CONSTANTS
  Wait,      \* the waits of the step's spells
  Own,       \* the claim the step begins with
  NoClaim,
  Refuses    \* the waits whose retake the budget may refuse

ASSUME MachineHoldAssumption ==
  /\ IsFiniteSet(Wait)
  /\ Own \notin Wait /\ NoClaim \notin Wait \cup {Own} /\ Own # NoClaim
  /\ Refuses \subseteq Wait

VARIABLES
  pc,       \* of each wait
  id,       \* the claim the hold has, NoClaim while it is handed back
  lent,     \* how many waits have it lent
  seats,    \* the claims the budget has seated for the step
  ended     \* the step's end has handed the claim back

vars == <<pc, id, lent, seats, ended>>

Stage == {"out", "lending", "waiting", "riding", "retaking", "seated", "back", "refused"}

Init ==
  /\ pc = [d \in Wait |-> "out"]
  /\ id = Own
  /\ lent = 0
  /\ seats = {Own}
  /\ ended = FALSE

Go(d, stage) == pc' = [pc EXCEPT ![d] = stage]
AtRest == \A d \in Wait : pc[d] \in {"out", "back", "refused"}

\* A step that has no claim of its own waits under the one it rides.
Begin(d) ==
  /\ pc[d] = "out"
  /\ ~ended
  /\ Go(d, IF id = NoClaim THEN "riding" ELSE "lending")
  /\ UNCHANGED <<id, lent, seats, ended>>

\* The first wait hands the claim back.
Lend(d) ==
  /\ pc[d] = "lending"
  /\ lent' = lent + 1
  /\ IF lent = 0 /\ id # NoClaim
       THEN id' = NoClaim /\ seats' = seats \ {id}
       ELSE UNCHANGED <<id, seats>>
  /\ Go(d, "waiting")
  /\ UNCHANGED ended

\* Mutant of Return: the wait is still counted when it asks whether it is last.
ReturnCounted(d) ==
  /\ pc[d] = "waiting"
  /\ lent' = lent - 1
  /\ Go(d, IF lent = 0 /\ id = NoClaim THEN "retaking" ELSE "back")
  /\ UNCHANGED <<id, seats, ended>>

\* The last wait to come back takes it again.
Return(d) ==
  /\ pc[d] = "waiting"
  /\ lent' = lent - 1
  /\ Go(d, IF lent' = 0 /\ id = NoClaim THEN "retaking" ELSE "back")
  /\ UNCHANGED <<id, seats, ended>>

\* Its members are done.
RideBack(d) ==
  /\ pc[d] = "riding"
  /\ Go(d, "back")
  /\ UNCHANGED <<id, lent, seats, ended>>

\* The budget seats it, asked with no lock held: other waits begin and end.
Seat(d) ==
  /\ pc[d] = "retaking"
  /\ seats' = seats \cup {d}
  /\ Go(d, "seated")
  /\ UNCHANGED <<id, lent, ended>>

Refuse(d) ==
  /\ pc[d] = "retaking"
  /\ d \in Refuses
  /\ Go(d, "refused")
  /\ UNCHANGED <<id, lent, seats, ended>>

\* Mutants of Keep: the claim is the step's whatever began meanwhile; one that is
\* not kept is dropped.
KeepAlways(d) ==
  /\ pc[d] = "seated"
  /\ id' = d
  /\ Go(d, "back")
  /\ UNCHANGED <<lent, seats, ended>>
KeepOrForget(d) ==
  /\ pc[d] = "seated"
  /\ id' = IF lent > 0 \/ id # NoClaim THEN id ELSE d
  /\ Go(d, "back")
  /\ UNCHANGED <<lent, seats, ended>>

\* Keep it, or hand it straight back to a wait that began or one that was faster.
Keep(d) ==
  /\ pc[d] = "seated"
  /\ IF lent > 0 \/ id # NoClaim
       THEN seats' = seats \ {d} /\ UNCHANGED id
       ELSE id' = d /\ UNCHANGED seats
  /\ Go(d, "back")
  /\ UNCHANGED <<lent, ended>>

\* The step's end, once every wait has come back.
Close ==
  /\ ~ended
  /\ AtRest
  /\ ended' = TRUE
  /\ id' = NoClaim
  /\ seats' = seats \ {id}
  /\ UNCHANGED <<pc, lent>>

WaitNext(d) ==
  \/ Begin(d) \/ Lend(d) \/ Return(d) \/ RideBack(d) \/ Seat(d) \/ Refuse(d) \/ Keep(d)

Next == Close \/ \E d \in Wait : WaitNext(d)

Spec == Init /\ [][Next]_vars

-----------------------------------------------------------------------------
\* Every variable keeps its shape (machine_gate.go's machineHold).
TypeOK ==
  /\ pc \in [Wait -> Stage]
  /\ id \in Wait \cup {Own, NoClaim}
  /\ lent \in Nat
  /\ seats \subseteq Wait \cup {Own}
  /\ ended \in BOOLEAN

\* While a wait has the claim lent the step has none: one "held across the wait is
\* a seat a member ... may never get" (machine_gate.go:230).
LentIsHandedBack == lent > 0 => id = NoClaim

\* The budget charges the step for the claim it has, and for no other but those a
\* wait is about to keep or hand back: none is left behind by two that retake it.
SeatsAccounted ==
  seats = {c \in {id} : c # NoClaim} \cup {d \in Wait : pc[d] = "seated"}

\* A step whose waits have come back runs under its claim, unless the retake was
\* refused and the step is told so.
RunsClaimed ==
  AtRest /\ ~ended => id # NoClaim \/ \E d \in Wait : pc[d] = "refused"

\* "a claim on the machine budget is held, so anything admitted beneath this step
\* takes none of its own" (admission.go:24): a wait that does not lend rides a
\* claim the step has.
RidesAClaim == \A d \in Wait : pc[d] = "riding" => id # NoClaim
=============================================================================
