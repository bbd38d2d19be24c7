---------------------------- MODULE MachineBudget ----------------------------
(***************************************************************************)
(* The verdict of the machine-wide admission budget (internal/cache/       *)
(* machine.go, MachineBudget).  The budget is a table of granted claims;   *)
(* the operators below say, for a set "held" of requests whose claims are  *)
(* in that table, what the budget answers one more request.                *)
(*                                                                         *)
(* A claim with no memory profile is charged its peak until it is          *)
(* released, and every claim of this module is such a claim: the curves of *)
(* a profile are left out, so memory is one more axis of the budget.       *)
(***************************************************************************)
EXTENDS Integers, Sequences, FiniteSets, FiniteSetsExt, SequencesExt

CONSTANTS
  Request,      \* requests on the budget, one per step that asks
  Invocation,   \* the invocation references the claims carry
  Wrapper,      \* the invocations that only wrap a command (IsWrapperInvocation)
  NoRun,        \* the empty reference ("" in the code): an unstamped claim names it
  Claim,        \* the claim of each request
  BudgetSlots,  \* 0 or less is unlimited
  BudgetMB      \* 0 or less is unlimited

ClaimType ==
  [invocation: Invocation \cup {NoRun}, ancestors: Seq(Invocation),
   slots: Nat, mb: Nat, pid: Nat, weight: Nat]

ASSUME BudgetAssumption ==
  /\ IsFiniteSet(Request)
  /\ NoRun \notin Invocation
  /\ Wrapper \subseteq Invocation
  /\ Claim \in [Request -> ClaimType]
  /\ BudgetSlots \in Int
  /\ BudgetMB \in Int

-----------------------------------------------------------------------------
AncestorsOf(r) == ToSet(Claim[r].ancestors)

\* The outermost invocation r runs underneath, or its own.
Run(r) ==
  IF Claim[r].ancestors = <<>> THEN Claim[r].invocation ELSE Head(Claim[r].ancestors)

\* A claim that names no slots is one slot.
SlotsOf(r) == IF Claim[r].slots < 1 THEN 1 ELSE Claim[r].slots

SumSlots(S) == SumFunctionOnSet([r \in Request |-> SlotsOf(r)], S)
SumMB(S)    == SumFunctionOnSet([r \in Request |-> Claim[r].mb], S)

\* Mutant of FitsBeside: memory is not budgeted.
FitsBesideInSlots(r, S) == BudgetSlots > 0 => SumSlots(S) + SlotsOf(r) <= BudgetSlots

\* r and the claims of S together stay within the budget on both axes.
FitsBeside(r, S) ==
  /\ BudgetSlots > 0 => SumSlots(S) + SlotsOf(r) <= BudgetSlots
  /\ BudgetMB > 0    => SumMB(S) + Claim[r].mb <= BudgetMB

\* No state of the machine admits a request that does not fit alone.
FitsAlone(r) == FitsBeside(r, {})

\* The held claims of an invocation r runs underneath: its holder is blocked
\* in exec until r has run, so none of them counts against r.
Excused(r, held) == {q \in held : Claim[q].invocation \in AncestorsOf(r)}

\* Mutant of FreeSeats: the bottom of a chain has no seat of its own.
FreeSeatsNone(r, held) == {}

\* Mutant of FreeSeats: an ancestor gives its seat to everyone underneath.
FreeSeatsUncapped(r, held) ==
  {a \in AncestorsOf(r) : \E q \in held : Claim[q].invocation = a}

\* Make's jobserver rule: an ancestor that holds a claim, with no claim held
\* underneath it, has one seat to give whatever else is held.  A wrapper runs
\* no step, so its own claim neither earns a seat nor spends one.
FreeSeats(r, held) ==
  LET steps == {q \in held : Claim[q].invocation \notin Wrapper}
  IN  {a \in AncestorsOf(r) :
         /\ \E q \in steps : Claim[q].invocation = a
         /\ \A q \in steps : a \notin AncestorsOf(q)}

FitsHeld(r, held) == FitsBeside(r, held \ Excused(r, held))

\* Request grants r.
Admits(r, held) ==
  /\ FitsAlone(r)
  /\ FitsHeld(r, held) \/ FreeSeats(r, held) # {}

\* The ancestors a grant of r is charged to: none when it fits.
ChargeOf(r, held) == IF FitsHeld(r, held) THEN {} ELSE FreeSeats(r, held)
=============================================================================
