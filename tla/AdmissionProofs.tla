--------------------------- MODULE AdmissionProofs ---------------------------
(***************************************************************************)
(* What the admission budget promises for every set of requests and every  *)
(* nesting of them: its types, the cap on free seats, and that what was    *)
(* seated because it fits still fits, and that nested magus never wedge.   *)
(***************************************************************************)
EXTENDS Admission, BudgetProofs

\* A free seat is an ancestor of the request it is given to.
LEMMA FreeSeatsType ==
  ASSUME NEW r \in Request, NEW held
  PROVE  /\ AncestorsOf(r) \subseteq Invocation
         /\ FreeSeats(r, held) \subseteq AncestorsOf(r)
         /\ ChargeOf(r, held) \subseteq AncestorsOf(r)
<1>1. Claim[r].ancestors \in Seq(Invocation)
  BY BudgetAssumption DEF ClaimType
<1>2. AncestorsOf(r) \subseteq Invocation
  BY <1>1 DEF AncestorsOf, ToSet
<1>3. FreeSeats(r, held) \subseteq AncestorsOf(r)
  BY DEF FreeSeats
<1>. QED  BY <1>2, <1>3 DEF ChargeOf

\* phase and charged keep their types through every action of Admission.
THEOREM AdmissionTypeCorrect == AdmissionSpec => []AdmissionTypeOK
<1>1. AdmissionInit => AdmissionTypeOK
  BY DEF AdmissionInit, AdmissionTypeOK, Phase
<1>2. AdmissionTypeOK /\ [AdmissionNext]_admissionVars => AdmissionTypeOK'
  <2> SUFFICES ASSUME AdmissionTypeOK, [AdmissionNext]_admissionVars
               PROVE  AdmissionTypeOK'
    OBVIOUS
  <2>1. ASSUME NEW r \in Request, Ask(r) PROVE AdmissionTypeOK'
    BY <2>1 DEF Ask, AdmissionTypeOK, Phase
  <2>2. ASSUME NEW r \in Request, Seat(r) PROVE AdmissionTypeOK'
    <3>1. PICK ahead \in Ahead(r) :
            charged' = [charged EXCEPT ![r] = ChargeOf(r, Seated \cup ahead)]
      BY <2>2 DEF Seat
    <3>2. ChargeOf(r, Seated \cup ahead) \in SUBSET Invocation
      BY FreeSeatsType
    <3>. QED  BY <2>2, <3>1, <3>2 DEF Seat, AdmissionTypeOK, Phase
  <2>3. ASSUME NEW r \in Request, Record(r) PROVE AdmissionTypeOK'
    BY <2>3 DEF Record, AdmissionTypeOK, Phase
  <2>4. ASSUME NEW r \in Request, Release(r) PROVE AdmissionTypeOK'
    BY <2>4 DEF Release, AdmissionTypeOK, Phase
  <2>5. ASSUME NEW S \in SUBSET Waiting, Withdraw(S) PROVE AdmissionTypeOK'
    BY <2>5 DEF Withdraw, AdmissionTypeOK, Phase
  <2>6. CASE UNCHANGED admissionVars
    BY <2>6 DEF admissionVars, AdmissionTypeOK
  <2>. QED  BY <2>1, <2>2, <2>3, <2>4, <2>5, <2>6 DEF AdmissionNext
<1>. QED  BY <1>1, <1>2, PTL DEF AdmissionSpec

-----------------------------------------------------------------------------
\* The strengthening the cap needs: nobody is charged before it is seated nor
\* for being recorded unasked, and who is charged runs underneath whom it was
\* charged to.
ChargedToAncestors ==
  \A r \in Request :
    /\ charged[r] \subseteq AncestorsOf(r)
    /\ charged[r] # {} => phase[r] \in {"seated", "over"} /\ r \notin Unasked

SeatInv == AdmissionTypeOK /\ ChargedToAncestors /\ OneFreeSeatPerAncestor

\* The seat an ancestor has to give is given to one claim at a time, however the
\* requests nest and whichever of them the seats are charged for (freeSlot,
\* machine.go:376-400).
THEOREM OneFreeSeat == AdmissionSpec => []OneFreeSeatPerAncestor
<1>1. AdmissionInit => SeatInv
  BY DEF AdmissionInit, SeatInv, AdmissionTypeOK, Phase, ChargedToAncestors,
         OneFreeSeatPerAncestor, Seated
<1>2. SeatInv /\ AdmissionTypeOK' /\ [AdmissionNext]_admissionVars => SeatInv'
  <2> SUFFICES ASSUME SeatInv, AdmissionTypeOK', [AdmissionNext]_admissionVars
               PROVE  ChargedToAncestors' /\ OneFreeSeatPerAncestor'
    BY DEF SeatInv
  <2> USE DEF SeatInv, AdmissionTypeOK, ChargedToAncestors, OneFreeSeatPerAncestor, Seated
  <2>1. ASSUME NEW r \in Request, Ask(r)
        PROVE  ChargedToAncestors' /\ OneFreeSeatPerAncestor'
    BY <2>1 DEF Ask, AncestorsOf
  <2>2. ASSUME NEW r \in Request, Seat(r)
        PROVE  ChargedToAncestors' /\ OneFreeSeatPerAncestor'
    <3>1. PICK ahead \in Ahead(r) :
            charged' = [charged EXCEPT ![r] = ChargeOf(r, Seated \cup ahead)]
      BY <2>2 DEF Seat
    <3> DEFINE charge == ChargeOf(r, Seated \cup ahead)
    <3>2. charge \subseteq AncestorsOf(r)
      BY FreeSeatsType
    <3>3. /\ phase' = [phase EXCEPT ![r] = "seated"]
          /\ phase[r] = "waiting"
          /\ r \notin Unasked
      BY <2>2 DEF Seat
    <3>4. ChargedToAncestors'
      BY <3>1, <3>2, <3>3 DEF AncestorsOf
    \* A seated claim charged to an ancestor runs a step underneath it, which is
    \* what takes the seat from the ancestor.
    <3>5. ASSUME NEW q \in Request, q # r, phase[q] = "seated"
          PROVE  charged[q] \cap charge = {}
      <4> SUFFICES ASSUME NEW a \in charged[q], a \in charge  PROVE FALSE
        OBVIOUS
      <4>1. Claim[q].invocation \notin Wrapper
        BY AdmissionAssumption, <3>5
      <4>2. a \in AncestorsOf(q)
        BY <3>5
      <4>3. a \in FreeSeats(r, Seated \cup ahead)
        BY DEF ChargeOf
      <4>. QED  BY <3>5, <4>1, <4>2, <4>3 DEF FreeSeats
    <3>6. OneFreeSeatPerAncestor'
      <4> SUFFICES ASSUME NEW x \in Request, NEW y \in Request, x # y,
                          phase'[x] = "seated", phase'[y] = "seated"
                   PROVE  charged'[x] \cap charged'[y] = {}
        OBVIOUS
      <4>1. CASE x = r
        <5>1. y # r /\ phase[y] = "seated" /\ charged'[y] = charged[y] /\ charged'[x] = charge
          BY <4>1, <3>1, <3>3
        <5>. QED  BY <5>1, <3>5
      <4>2. CASE y = r
        <5>1. x # r /\ phase[x] = "seated" /\ charged'[x] = charged[x] /\ charged'[y] = charge
          BY <4>2, <3>1, <3>3
        <5>. QED  BY <5>1, <3>5
      <4>3. CASE x # r /\ y # r
        BY <4>3, <3>1, <3>3
      <4>. QED  BY <4>1, <4>2, <4>3
    <3>. QED  BY <3>4, <3>6
  <2>3. ASSUME NEW r \in Request, Record(r)
        PROVE  ChargedToAncestors' /\ OneFreeSeatPerAncestor'
    BY <2>3 DEF Record, AncestorsOf
  <2>4. ASSUME NEW r \in Request, Release(r)
        PROVE  ChargedToAncestors' /\ OneFreeSeatPerAncestor'
    BY <2>4 DEF Release, AncestorsOf
  <2>5. ASSUME NEW S \in SUBSET Waiting, Withdraw(S)
        PROVE  ChargedToAncestors' /\ OneFreeSeatPerAncestor'
    BY <2>5 DEF Withdraw, AncestorsOf, Waiting
  <2>6. CASE UNCHANGED admissionVars
    BY <2>6 DEF admissionVars, AncestorsOf
  <2>. QED  BY <2>1, <2>2, <2>3, <2>4, <2>5, <2>6 DEF AdmissionNext
<1>. QED  BY <1>1, <1>2, AdmissionTypeCorrect, PTL DEF AdmissionSpec, SeatInv
-----------------------------------------------------------------------------
\* The requests seated because they fit.
Regular == {r \in Seated : r \notin Unasked /\ charged[r] = {}}

\* The strengthening the budget needs: who is a leaf changes as steps come and go,
\* so it is every set of regular claims, none above another, that fits.
UnrelatedFit == \A S \in SUBSET Regular : Unrelated(S) => Fits(S)

FitInv == AdmissionTypeOK /\ UnrelatedFit

LEMMA LeavesAmongThem == FitInv => RegularLeavesFit
<1>1. RegularLeaves \subseteq Regular /\ Unrelated(RegularLeaves)
  BY DEF RegularLeaves, Leaves, Regular, Unrelated
<1>. QED  BY <1>1 DEF FitInv, UnrelatedFit, Fits, RegularLeavesFit

\* Who was not seated in this step was regular before it.
LEMMA FewerRegular ==
  ASSUME UnrelatedFit, Regular' \subseteq Regular
  PROVE  UnrelatedFit'
<1> SUFFICES ASSUME NEW S \in SUBSET Regular', Unrelated(S)' PROVE Fits(S)'
  BY DEF UnrelatedFit
<1>1. Unrelated(S) /\ S \in SUBSET Regular
  BY DEF Unrelated, AncestorsOf
<1>. QED  BY <1>1 DEF UnrelatedFit, Fits, SumSlots, SumMB, SlotsOf

LEMMA SeatFits ==
  ASSUME FitInv, NEW r \in Request, Seat(r)
  PROVE  UnrelatedFit'
<1>1. PICK ahead \in Ahead(r) :
        /\ Admits(r, Seated \cup ahead)
        /\ charged' = [charged EXCEPT ![r] = ChargeOf(r, Seated \cup ahead)]
  BY DEF Seat
<1> DEFINE held == Seated \cup ahead
<1>2. held \in SUBSET Request /\ Seated' = Seated \cup {r} /\ Regular \subseteq held
  BY DEF Ahead, Waiting, Seated, Seat, FitInv, AdmissionTypeOK, Regular
<1> SUFFICES ASSUME NEW S \in SUBSET Regular', Unrelated(S) PROVE Fits(S)
  BY DEF UnrelatedFit, Unrelated, AncestorsOf, Fits, SumSlots, SumMB, SlotsOf
<1>3. CASE r \notin S
  <2>1. S \in SUBSET Regular
    BY <1>1, <1>2, <1>3 DEF Regular, FitInv, AdmissionTypeOK, Seated
  <2>. QED  BY <2>1 DEF FitInv, UnrelatedFit
<1>4. CASE r \in S
  <2>1. ChargeOf(r, held) = {}
    BY <1>1, <1>4 DEF Regular, FitInv, AdmissionTypeOK
  \* A claim seated on a free seat is charged for it.
  <2>2. FitsHeld(r, held)
    BY <1>1, <2>1 DEF Admits, ChargeOf
  <2>3. S \in SUBSET (held \cup {r})
    BY <1>2 DEF Regular
  <2>4. \A q \in S \ {r} : Claim[q].invocation \notin AncestorsOf(r)
    BY <1>4 DEF Unrelated
  <2>5. Fits(S \cup {r})
    BY <1>2, <2>2, <2>3, <2>4, FitsWithOthers
  <2>6. S \cup {r} = S
    BY <1>4
  <2>. QED  BY <2>5, <2>6
<1>. QED  BY <1>3, <1>4

\* The steps that were seated because they fit, with nothing seated beneath them,
\* never exceed the budget together, whatever else was seated on a free seat or
\* recorded unasked and in whatever order claims came and went (fitsOverTime,
\* machine.go:211).
THEOREM RegularLeavesFitAlways == AdmissionSpec => []RegularLeavesFit
<1>1. AdmissionInit => FitInv
  <2> SUFFICES ASSUME AdmissionInit PROVE FitInv
    OBVIOUS
  <2>1. AdmissionTypeOK /\ Regular = {}
    BY DEF AdmissionInit, AdmissionTypeOK, Phase, Regular, Seated
  <2>2. SumSlots({}) = 0 /\ SumMB({}) = 0
    BY SumEmpty DEF SumSlots, SumMB, Sum
  <2>3. Fits({})
    BY <2>2, BudgetAssumption DEF Fits
  <2>. QED  BY <2>1, <2>3 DEF FitInv, UnrelatedFit
<1>2. FitInv /\ AdmissionTypeOK' /\ [AdmissionNext]_admissionVars => FitInv'
  <2> SUFFICES ASSUME FitInv, AdmissionTypeOK', [AdmissionNext]_admissionVars
               PROVE  UnrelatedFit'
    BY DEF FitInv
  <2> USE DEF Regular, Seated, FitInv, AdmissionTypeOK
  <2>1. ASSUME NEW r \in Request, Ask(r) PROVE UnrelatedFit'
    BY <2>1, FewerRegular DEF Ask
  <2>2. ASSUME NEW r \in Request, Seat(r) PROVE UnrelatedFit'
    BY <2>2, SeatFits
  <2>3. ASSUME NEW r \in Request, Record(r) PROVE UnrelatedFit'
    BY <2>3, FewerRegular DEF Record
  <2>4. ASSUME NEW r \in Request, Release(r) PROVE UnrelatedFit'
    BY <2>4, FewerRegular DEF Release
  <2>5. ASSUME NEW S \in SUBSET Waiting, Withdraw(S) PROVE UnrelatedFit'
    BY <2>5, FewerRegular DEF Withdraw, Waiting
  <2>6. CASE UNCHANGED admissionVars
    BY <2>6, FewerRegular DEF admissionVars
  <2>. QED  BY <2>1, <2>2, <2>3, <2>4, <2>5, <2>6 DEF AdmissionNext
<1>3. FitInv => RegularLeavesFit
  BY LeavesAmongThem
<1>. QED  BY <1>1, <1>2, <1>3, AdmissionTypeCorrect, PTL DEF AdmissionSpec
-----------------------------------------------------------------------------
\* Of finitely many requests one has the longest chain.
LEMMA LongestChain ==
  ASSUME NEW S \in SUBSET Request, S # {}
  PROVE  \E q \in S : \A r \in S : Len(Claim[r].ancestors) <= Len(Claim[q].ancestors)
<1> DEFINE depth(r) == Len(Claim[r].ancestors)
           Longest(s, q) == \A r \in s : depth(r) <= depth(q)
           F == {s \in SUBSET S : s # {} /\ ~\E q \in s : Longest(s, q)}
<1>1. \A r \in Request : depth(r) \in Nat
  BY BudgetAssumption DEF ClaimType
<1> HIDE DEF depth
<1>2. SUFFICES ASSUME F # {} PROVE FALSE
  BY DEF depth
<1>3. \A s \in F : IsFiniteSet(s)
  BY BudgetAssumption, FS_Subset
<1>4. PICK s \in F : \A t \in F : Cardinality(s) <= Cardinality(t)
  BY <1>2, <1>3, SmallestSet
<1>5. PICK x \in s : TRUE
  OBVIOUS
<1> DEFINE t == s \ {x}
<1>6. Cardinality(t) = Cardinality(s) - 1 /\ Cardinality(s) \in Nat
  BY <1>3, Smaller
<1> HIDE DEF F
<1>7. t \notin F
  BY <1>4, <1>6
<1> USE DEF F
<1>8. CASE t = {}
  <2>1. s = {x} /\ depth(x) <= depth(x)
    BY <1>1, <1>8
  <2>. QED  BY <2>1
<1>9. CASE t # {}
  <2>1. PICK q \in t : Longest(t, q)
    BY <1>7, <1>9
  <2>2. depth(q) \in Nat /\ depth(x) \in Nat /\ \A r \in s : depth(r) \in Nat
    BY <1>1
  <2>3. Longest(s, q) \/ Longest(s, x)
    BY <2>1, <2>2
  <2>. QED  BY <2>3
<1>. QED  BY <1>8, <1>9

\* Whose claim a chain names has a shorter chain, and a parent is on its child's.
LEMMA ChainsNest ==
  ASSUME Chained
  PROVE  /\ \A q, r \in Request : Claim[q].invocation \in AncestorsOf(r)
               => Len(Claim[q].ancestors) < Len(Claim[r].ancestors)
         /\ \A r \in Request : Parent[r] # NoParent
               => Claim[Parent[r]].invocation \in AncestorsOf(r)
<1>1. \A r \in Request : Claim[r].ancestors \in Seq(Invocation)
  BY BudgetAssumption DEF ClaimType
<1>2. ASSUME NEW q \in Request, NEW r \in Request, Claim[q].invocation \in AncestorsOf(r)
      PROVE  Len(Claim[q].ancestors) < Len(Claim[r].ancestors)
  <2>0. AncestorsOf(r) = {Claim[r].ancestors[i] : i \in 1..Len(Claim[r].ancestors)}
    BY <1>1 DEF AncestorsOf, ToSet
  <2>1. PICK i \in 1..Len(Claim[r].ancestors) : Claim[r].ancestors[i] = Claim[q].invocation
    BY <1>2, <2>0
  <2>2. Claim[q].ancestors = SubSeq(Claim[r].ancestors, 1, i - 1)
    BY <2>1 DEF Chained
  <2>3. Len(SubSeq(Claim[r].ancestors, 1, i - 1)) = i - 1
    BY <1>1, <2>1
  <2>. QED  BY <1>1, <2>2, <2>3
<1>3. ASSUME NEW r \in Request, Parent[r] # NoParent
      PROVE  Claim[Parent[r]].invocation \in AncestorsOf(r)
  <2>1. Parent[r] \in Request
    BY <1>3, AdmissionAssumption
  <2> DEFINE chain == Claim[Parent[r]].ancestors
             inv   == Claim[Parent[r]].invocation
  <2>2. chain \in Seq(Invocation) /\ Claim[r].ancestors = Append(chain, inv)
    BY <1>1, <1>3, <2>1 DEF Chained
  <2> HIDE DEF chain, inv
  <2>3. Len(Append(chain, inv)) = Len(chain) + 1 /\ Append(chain, inv)[Len(chain) + 1] = inv
    BY <2>2
  <2>4. Len(chain) + 1 \in 1..Len(Append(chain, inv))
    BY <2>2, <2>3
  <2>. QED  BY <2>2, <2>3, <2>4 DEF AncestorsOf, ToSet, inv
<1>. QED  BY <1>2, <1>3

\* Alone on the machine, whatever fits at all is admitted.
LEMMA AloneAdmitted ==
  ASSUME NEW r, FitsAlone(r)
  PROVE  Admits(r, {})
<1>1. {} \ Excused(r, {}) = {}
  OBVIOUS
<1>. QED  BY <1>1 DEF Admits, FitsHeld, FitsAlone

\* "recursive make cannot wedge however it nests" (freeSlot, machine.go:355-357),
\* for every shape of the tree of invocations: of the claims seated, the one with
\* the longest chain is blocked on a child that has a free seat.
THEOREM NeverWedgedAlways == ASSUME Chained PROVE AdmissionSpec => []NeverWedged
<1>1. ASSUME AdmissionTypeOK PROVE NeverWedged
  <2> SUFFICES ASSUME \A q \in Seated : Blocked(q), Waiting # {}
               PROVE  \E r \in Waiting :
                        r \in Unasked \/ Admits(r, Seated) \/ ~FitsAlone(r)
    BY DEF NeverWedged
  <2>1. CASE Seated = {}
    BY <2>1, AloneAdmitted
  <2>2. CASE Seated # {}
    <3>1. Seated \in SUBSET Request
      BY DEF Seated
    <3>2. PICK q \in Seated :
            \A s \in Seated : Len(Claim[s].ancestors) <= Len(Claim[q].ancestors)
      BY <2>2, <3>1, LongestChain
    <3>3. PICK c \in Request : Parent[c] = q /\ phase[c] \in {"waiting", "seated"}
      BY DEF Blocked
    <3>4. Claim[q].invocation \in AncestorsOf(c)
      BY <3>1, <3>3, ChainsNest, AdmissionAssumption
    <3>5. \A r \in Request : Len(Claim[r].ancestors) \in Nat
      BY BudgetAssumption DEF ClaimType
    <3>6. c \in Waiting
      <4>1. Len(Claim[q].ancestors) < Len(Claim[c].ancestors)
        BY <3>1, <3>4, ChainsNest
      <4>2. c \notin Seated
        BY <3>1, <3>2, <3>5, <4>1
      <4>. QED  BY <3>3, <4>2 DEF Seated, Waiting
    <3>7. Claim[q].invocation \in FreeSeats(c, Seated)
      <4>1. Claim[q].invocation \notin Wrapper
        BY DEF Blocked
      <4>2. \A s \in Seated : Claim[q].invocation \notin AncestorsOf(s)
        <5> SUFFICES ASSUME NEW s \in Seated, Claim[q].invocation \in AncestorsOf(s)
                     PROVE  FALSE
          OBVIOUS
        <5>1. Len(Claim[q].ancestors) < Len(Claim[s].ancestors)
          BY <3>1, ChainsNest
        <5>. QED  BY <3>1, <3>2, <3>5, <5>1
      <4>. QED  BY <3>4, <4>1, <4>2 DEF FreeSeats
    <3>. QED  BY <3>6, <3>7 DEF Admits
  <2>. QED  BY <2>1, <2>2
<1>. QED  BY <1>1, AdmissionTypeCorrect, PTL
=============================================================================
