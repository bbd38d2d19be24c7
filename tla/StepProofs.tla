----------------------------- MODULE StepProofs -----------------------------
(***************************************************************************)
(* What a running step holds, for any number of waits and of tasks.  The   *)
(* claim its waits lend is handed back, and the budget charges it for no   *)
(* claim it does not know of.  The slots of its process's pool are kept,   *)
(* and the watch sees a pool that is full of tasks waiting for locks.      *)
(***************************************************************************)
EXTENDS MachineHold, BudgetProofs, SequenceTheorems

\* The hold's claim is the first one, or one a wait that is back has kept.
Kept == id \in Wait => pc[id] = "back"

HoldInv ==
  /\ pc \in [Wait -> Stage]
  /\ id \in Wait \cup {Own, NoClaim}
  /\ lent \in Int
  /\ LentIsHandedBack
  /\ SeatsAccounted
  /\ Kept

\* The hold starts with the claim the budget granted it (machine.go's claimMachine).
LEMMA HoldInit == Init => HoldInv
  BY MachineHoldAssumption, SMT
  DEF Init, HoldInv, Stage, LentIsHandedBack, SeatsAccounted, Kept

\* One step of one wait keeps the hold's account.
LEMMA WaitStep ==
  ASSUME HoldInv, NEW d \in Wait, WaitNext(d)
  PROVE  HoldInv'
<1> USE MachineHoldAssumption DEF HoldInv, Stage, LentIsHandedBack, SeatsAccounted, Kept, Go
<1>1. CASE Begin(d)
  BY <1>1, SMT DEF Begin
<1>2. CASE Lend(d)
  <2>1. CASE lent = 0 /\ id # NoClaim
    <3>1. id \notin {e \in Wait : pc[e] = "seated"}
      BY SMT
    <3>2. {e \in Wait : pc'[e] = "seated"} = {e \in Wait : pc[e] = "seated"}
      BY <1>2, SMT DEF Lend
    <3>3. QED BY <1>2, <2>1, <3>1, <3>2, SMT DEF Lend
  <2>2. CASE ~(lent = 0 /\ id # NoClaim)
    BY <1>2, <2>2, SMT DEF Lend
  <2>3. QED BY <2>1, <2>2
<1>3. CASE Return(d)
  BY <1>3, SMT DEF Return
<1>4. CASE RideBack(d)
  BY <1>4, SMT DEF RideBack
<1>5. CASE Seat(d)
  <2>1. {e \in Wait : pc'[e] = "seated"} = {e \in Wait : pc[e] = "seated"} \cup {d}
    BY <1>5, SMT DEF Seat
  <2>2. QED BY <1>5, <2>1, SMT DEF Seat
<1>6. CASE Refuse(d)
  BY <1>6, SMT DEF Refuse
<1>7. CASE Keep(d)
  <2>1. {e \in Wait : pc'[e] = "seated"} = {e \in Wait : pc[e] = "seated"} \ {d}
    BY <1>7, SMT DEF Keep
  <2>2. id # d
    BY <1>7, SMT DEF Keep
  <2>3. CASE lent > 0 \/ id # NoClaim
    BY <1>7, <2>1, <2>2, <2>3, SMT DEF Keep
  <2>4. CASE ~(lent > 0 \/ id # NoClaim)
    BY <1>7, <2>1, <2>4, SMT DEF Keep
  <2>5. QED BY <2>3, <2>4
<1>8. QED BY <1>1, <1>2, <1>3, <1>4, <1>5, <1>6, <1>7 DEF WaitNext

LEMMA HoldStep == HoldInv /\ [Next]_vars => HoldInv'
<1> SUFFICES ASSUME HoldInv, [Next]_vars PROVE HoldInv'
  OBVIOUS
<1>1. CASE Close
  BY <1>1, MachineHoldAssumption, SMT
  DEF Close, AtRest, HoldInv, Stage, LentIsHandedBack, SeatsAccounted, Kept
<1>2. CASE \E d \in Wait : WaitNext(d)
  BY <1>2, WaitStep
<1>3. CASE UNCHANGED vars
  BY <1>3 DEF vars, HoldInv, LentIsHandedBack, SeatsAccounted, Kept
<1>4. QED BY <1>1, <1>2, <1>3 DEF Next

\* However many spells of a step wait, and however their retakes race, a lent claim
\* is handed back (machine_gate.go's lend and reclaim).
THEOREM LentIsHandedBackAlways == Spec => []LentIsHandedBack
<1>1. HoldInv => LentIsHandedBack
  BY DEF HoldInv
<1>2. QED BY HoldInit, HoldStep, <1>1, PTL DEF Spec

\* The budget never charges the step for a claim that the step has forgotten.
THEOREM SeatsAccountedAlways == Spec => []SeatsAccounted
<1>1. HoldInv => SeatsAccounted
  BY DEF HoldInv
<1>2. QED BY HoldInit, HoldStep, <1>1, PTL DEF Spec

-----------------------------------------------------------------------------
(* A step whose waits are over has its claim.                                *)

Waiting == {d \in Wait : pc[d] = "waiting"}

\* The hold counts its waits, and one that is without its claim has a wait that will
\* take it again, or was refused.
ClaimInv ==
  /\ HoldInv
  /\ lent = Cardinality(Waiting)
  /\ id = NoClaim /\ ~ended =>
       \E d \in Wait : pc[d] \in {"waiting", "retaking", "seated", "refused"}

LEMMA ClaimInit == Init => ClaimInv
<1> SUFFICES ASSUME Init PROVE ClaimInv
  OBVIOUS
<1>1. HoldInv
  BY HoldInit
<1>2. Waiting = {}
  BY DEF Init, Waiting
<1>3. lent = Cardinality(Waiting)
  BY <1>2, FS_EmptySet DEF Init
<1>4. id # NoClaim
  BY MachineHoldAssumption DEF Init
<1>5. QED BY <1>1, <1>3, <1>4 DEF ClaimInv

\* A count above zero has a wait behind it.
LEMMA SomeWait ==
  ASSUME ClaimInv
  PROVE  /\ IsFiniteSet(Waiting) /\ lent \in Nat
         /\ lent # 0 => \E d \in Wait : pc[d] = "waiting"
<1>1. IsFiniteSet(Waiting)
  BY MachineHoldAssumption, FS_Subset DEF Waiting
<1>2. lent \in Nat
  BY <1>1, FS_CardinalityType DEF ClaimInv
<1>3. lent # 0 => Waiting # {}
  BY FS_EmptySet DEF ClaimInv
<1>4. QED BY <1>1, <1>2, <1>3 DEF Waiting

LEMMA ClaimWaitStep ==
  ASSUME ClaimInv, NEW d \in Wait, WaitNext(d)
  PROVE  ClaimInv'
<1> USE MachineHoldAssumption
<1>1. HoldInv'
  BY WaitStep DEF ClaimInv
<1> DEFINE Owes(e) == pc[e] \in {"waiting", "retaking", "seated", "refused"}
<1>2. /\ pc \in [Wait -> Stage] /\ IsFiniteSet(Waiting)
      /\ lent = Cardinality(Waiting) /\ lent \in Nat
      /\ lent # 0 => \E e \in Wait : pc[e] = "waiting"
      /\ id = NoClaim /\ ~ended => \E e \in Wait : Owes(e)
  BY SomeWait DEF ClaimInv, HoldInv
<1>3. ASSUME Waiting' = Waiting, lent' = lent,
             id' = NoClaim /\ ~ended' => \E e \in Wait : Owes(e)'
      PROVE  ClaimInv'
  BY <1>1, <1>2, <1>3 DEF ClaimInv
<1>4. CASE Begin(d)
  <2>1. Waiting' = Waiting
    BY <1>4, <1>2 DEF Begin, Go, Waiting
  <2>2. \A e \in Wait : Owes(e) => Owes(e)'
    BY <1>4, <1>2 DEF Begin, Go
  <2>3. QED BY <1>2, <1>3, <1>4, <2>1, <2>2 DEF Begin
<1>5. CASE Lend(d)
  <2>1. d \notin Waiting /\ Waiting' = Waiting \cup {d}
    BY <1>5, <1>2 DEF Lend, Go, Waiting
  <2>2. lent' = Cardinality(Waiting)'
    BY <1>5, <1>2, <2>1, FS_AddElement DEF Lend
  <2>3. Owes(d)'
    BY <1>5, <1>2 DEF Lend, Go
  <2>4. QED BY <1>1, <2>2, <2>3 DEF ClaimInv
<1>6. CASE Return(d)
  <2>1. d \in Waiting /\ Waiting' = Waiting \ {d}
    BY <1>6, <1>2 DEF Return, Go, Waiting
  <2>2. IsFiniteSet(Waiting') /\ lent' = Cardinality(Waiting')
    BY <1>6, <1>2, <2>1, FS_RemoveElement DEF Return
  <2>3. CASE lent' = 0 /\ id = NoClaim
    <3>1. Owes(d)'
      BY <1>6, <1>2, <2>3 DEF Return, Go
    <3>2. QED BY <1>1, <2>2, <3>1 DEF ClaimInv
  <2>4. CASE lent' # 0
    <3>1. PICK e \in Waiting' : TRUE
      BY <2>2, <2>4, FS_EmptySet
    <3>2. e \in Wait /\ Owes(e)'
      BY <3>1 DEF Waiting
    <3>3. QED BY <1>1, <2>2, <3>2 DEF ClaimInv
  <2>5. CASE id # NoClaim
    BY <1>1, <1>6, <2>2, <2>5 DEF ClaimInv, Return
  <2>6. QED BY <2>3, <2>4, <2>5
<1>7. CASE RideBack(d)
  <2>1. Waiting' = Waiting
    BY <1>7, <1>2 DEF RideBack, Go, Waiting
  <2>2. \A e \in Wait : Owes(e) => Owes(e)'
    BY <1>7, <1>2 DEF RideBack, Go
  <2>3. QED BY <1>2, <1>3, <1>7, <2>1, <2>2 DEF RideBack
<1>8. CASE Seat(d) \/ Refuse(d)
  <2>1. Waiting' = Waiting /\ lent' = lent
    BY <1>8, <1>2 DEF Seat, Refuse, Go, Waiting
  <2>2. Owes(d)'
    BY <1>8, <1>2 DEF Seat, Refuse, Go
  <2>3. QED BY <1>3, <2>1, <2>2
<1>9. CASE Keep(d)
  <2>1. Waiting' = Waiting /\ lent' = lent
    BY <1>9, <1>2 DEF Keep, Go, Waiting
  <2>2. CASE lent > 0
    <3>1. PICK e \in Wait : pc[e] = "waiting"
      BY <1>2, <2>2
    <3>2. Owes(e)'
      BY <1>9, <1>2, <3>1 DEF Keep, Go
    <3>3. QED BY <1>3, <2>1, <3>2
  <2>3. CASE ~(lent > 0)
    <3>1. id' # NoClaim
      BY <1>9, <1>2, <2>3 DEF Keep
    <3>2. QED BY <1>3, <2>1, <3>1
  <2>4. QED BY <2>2, <2>3
<1>10. QED BY <1>4, <1>5, <1>6, <1>7, <1>8, <1>9 DEF WaitNext

LEMMA ClaimStep == ClaimInv /\ [Next]_vars => ClaimInv'
<1> SUFFICES ASSUME ClaimInv, [Next]_vars PROVE ClaimInv'
  OBVIOUS
<1>1. HoldInv'
  BY HoldStep DEF ClaimInv
<1>2. CASE Close
  BY <1>1, <1>2 DEF ClaimInv, Close, Waiting
<1>3. CASE \E d \in Wait : WaitNext(d)
  BY <1>3, ClaimWaitStep
<1>4. CASE UNCHANGED vars
  BY <1>1, <1>4 DEF ClaimInv, vars, Waiting
<1>5. QED BY <1>2, <1>3, <1>4 DEF Next

\* A step never goes on without a claim unless it was told so: whichever wait is the
\* last to come back takes one again (machine_gate.go's reclaim).
THEOREM RunsClaimedAlways == Spec => []RunsClaimed
<1>1. ClaimInv => RunsClaimed
  BY DEF ClaimInv, RunsClaimed, AtRest
<1>2. QED BY ClaimInit, ClaimStep, <1>1, PTL DEF Spec

\* The count of waits never falls below zero (machine_gate.go's lent), the hold's claim
\* is its own or one of a wait's, and every other variable keeps its shape.
THEOREM HoldTypeCorrect == Spec => []TypeOK
<1> DEFINE Told == ended \in BOOLEAN
<1>1. Init => Told
  BY DEF Init
<1>2. Told /\ [Next]_vars => Told'
  BY DEF Next, WaitNext, Begin, Lend, Return, RideBack, Seat, Refuse, Keep, Close, vars
<1>3. ClaimInv /\ Told => TypeOK
  BY SomeWait DEF TypeOK, ClaimInv, HoldInv, SeatsAccounted
<1> HIDE DEF Told
<1>4. QED BY ClaimInit, ClaimStep, <1>1, <1>2, <1>3, PTL DEF Spec

-----------------------------------------------------------------------------
(* The slots of a process's pool, and the watch over them.                   *)

CONSTANTS Task, NoTask, Cap, Weight, Parent, Key, NoKey, Reserve

VARIABLES tpc, free, queue, holds, yielded, mark, was, waiters, doomed, owner

Pool == INSTANCE SlotPool WITH pc <- tpc

\* Who holds slots of its own, and who a reservation.
Occupying ==
  {t \in Task : tpc[t] \in {"got", "admitted", "lockwait", "locked", "yielding", "retook", "body",
                            "unlocked", "retired"}}
Reserved == {t \in Task : tpc[t] = "reserved"}

PoolShape ==
  /\ tpc \in [Task -> Pool!Stage] /\ free \in Nat
  /\ mark \in [Task -> Task \cup {NoTask}] /\ was \in [Task -> Task \cup {NoTask}]
  /\ waiters \subseteq Task /\ doomed \subseteq Task
  /\ owner \in [Pool!Keys -> Task \cup {NoTask}]

\* Who queues for slots stands in the queue once.
QueueTrue ==
  /\ queue \in Seq(Task)
  /\ \A i \in 1..Len(queue) : tpc[queue[i]] \in {"queued", "retaking", "reserving", "refilling"}
  /\ \A i, j \in 1..Len(queue) : queue[i] = queue[j] => i = j

\* A slot is free or held.
SlotsKept == free + Sum(Weight, Occupying) + Sum(Reserve, Reserved) = Cap

\* The watch's records follow the tasks.
RecordsTrue ==
  /\ holds = {t \in Task : tpc[t] \notin {"idle", "queued", "got", "refused", "retired", "over"}}
  /\ yielded = {t \in Task : tpc[t] \in {"yielding", "fanned", "retaking", "retook"}}

\* A spell runs underneath a task that has handed its slots back.
SpellsInside ==
  \A t \in Task : Parent[t] # NoTask /\ tpc[t] \notin {"idle", "over", "refused"}
                    => tpc[Parent[t]] = "fanned"

PoolInv == PoolShape /\ QueueTrue /\ SlotsKept /\ RecordsTrue /\ SpellsInside

LEMMA WeightsCount ==
  ASSUME Pool!SlotPoolAssumption
  PROVE  /\ Weight \in [Task -> Nat] /\ Reserve \in [Task -> Nat] /\ Cap \in Nat /\ IsFiniteSet(Task)
         /\ NoTask \notin Task
<1>1. /\ Cap \in Nat /\ Weight \in [Task -> 1..Cap] /\ Reserve \in [Task -> 0..Cap]
      /\ IsFiniteSet(Task) /\ NoTask \notin Task
  BY DEF Pool!SlotPoolAssumption, Pool!IsFiniteSet, IsFiniteSet
<1>2. 1..Cap \subseteq Nat /\ 0..Cap \subseteq Nat BY <1>1
<1> QED BY <1>1, <1>2

\* One more in a sum.
LEMMA SumWith ==
  ASSUME Pool!SlotPoolAssumption, NEW w \in [Task -> Nat], NEW S \in SUBSET Task, NEW t \in Task \ S
  PROVE  /\ Sum(w, S) \in Nat /\ Sum(w, S \cup {t}) \in Nat
         /\ Sum(w, S \cup {t}) = Sum(w, S) + w[t]
<1>1. IsFiniteSet(S) /\ IsFiniteSet(S \cup {t})
  <2>1. IsFiniteSet(Task) /\ S \subseteq Task /\ S \cup {t} \subseteq Task
    BY WeightsCount
  <2> QED BY <2>1, FS_Subset
<1>2. Sum(w, S) \in Nat /\ Sum(w, S \cup {t}) \in Nat BY <1>1, SumNat
<1>3. (S \cup {t}) \ {t} = S OBVIOUS
<1>4. Sum(w, S \cup {t}) = w[t] + Sum(w, (S \cup {t}) \ {t}) BY <1>1, SumWithout
<1> QED BY <1>2, <1>3, <1>4

\* A step that moves one task keeps the account of the slots if it moves as many.
LEMMA SlotsMove ==
  ASSUME Pool!SlotPoolAssumption, PoolShape, SlotsKept, NEW t \in Task,
         \/ Occupying' = Occupying /\ Reserved' = Reserved /\ free' = free
         \/ /\ t \in Occupying /\ Occupying' = Occupying \ {t} /\ Reserved' = Reserved
            /\ free' = free + Weight[t]
         \/ /\ t \in Reserved /\ Reserved' = Reserved \ {t} /\ Occupying' = Occupying
            /\ free' = free + Reserve[t]
         \/ /\ t \notin Occupying /\ Occupying' = Occupying \cup {t} /\ Reserved' = Reserved
            /\ free' = free - Weight[t] /\ free >= Weight[t]
         \/ /\ t \notin Reserved /\ Reserved' = Reserved \cup {t} /\ Occupying' = Occupying
            /\ free' = free - Reserve[t] /\ free >= Reserve[t]
  PROVE  SlotsKept' /\ free' \in Nat
<1> DEFINE O == Sum(Weight, Occupying) R == Sum(Reserve, Reserved)
           NO == Sum(Weight, Occupying') NR == Sum(Reserve, Reserved')
<1>1. Weight \in [Task -> Nat] /\ Reserve \in [Task -> Nat] /\ Cap \in Nat /\ IsFiniteSet(Task)
  BY WeightsCount
<1>2. Weight[t] \in Nat /\ Reserve[t] \in Nat BY <1>1
<1>3. Occupying \in SUBSET Task /\ Reserved \in SUBSET Task BY DEF Occupying, Reserved
<1>4. O \in Nat /\ R \in Nat BY <1>1, <1>3, FS_Subset, SumNat
<1>5. free + O + R = Cap /\ free \in Nat BY DEF SlotsKept, PoolShape
<1>6. SUFFICES free' \in Nat /\ free' + NO + NR = Cap BY DEF SlotsKept
<1> HIDE DEF O, R, NO, NR
<1>7. CASE Occupying' = Occupying /\ Reserved' = Reserved /\ free' = free
  BY <1>5, <1>7 DEF O, R, NO, NR
<1>8. CASE /\ t \in Occupying /\ Occupying' = Occupying \ {t} /\ Reserved' = Reserved
           /\ free' = free + Weight[t]
  <2>1. Occupying' \in SUBSET Task /\ t \in Task \ Occupying' /\ Occupying = Occupying' \cup {t}
    BY <1>3, <1>8
  <2>2. NO \in Nat /\ O = NO + Weight[t] BY <1>1, <2>1, SumWith DEF O, NO
  <2>3. NR = R BY <1>8 DEF R, NR
  <2> QED BY <1>2, <1>4, <1>5, <1>8, <2>2, <2>3
<1>9. CASE /\ t \in Reserved /\ Reserved' = Reserved \ {t} /\ Occupying' = Occupying
           /\ free' = free + Reserve[t]
  <2>1. Reserved' \in SUBSET Task /\ t \in Task \ Reserved' /\ Reserved = Reserved' \cup {t}
    BY <1>3, <1>9
  <2>2. NR \in Nat /\ R = NR + Reserve[t] BY <1>1, <2>1, SumWith DEF R, NR
  <2>3. NO = O BY <1>9 DEF O, NO
  <2> QED BY <1>2, <1>4, <1>5, <1>9, <2>2, <2>3
<1>10. CASE /\ t \notin Occupying /\ Occupying' = Occupying \cup {t} /\ Reserved' = Reserved
            /\ free' = free - Weight[t] /\ free >= Weight[t]
  <2>1. NO \in Nat /\ NO = O + Weight[t] BY <1>1, <1>3, <1>10, SumWith DEF O, NO
  <2>2. NR = R BY <1>10 DEF R, NR
  <2> QED BY <1>2, <1>4, <1>5, <1>10, <2>1, <2>2
<1>11. CASE /\ t \notin Reserved /\ Reserved' = Reserved \cup {t} /\ Occupying' = Occupying
            /\ free' = free - Reserve[t] /\ free >= Reserve[t]
  <2>1. NR \in Nat /\ NR = R + Reserve[t] BY <1>1, <1>3, <1>11, SumWith DEF R, NR
  <2>2. NO = O BY <1>11 DEF O, NO
  <2> QED BY <1>2, <1>4, <1>5, <1>11, <2>1, <2>2
<1> QED BY <1>7, <1>8, <1>9, <1>10, <1>11
LEMMA PoolSums == \A S : Pool!SlotsOf(S) = Sum(Weight, S)
  BY DEF Pool!SlotsOf, Pool!SumFunctionOnSet, Pool!FoldFunctionOnSet, Pool!MapThenFoldSet,
         Sum, SumFunctionOnSet, FoldFunctionOnSet, MapThenFoldSet

\* The stages in which a task stands in the queue.
Queueing == {"queued", "retaking", "reserving", "refilling"}

LEMMA QueueStays ==
  ASSUME QueueTrue, PoolShape, NEW t \in Task, NEW s, tpc[t] \notin Queueing, queue' = queue,
         tpc' = [tpc EXCEPT ![t] = s]
  PROVE  QueueTrue'
<1>1. \A i \in 1..Len(queue) : queue[i] \in Task /\ queue[i] # t
  BY ElementOfSeq DEF QueueTrue, Queueing
<1> QED BY <1>1 DEF QueueTrue, PoolShape

LEMMA QueueJoins ==
  ASSUME QueueTrue, PoolShape, NEW t \in Task, NEW s \in Queueing, tpc[t] \notin Queueing,
         queue' = Append(queue, t), tpc' = [tpc EXCEPT ![t] = s]
  PROVE  QueueTrue'
<1>1. queue \in Seq(Task) /\ \A i \in 1..Len(queue) : queue[i] \in Task /\ queue[i] # t
  BY ElementOfSeq DEF QueueTrue, Queueing
<1>2. /\ queue' \in Seq(Task) /\ Len(queue') = Len(queue) + 1 /\ Len(queue) \in Nat
      /\ \A i \in 1..Len(queue') : queue'[i] = IF i = Len(queue) + 1 THEN t ELSE queue[i]
  BY <1>1, AppendProperties
<1>3. \A i \in 1..Len(queue') : i # Len(queue) + 1 => i \in 1..Len(queue) BY <1>2
<1>4. \A i \in 1..Len(queue') : tpc'[queue'[i]] \in Queueing
  BY <1>1, <1>2, <1>3 DEF QueueTrue, PoolShape, Queueing
<1>5. \A i, j \in 1..Len(queue') : queue'[i] = queue'[j] => i = j
  BY <1>1, <1>2, <1>3 DEF QueueTrue
<1> QED BY <1>2, <1>4, <1>5 DEF QueueTrue, Queueing

\* One that leaves it is in it no more.
LEMMA QueueLeaves ==
  ASSUME QueueTrue, PoolShape, NEW n \in 1..Len(queue), NEW s,
         \/ queue' = RemoveAt(queue, n)
         \/ n = 1 /\ queue' = Tail(queue),
         tpc' = [tpc EXCEPT ![queue[n]] = s]
  PROVE  QueueTrue'
<1>1. queue \in Seq(Task) /\ Len(queue) \in Nat /\ \A i \in 1..Len(queue) : queue[i] \in Task
  BY ElementOfSeq, LenProperties DEF QueueTrue
<1>2. /\ queue' \in Seq(Task) /\ Len(queue') = Len(queue) - 1
      /\ \A i \in 1..Len(queue') : queue'[i] = IF i < n THEN queue[i] ELSE queue[i + 1]
  <2>1. CASE queue' = RemoveAt(queue, n) BY <1>1, <2>1, RemoveProperties
  <2>2. CASE n = 1 /\ queue' = Tail(queue)
    <3>1. queue # <<>> BY <1>1, <2>2, EmptySeq
    <3> QED BY <1>1, <2>2, <3>1, HeadTailProperties
  <2> QED BY <2>1, <2>2
<1>3. \A i \in 1..Len(queue') : \E j \in 1..Len(queue) :
         j # n /\ queue'[i] = queue[j] /\ j = IF i < n THEN i ELSE i + 1
  BY <1>1, <1>2
<1>4. \A i \in 1..Len(queue') : tpc'[queue'[i]] \in Queueing
  BY <1>1, <1>3 DEF QueueTrue, PoolShape, Queueing
<1>5. \A i, j \in 1..Len(queue') : queue'[i] = queue'[j] => i = j
  BY <1>1, <1>2, <1>3 DEF QueueTrue
<1> QED BY <1>2, <1>4, <1>5 DEF QueueTrue, Queueing

LEMMA SpellsStay ==
  ASSUME SpellsInside, PoolShape, Pool!SlotPoolAssumption, NEW t \in Task, NEW s,
         tpc' = [tpc EXCEPT ![t] = s], tpc[t] \notin {"over", "refused"},
         tpc[t] = "idle" /\ Parent[t] # NoTask => tpc[Parent[t]] = "fanned",
         tpc[t] = "fanned" => \A k \in Task : Parent[k] = t => tpc[k] \in {"over", "refused"}
  PROVE  SpellsInside'
<1>1. Parent \in [Task -> Task \cup {NoTask}] BY DEF Pool!SlotPoolAssumption
<1> SUFFICES ASSUME NEW k \in Task, Parent[k] # NoTask, tpc'[k] \notin {"idle", "over", "refused"}
             PROVE  tpc'[Parent[k]] = "fanned"
  BY DEF SpellsInside
<1>2. tpc[Parent[k]] = "fanned" /\ Parent[k] \in Task BY <1>1 DEF SpellsInside, PoolShape
<1>3. Parent[k] # t BY <1>2 DEF PoolShape, SpellsInside
<1> QED BY <1>2, <1>3 DEF PoolShape

\* What every step of one task comes to: its stage, and the rest of PoolInv from it.
LEMMA PoolMove ==
  ASSUME Pool!SlotPoolAssumption, PoolInv, NEW t \in Task, NEW s \in Pool!Stage,
         tpc' = [tpc EXCEPT ![t] = s],
         QueueTrue', RecordsTrue', SlotsKept' /\ free' \in Nat,
         mark' \in [Task -> Task \cup {NoTask}], was' \in [Task -> Task \cup {NoTask}],
         waiters' \subseteq Task, doomed' \subseteq Task,
         owner' \in [Pool!Keys -> Task \cup {NoTask}],
         tpc[t] \notin {"over", "refused"},
         tpc[t] = "idle" /\ Parent[t] # NoTask => tpc[Parent[t]] = "fanned",
         tpc[t] = "fanned" => \A k \in Task : Parent[k] = t => tpc[k] \in {"over", "refused"}
  PROVE  PoolInv'
<1>1. PoolShape' BY DEF PoolInv, PoolShape
<1>2. SpellsInside' BY SpellsStay DEF PoolInv
<1> QED BY <1>1, <1>2 DEF PoolInv

\* Steps that move neither slots nor the queue.
LEMMA QuietStep ==
  ASSUME Pool!SlotPoolAssumption, PoolInv, NEW t \in Task,
         \/ Pool!Admit(t) \/ Pool!Lock(t) \/ Pool!WaitLock(t) \/ Pool!GetLock(t)
         \/ Pool!FanOut(t) \/ Pool!Resume(t) \/ Pool!Plain(t) \/ Pool!Unlock(t) \/ Pool!Retire(t)
  PROVE  PoolInv'
<1> USE DEF PoolInv, Pool!To, Pool!watch
<1> DEFINE From == {"got", "admitted", "lockwait", "locked", "retook", "body", "unlocked"}
           Into == {"admitted", "locked", "lockwait", "yielding", "body", "unlocked", "retired"}
<1>1. PICK s \in Into : tpc' = [tpc EXCEPT ![t] = s] /\ tpc[t] \in From
  BY DEF Pool!Admit, Pool!Lock, Pool!WaitLock, Pool!GetLock, Pool!FanOut, Pool!Resume,
     Pool!Plain, Pool!Unlock, Pool!Retire
<1>2. s \in Pool!Stage BY DEF Pool!Stage
<1>3. queue' = queue /\ free' = free
  BY DEF Pool!Admit, Pool!Lock, Pool!WaitLock, Pool!GetLock, Pool!FanOut, Pool!Resume,
     Pool!Plain, Pool!Unlock, Pool!Retire
<1>4. QueueTrue' BY <1>1, <1>3, QueueStays DEF Queueing
<1>5. Occupying' = Occupying /\ Reserved' = Reserved
  BY <1>1 DEF Occupying, Reserved, PoolShape
<1>6. SlotsKept' /\ free' \in Nat BY <1>3, <1>5, SlotsMove
<1>7. RecordsTrue'
  BY <1>1 DEF RecordsTrue, PoolShape, Pool!Admit, Pool!Lock, Pool!WaitLock, Pool!GetLock,
              Pool!FanOut, Pool!Resume, Pool!Plain, Pool!Unlock, Pool!Retire
<1>8. /\ mark' \in [Task -> Task \cup {NoTask}] /\ was' \in [Task -> Task \cup {NoTask}]
      /\ waiters' \subseteq Task /\ doomed' \subseteq Task
      /\ owner' \in [Pool!Keys -> Task \cup {NoTask}]
  BY DEF PoolShape, Pool!Admit, Pool!Lock, Pool!WaitLock, Pool!GetLock,
         Pool!FanOut, Pool!Resume, Pool!Plain, Pool!Unlock, Pool!Retire, Pool!Block, Pool!Unblock
<1> QED BY <1>1, <1>2, <1>4, <1>6, <1>7, <1>8, PoolMove

\* Steps that give slots back, or queue for some.
LEMMA HandStep ==
  ASSUME Pool!SlotPoolAssumption, PoolInv, NEW t \in Task,
         \/ Pool!Enter(t) \/ Pool!HandBack(t) \/ Pool!Retake(t) \/ Pool!Reserves(t)
         \/ Pool!Refill(t) \/ Pool!Leave(t)
  PROVE  PoolInv'
<1> USE DEF PoolInv, Pool!To, Pool!watch
<1>1. CASE Pool!Enter(t)
  <2>1. tpc[t] = "idle" /\ tpc' = [tpc EXCEPT ![t] = "queued"] BY <1>1 DEF Pool!Enter
  <2>2. QueueTrue' BY <1>1, <2>1, QueueJoins DEF Pool!Enter, Queueing
  <2>3. Occupying' = Occupying /\ Reserved' = Reserved BY <2>1 DEF Occupying, Reserved, PoolShape
  <2>4. SlotsKept' /\ free' \in Nat BY <1>1, <2>3, SlotsMove DEF Pool!Enter
  <2>5. RecordsTrue' BY <1>1, <2>1 DEF RecordsTrue, PoolShape, Pool!Enter
  <2>6. /\ mark' \in [Task -> Task \cup {NoTask}] /\ was' \in [Task -> Task \cup {NoTask}]
        /\ waiters' \subseteq Task
    <3>1. Parent[t] \in Task \cup {NoTask} BY DEF Pool!SlotPoolAssumption
    <3> QED BY <1>1, <3>1 DEF PoolShape, Pool!Enter, Pool!Block
  <2>7. doomed' = doomed /\ owner' = owner /\ (Parent[t] # NoTask => tpc[Parent[t]] = "fanned")
    BY <1>1 DEF Pool!Enter
  <2> QED BY <2>1, <2>2, <2>4, <2>5, <2>6, <2>7, PoolMove DEF PoolShape, Pool!Stage
<1>2. CASE Pool!HandBack(t)
  <2>1. tpc[t] = "yielding" /\ tpc' = [tpc EXCEPT ![t] = "fanned"] BY <1>2 DEF Pool!HandBack
  <2>2. QueueTrue' BY <1>2, <2>1, QueueStays DEF Pool!HandBack, Queueing
  <2>3. t \in Occupying /\ Occupying' = Occupying \ {t} /\ Reserved' = Reserved
    BY <2>1 DEF Occupying, Reserved, PoolShape
  <2>4. SlotsKept' /\ free' \in Nat BY <1>2, <2>3, SlotsMove DEF Pool!HandBack
  <2>5. RecordsTrue' BY <1>2, <2>1 DEF RecordsTrue, PoolShape, Pool!HandBack
  <2>6. UNCHANGED <<mark, was, waiters, doomed, owner>> BY <1>2 DEF Pool!HandBack
  <2> QED BY <2>1, <2>2, <2>4, <2>5, <2>6, PoolMove DEF PoolShape, Pool!Stage
<1>3. CASE Pool!Retake(t)
  <2>1. tpc[t] = "fanned" /\ tpc' = [tpc EXCEPT ![t] = "retaking"] BY <1>3 DEF Pool!Retake
  <2>2. QueueTrue' BY <1>3, <2>1, QueueJoins DEF Pool!Retake, Queueing
  <2>3. Occupying' = Occupying /\ Reserved' = Reserved BY <2>1 DEF Occupying, Reserved, PoolShape
  <2>4. SlotsKept' /\ free' \in Nat BY <1>3, <2>3, SlotsMove DEF Pool!Retake
  <2>5. RecordsTrue' BY <1>3, <2>1 DEF RecordsTrue, PoolShape, Pool!Retake
  <2>6. UNCHANGED <<mark, was, doomed, owner>> /\ waiters' \subseteq Task
    BY <1>3 DEF Pool!Retake, PoolShape
  <2>7. \A k \in Task : Parent[k] = t => tpc[k] \in {"over", "refused"}
    BY <1>3 DEF Pool!Retake, Pool!Kids, Pool!Ended
  <2> QED BY <2>1, <2>2, <2>4, <2>5, <2>6, <2>7, PoolMove DEF PoolShape, Pool!Stage
<1>4. CASE Pool!Reserves(t)
  <2>1. tpc[t] = "locked" /\ tpc' = [tpc EXCEPT ![t] = "reserving"] BY <1>4 DEF Pool!Reserves
  <2>2. QueueTrue' BY <1>4, <2>1, QueueJoins DEF Pool!Reserves, Queueing
  <2>3. t \in Occupying /\ Occupying' = Occupying \ {t} /\ Reserved' = Reserved
    BY <2>1 DEF Occupying, Reserved, PoolShape
  <2>4. SlotsKept' /\ free' \in Nat BY <1>4, <2>3, SlotsMove DEF Pool!Reserves
  <2>5. RecordsTrue' BY <1>4, <2>1 DEF RecordsTrue, PoolShape, Pool!Reserves
  <2>6. UNCHANGED <<mark, was, waiters, doomed, owner>> BY <1>4 DEF Pool!Reserves
  <2> QED BY <2>1, <2>2, <2>4, <2>5, <2>6, PoolMove DEF PoolShape, Pool!Stage
<1>5. CASE Pool!Refill(t)
  <2>1. tpc[t] = "reserved" /\ tpc' = [tpc EXCEPT ![t] = "refilling"] BY <1>5 DEF Pool!Refill
  <2>2. QueueTrue' BY <1>5, <2>1, QueueJoins DEF Pool!Refill, Queueing
  <2>3. t \in Reserved /\ Reserved' = Reserved \ {t} /\ Occupying' = Occupying
    BY <2>1 DEF Occupying, Reserved, PoolShape
  <2>4. SlotsKept' /\ free' \in Nat BY <1>5, <2>3, SlotsMove DEF Pool!Refill
  <2>5. RecordsTrue' BY <1>5, <2>1 DEF RecordsTrue, PoolShape, Pool!Refill
  <2>6. UNCHANGED <<mark, was, waiters, doomed, owner>> BY <1>5 DEF Pool!Refill
  <2> QED BY <2>1, <2>2, <2>4, <2>5, <2>6, PoolMove DEF PoolShape, Pool!Stage
<1>6. CASE Pool!Leave(t)
  <2>1. tpc[t] = "retired" /\ tpc' = [tpc EXCEPT ![t] = "over"] BY <1>6 DEF Pool!Leave
  <2>2. QueueTrue' BY <1>6, <2>1, QueueStays DEF Pool!Leave, Queueing
  <2>3. t \in Occupying /\ Occupying' = Occupying \ {t} /\ Reserved' = Reserved
    BY <2>1 DEF Occupying, Reserved, PoolShape
  <2>4. SlotsKept' /\ free' \in Nat BY <1>6, <2>3, SlotsMove DEF Pool!Leave
  <2>5. RecordsTrue' BY <1>6, <2>1 DEF RecordsTrue, PoolShape, Pool!Leave
  <2>6. UNCHANGED <<mark, was, waiters, doomed, owner>> BY <1>6 DEF Pool!Leave
  <2> QED BY <2>1, <2>2, <2>4, <2>5, <2>6, PoolMove DEF PoolShape, Pool!Stage
<1> QED BY <1>1, <1>2, <1>3, <1>4, <1>5, <1>6

\* A refusal, of one that is in the queue.
LEMMA RefusedStep ==
  ASSUME Pool!SlotPoolAssumption, PoolInv, NEW t \in Task, Pool!Refused(t) PROVE PoolInv'
<1> USE DEF PoolInv, Pool!To
<1>1. tpc[t] = "queued" /\ tpc' = [tpc EXCEPT ![t] = "refused"] BY DEF Pool!Refused
<1>2. QueueTrue'
  <2>1. DOMAIN queue = 1..Len(queue) BY LenProperties DEF QueueTrue
  <2>2. PICK i \in 1..Len(queue) : queue[i] = t /\ queue' = RemoveAt(queue, i)
    BY <2>1 DEF Pool!Refused, Pool!RemoveAt, RemoveAt
  <2> QED BY <1>1, <2>2, QueueLeaves
<1>3. Occupying' = Occupying /\ Reserved' = Reserved BY <1>1 DEF Occupying, Reserved, PoolShape
<1>4. SlotsKept' /\ free' \in Nat BY <1>3, SlotsMove DEF Pool!Refused
<1>5. RecordsTrue' BY <1>1 DEF RecordsTrue, PoolShape, Pool!Refused
<1>6. /\ UNCHANGED <<was, doomed, owner>> /\ waiters' \subseteq Task
      /\ mark' \in [Task -> Task \cup {NoTask}]
  BY DEF Pool!Refused, Pool!Unblock, PoolShape
<1> QED BY <1>1, <1>2, <1>4, <1>5, <1>6, PoolMove DEF PoolShape, Pool!Stage

\* The semaphore serves the head of its queue.
LEMMA TakeStep ==
  ASSUME Pool!SlotPoolAssumption, PoolInv, Pool!Take PROVE PoolInv'
<1> USE DEF PoolInv, Pool!watch
<1> DEFINE t == Head(queue)
<1>1. queue \in Seq(Task) /\ queue # <<>> BY DEF QueueTrue, Pool!Take
<1>2. 1 \in 1..Len(queue) /\ t = queue[1] /\ t \in Task
  BY <1>1, HeadTailProperties, EmptySeq, LenProperties
<1>3. tpc[t] \in Queueing BY <1>2 DEF QueueTrue, Queueing
<1>4. PICK s \in {"got", "retook", "reserved", "body"} :
        /\ tpc' = [tpc EXCEPT ![t] = s]
        /\ tpc[t] = "queued" => s = "got"
        /\ tpc[t] = "retaking" => s = "retook"
        /\ tpc[t] = "refilling" => s = "body"
        /\ tpc[t] = "reserving" <=> s = "reserved"
  BY <1>3 DEF Pool!Take, Pool!To, Queueing
<1>5. QueueTrue' BY <1>2, <1>4, QueueLeaves DEF Pool!Take
<1>6. free >= Pool!Need(t) /\ free' = free - Pool!Need(t) BY DEF Pool!Take
<1> HIDE DEF t
<1>7. SlotsKept' /\ free' \in Nat
  <2>1. CASE s = "reserved"
    <3>1. t \notin Reserved /\ Reserved' = Reserved \cup {t} /\ Occupying' = Occupying
      BY <1>2, <1>4, <2>1 DEF Occupying, Reserved, PoolShape
    <3>2. Pool!Need(t) = Reserve[t] BY <1>4, <2>1 DEF Pool!Need
    <3> QED BY <1>2, <1>6, <3>1, <3>2, SlotsMove
  <2>2. CASE s # "reserved"
    <3>1. t \notin Occupying /\ Occupying' = Occupying \cup {t} /\ Reserved' = Reserved
      BY <1>2, <1>3, <1>4, <2>2 DEF Occupying, Reserved, PoolShape, Queueing
    <3>2. Pool!Need(t) = Weight[t] BY <1>4, <2>2 DEF Pool!Need
    <3> QED BY <1>2, <1>6, <3>1, <3>2, SlotsMove
  <2> QED BY <2>1, <2>2
<1>8. UNCHANGED <<holds, yielded, mark, was, waiters, doomed, owner>> BY DEF Pool!Take
<1>9. RecordsTrue' BY <1>2, <1>3, <1>4, <1>8 DEF RecordsTrue, PoolShape, Queueing
<1>10. s \in Pool!Stage BY DEF Pool!Stage
<1> QED BY <1>2, <1>3, <1>4, <1>5, <1>7, <1>8, <1>9, <1>10, PoolMove DEF PoolShape, Queueing

LEMMA PoolStep ==
  ASSUME Pool!SlotPoolAssumption, PoolInv, [Pool!Next]_Pool!vars PROVE PoolInv'
<1>1. CASE UNCHANGED Pool!vars
  BY <1>1 DEF Pool!vars, Pool!watch, PoolInv, PoolShape, QueueTrue, SlotsKept, Occupying, Reserved,
              RecordsTrue, SpellsInside
<1>2. CASE Pool!Verdict
  BY <1>2 DEF Pool!Verdict, Pool!watch, PoolInv, PoolShape, QueueTrue, SlotsKept, Occupying, Reserved,
              RecordsTrue, SpellsInside
<1>3. ASSUME NEW t \in Task, Pool!TaskNext(t) PROVE PoolInv'
  BY <1>3, QuietStep, HandStep, RefusedStep DEF Pool!TaskNext
<1> QED BY <1>1, <1>2, <1>3, TakeStep DEF Pool!Next

LEMMA PoolInit == Pool!SlotPoolAssumption /\ Pool!Init => PoolInv
<1> SUFFICES ASSUME Pool!SlotPoolAssumption, Pool!Init PROVE PoolInv OBVIOUS
<1>1. Occupying = {} /\ Reserved = {} BY DEF Pool!Init, Occupying, Reserved
<1>2. SlotsKept BY <1>1, SumEmpty, WeightsCount DEF Pool!Init, SlotsKept
<1>3. PoolShape BY WeightsCount DEF Pool!Init, PoolShape, Pool!Stage
<1>4. QueueTrue BY EmptySeq DEF Pool!Init, QueueTrue
<1>5. RecordsTrue /\ SpellsInside BY DEF Pool!Init, RecordsTrue, SpellsInside
<1> QED BY <1>2, <1>3, <1>4, <1>5 DEF PoolInv

\* The semaphore never hands out more slots than it has, and the watch's records follow
\* the tasks that hold them (limiter.go's AcquireN and ReleaseN, deadlock.go's holds).
THEOREM PoolTypeCorrect ==
  ASSUME Pool!SlotPoolAssumption PROVE Pool!Spec => []Pool!TypeOK
<1>1. PoolInv => Pool!TypeOK
  <2> SUFFICES ASSUME PoolInv PROVE Pool!TypeOK OBVIOUS
  <2>1. Occupying \in SUBSET Task /\ Reserved \in SUBSET Task BY DEF Occupying, Reserved
  <2>2. Sum(Weight, Occupying) \in Nat /\ Sum(Reserve, Reserved) \in Nat
    BY <2>1, WeightsCount, FS_Subset, SumNat
  <2>3. free \in 0..Cap BY <2>2, WeightsCount DEF PoolInv, PoolShape, SlotsKept
  <2>4. holds \subseteq Task /\ yielded \subseteq holds BY DEF PoolInv, RecordsTrue
  <2> QED BY <2>3, <2>4 DEF Pool!TypeOK, PoolInv, PoolShape
<1> QED BY <1>1, PoolInit, PoolStep, PTL DEF Pool!Spec

\* Every slot is free, or held by a task that runs or waits for a lock, or reserved for a
\* tool's workers: fan-outs, refused waits and reservations (limiter.go's Yield, os.go's
\* with_slots) lose none and grant none twice.
THEOREM SlotsKeptAlways ==
  ASSUME Pool!SlotPoolAssumption PROVE Pool!Spec => []SlotsKept
<1>1. PoolInv => SlotsKept BY DEF PoolInv
<1> QED BY <1>1, PoolInit, PoolStep, PTL DEF Pool!Spec

-----------------------------------------------------------------------------
(* What the watch reads off its marks.                                       *)

\* A wait for a lock marks its own hold for as long as it lasts, whatever marks the
\* task's spells leave behind: they have ended by the time it can wait again.
LockMarked == \A t \in Task : tpc[t] = "lockwait" => mark[t] = t

\* Nothing can move: a task queues for slots, none is free or promised to a tool, and
\* who holds them waits for a lock.
AllWaitForLocks ==
  /\ waiters # {} /\ free = 0
  /\ \A t \in Task : tpc[t] \notin {"reserving", "reserved", "refilling"}
  /\ \A t \in Occupying : tpc[t] = "lockwait"

WedgeIsSeen == AllWaitForLocks => Pool!Wedged

LEMMA LockMarkedStep ==
  ASSUME Pool!SlotPoolAssumption, PoolInv, LockMarked, [Pool!Next]_Pool!vars
  PROVE  LockMarked'
<1> USE DEF PoolInv, PoolShape, Pool!To
<1>0. NoTask \notin Task /\ Parent \in [Task -> Task \cup {NoTask}]
  BY DEF Pool!SlotPoolAssumption
<1>1. CASE UNCHANGED Pool!vars \/ Pool!Verdict
  BY <1>1 DEF Pool!vars, Pool!watch, Pool!Verdict, LockMarked
<1>2. CASE Pool!Take
  <2> DEFINE t == Head(queue)
  <2>1. queue \in Seq(Task) /\ queue # <<>> BY <1>2 DEF QueueTrue, Pool!Take
  <2>2. 1 \in 1..Len(queue) /\ t = queue[1] /\ t \in Task
    BY <2>1, HeadTailProperties, EmptySeq, LenProperties
  <2>3. tpc[t] \in Queueing BY <2>2 DEF QueueTrue, Queueing
  <2>4. \E s \in {"got", "retook", "reserved", "body"} : tpc' = [tpc EXCEPT ![t] = s]
    BY <1>2, <2>3 DEF Pool!Take, Queueing
  <2>5. mark' = mark BY <1>2 DEF Pool!Take, Pool!watch
  <2> HIDE DEF t
  <2> QED BY <2>2, <2>4, <2>5 DEF LockMarked
<1>3. ASSUME NEW t \in Task,
             \/ Pool!Lock(t) \/ Pool!FanOut(t) \/ Pool!HandBack(t) \/ Pool!Retake(t) \/ Pool!Resume(t)
             \/ Pool!Reserves(t) \/ Pool!Refill(t) \/ Pool!Plain(t) \/ Pool!Unlock(t)
             \/ Pool!Retire(t) \/ Pool!Leave(t)
      PROVE  LockMarked'
  <2>1. mark' = mark
    BY <1>3 DEF Pool!Lock, Pool!FanOut, Pool!HandBack, Pool!Retake, Pool!Resume, Pool!Reserves,
                Pool!Refill, Pool!Plain, Pool!Unlock, Pool!Retire, Pool!Leave, Pool!watch
  <2>2. \E s \in {"locked", "yielding", "fanned", "retaking", "body", "reserving", "refilling",
                  "unlocked", "retired", "over"} : tpc' = [tpc EXCEPT ![t] = s]
    BY <1>3 DEF Pool!Lock, Pool!FanOut, Pool!HandBack, Pool!Retake, Pool!Resume, Pool!Reserves,
                Pool!Refill, Pool!Plain, Pool!Unlock, Pool!Retire, Pool!Leave
  <2> QED BY <2>1, <2>2 DEF LockMarked
<1>4. ASSUME NEW t \in Task, Pool!Enter(t) PROVE LockMarked'
  <2>1. tpc' = [tpc EXCEPT ![t] = "queued"] BY <1>4 DEF Pool!Enter
  <2>2. \A x \in Task : tpc[x] = "lockwait" => mark'[x] = mark[x]
    BY <1>0, <1>4 DEF Pool!Enter, Pool!Block
  <2> QED BY <2>1, <2>2 DEF LockMarked
<1>5. ASSUME NEW t \in Task, Pool!Admit(t) \/ Pool!Refused(t) PROVE LockMarked'
  <2>1. /\ tpc[t] \in {"got", "queued"}
        /\ \E s \in {"admitted", "refused"} : tpc' = [tpc EXCEPT ![t] = s]
    BY <1>5 DEF Pool!Admit, Pool!Refused
  <2>2. mark' = [x \in Task |-> IF x = Parent[t] THEN was[t] ELSE mark[x]]
    BY <1>5 DEF Pool!Admit, Pool!Refused, Pool!Unblock
  <2>3. Parent[t] # NoTask => tpc[Parent[t]] = "fanned" BY <2>1 DEF SpellsInside
  <2>4. \A x \in Task : tpc[x] = "lockwait" => x # Parent[t] BY <1>0, <2>3
  <2> QED BY <2>1, <2>2, <2>4 DEF LockMarked
<1>6. ASSUME NEW t \in Task, Pool!WaitLock(t) PROVE LockMarked'
  BY <1>0, <1>6 DEF Pool!WaitLock, Pool!Block, LockMarked
<1>7. ASSUME NEW t \in Task, Pool!GetLock(t) PROVE LockMarked'
  BY <1>7 DEF Pool!GetLock, Pool!Unblock, LockMarked
<1> QED BY <1>1, <1>2, <1>3, <1>4, <1>5, <1>6, <1>7 DEF Pool!Next, Pool!TaskNext

LEMMA WedgeSeen ==
  ASSUME Pool!SlotPoolAssumption, PoolInv, LockMarked PROVE WedgeIsSeen
<1> SUFFICES ASSUME AllWaitForLocks PROVE Pool!Wedged BY DEF WedgeIsSeen
<1>1. holds \ yielded = Occupying
  BY DEF AllWaitForLocks, PoolInv, PoolShape, Pool!Stage, RecordsTrue, Occupying
<1>2. \A t \in holds \ yielded : mark[t] # NoTask
  BY <1>1, WeightsCount DEF AllWaitForLocks, LockMarked, Occupying
<1>3. Reserved = {} BY DEF AllWaitForLocks, Reserved
<1>4. Occupying \in SUBSET Task BY DEF Occupying
<1>5. Sum(Weight, Occupying) \in Nat BY <1>4, WeightsCount, FS_Subset, SumNat
<1>6. Sum(Reserve, Reserved) = 0 BY <1>3, SumEmpty, WeightsCount
<1>7. free = 0 /\ free + Sum(Weight, Occupying) + Sum(Reserve, Reserved) = Cap
  BY DEF AllWaitForLocks, PoolInv, SlotsKept
<1>8. Pool!SlotsOf(holds \ yielded) = Cap BY <1>1, <1>5, <1>6, <1>7, WeightsCount, PoolSums
<1> QED BY <1>2, <1>8, WeightsCount DEF AllWaitForLocks, Pool!Wedged

\* "an impossible wait becomes an error instead of a hang" (deadlock.go:65): however many
\* spells of a step queue side by side and whatever marks they leave (deadlock.go:188),
\* a pool whose slots are all held by tasks that wait for locks reads as wedged.
THEOREM WedgeIsSeenAlways ==
  ASSUME Pool!SlotPoolAssumption PROVE Pool!Spec => []WedgeIsSeen
<1> DEFINE Inv == PoolInv /\ LockMarked
<1>1. Pool!Init => Inv BY PoolInit DEF Pool!Init, LockMarked
<1>2. Inv /\ [Pool!Next]_Pool!vars => Inv' BY PoolStep, LockMarkedStep
<1>3. Inv => WedgeIsSeen BY WedgeSeen
<1> HIDE DEF Inv
<1> QED BY <1>1, <1>2, <1>3, PTL DEF Pool!Spec
=============================================================================
