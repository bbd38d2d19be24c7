-------------------------- MODULE ProjectLockProofs --------------------------
(***************************************************************************)
(* Proofs about ProjectLock: who has what of a lock at each stage of an    *)
(* acquisition and of a release, and from it that the owner record and the *)
(* request beside a lock tell the truth about the living.                  *)
(***************************************************************************)
EXTENDS ProjectLock, TLAPS

LEMMA PlanFacts ==
  ASSUME TypeOK
  PROVE  /\ Wants \in [Inv -> SUBSET Project]
         /\ Ancestors \in [Inv -> SUBSET Inv]
         /\ Project \subseteq Nat
         /\ NoInv \notin Inv /\ Prober \notin Inv
  BY ProjectLockAssumption DEF TypeOK, Wants, Ancestors

\* An acquisition is at one project, and so is a release.
LEMMA OneAt ==
  ASSUME TypeOK, NEW i \in Inv, NEW p \in Project, NEW q \in Project
  PROVE  /\ At(i, p) /\ At(i, q) => p = q
         /\ Last(i, p) /\ Last(i, q) => p = q
<1>1. p \in Nat /\ q \in Nat
  BY PlanFacts
<1>. QED  BY <1>1 DEF At, Last, Order

\* What SetSlot leaves in every slot.
LEMMA SlotSet ==
  ASSUME TypeOK, NEW i \in Inv, NEW p \in Project, NEW v \in Inv \cup {NoInv},
         SetSlot(p, i, v)
  PROVE  /\ slot' \in [Project -> [Processes -> Inv \cup {NoInv}]]
         /\ \A x \in Project, q \in Processes :
              slot'[x][q] = IF x = p /\ q = Process[i] THEN v ELSE slot[x][q]
<1>1. slot \in [Project -> [Processes -> Inv \cup {NoInv}]]
  BY DEF TypeOK
<1> DEFINE at == [slot[p] EXCEPT ![Process[i]] = v]
<1>2. at \in [Processes -> Inv \cup {NoInv}]
  BY <1>1
<1>3. slot' = [slot EXCEPT ![p] = at]
  BY DEF SetSlot
<1>4. \A q \in Processes : at[q] = IF q = Process[i] THEN v ELSE slot[p][q]
  BY <1>1
<1> HIDE DEF at
<1>. QED  BY <1>1, <1>2, <1>3, <1>4

LEMMA TypeStep == ASSUME TypeOK, Act, UNCHANGED plan PROVE TypeOK'
<1> USE DEF files
<1> DEFINE Verdict == {"none", "contended", "reentrant", "superseded"}
<1>1. /\ Wants' = Wants /\ Processes' = Processes /\ Kills' = Kills
      /\ plan' \in Plans
  BY DEF TypeOK, Wants, Processes, Process, Kills
<1>2. /\ pc \in [Inv -> Stage] /\ held \in [Inv -> SUBSET Project]
      /\ \A i \in Inv : held[i] \subseteq Wants[i]
      /\ verdict \in [Inv -> {"none", "contended", "reentrant", "superseded"}]
      /\ slot \in [Project -> [Processes -> Inv \cup {NoInv}]]
      /\ flock \in [Project -> Inv \cup {NoInv, Prober}]
      /\ owner \in [Project -> Inv \cup {NoInv}]
      /\ marker \in [Project -> Inv \cup {NoInv}]
      /\ dead \subseteq Kills
  BY DEF TypeOK
<1>3. ASSUME NEW i \in Inv, NEW to \in Stage, Go(i, to) PROVE pc' \in [Inv -> Stage]
  BY <1>2, <1>3 DEF Go
<1>4. ASSUME NEW i \in Inv, NEW why \in Verdict, Fail(i, why)
      PROVE  pc' \in [Inv -> Stage] /\ verdict' \in [Inv -> Verdict]
  <2>1. Go(i, "done") \/ Go(i, "disowning")
    BY <1>4 DEF Fail
  <2>. QED  BY <1>2, <1>3, <1>4, <2>1 DEF Fail, Stage
<1>5. ASSUME NEW p \in Project, NEW i \in Inv \cup {NoInv}, Set(marker, p, i)
      PROVE  marker' \in [Project -> Inv \cup {NoInv}]
  BY <1>2, <1>5 DEF Set
<1>6. ASSUME NEW i \in Inv, NEW p \in Project, SetSlot(p, i, NoInv) \/ SetSlot(p, i, i)
      PROVE  slot' \in [Project -> [Processes -> Inv \cup {NoInv}]]
  BY <1>6, SlotSet
<1> HIDE DEF Verdict
<1>7. {"contended", "reentrant", "superseded"} \subseteq Verdict
  BY DEF Verdict
<1>8. ASSUME pc' \in [Inv -> Stage], verdict' \in [Inv -> Verdict],
             marker' \in [Project -> Inv \cup {NoInv}],
             slot' \in [Project -> [Processes -> Inv \cup {NoInv}]],
             UNCHANGED <<held, flock, owner, dead>>
      PROVE  TypeOK'
  BY <1>1, <1>2, <1>8 DEF TypeOK, Verdict
<1>9. ASSUME NEW i \in Inv, Begin(i) \/ PollYield(i) \/ Finish(i) \/ Stall(i) PROVE TypeOK'
  BY <1>1, <1>2, <1>9 DEF TypeOK, Begin, PollYield, Finish, Stall, Go, Set, Stage
<1>10. ASSUME NEW i \in Inv, NEW p \in Project,
             Queue(i, p) \/ QueueExpires(i, p) \/ Retract(i, p)
      PROVE  TypeOK'
  <2>1. marker' \in [Project -> Inv \cup {NoInv}]
    BY <1>2, <1>10, <1>5 DEF Queue, QueueExpires, Retract
  <2>2. /\ \/ Fail(i, "reentrant") \/ Fail(i, "contended")
           \/ UNCHANGED verdict /\ \E to \in Stage : Go(i, to)
        /\ UNCHANGED <<held, slot, flock, owner, dead>>
    BY <1>10 DEF Queue, QueueExpires, Retract, Stage
  <2>. QED  BY <1>2, <1>3, <1>4, <1>7, <1>8, <2>1, <2>2 DEF Verdict
<1>11. ASSUME NEW i \in Inv, NEW p \in Project, TakeSlot(i, p) \/ TakeQueued(i, p)
      PROVE  TypeOK'
  <2>1. /\ SetSlot(p, i, i)
        /\ \E to \in Stage : Go(i, to)
        /\ UNCHANGED <<held, verdict, flock, owner, marker, dead>>
    BY <1>11 DEF TakeSlot, TakeQueued, Stage
  <2>. QED  BY <1>2, <1>3, <1>6, <1>8, <2>1 DEF Verdict
<1>12. ASSUME NEW i \in Inv, NEW p \in Project, Contend(i, p) \/ AskExpires(i, p)
      PROVE  TypeOK'
  <2>1. /\ \/ Fail(i, "reentrant") \/ Fail(i, "contended")
           \/ UNCHANGED verdict /\ \E to \in Stage : Go(i, to)
        /\ SetSlot(p, i, NoInv) \/ UNCHANGED slot
        /\ UNCHANGED marker \/ Set(marker, p, i) \/ Set(marker, p, NoInv)
        /\ UNCHANGED <<held, flock, owner, dead>>
    BY <1>12 DEF Contend, AskExpires, Stage
  <2>. QED  BY <1>2, <1>3, <1>4, <1>5, <1>6, <1>7, <1>8, <2>1 DEF Verdict
<1>13. ASSUME NEW i \in Inv, NEW p \in Project, TryLock(i, p) \/ Poll(i, p) PROVE TypeOK'
  <2>1. /\ Set(flock, p, i)
        /\ Go(i, "locked") \/ Go(i, "took")
        /\ UNCHANGED <<held, verdict, slot, owner, marker, dead>>
    BY <1>13 DEF TryLock, Poll
  <2>. QED  BY <1>1, <1>2, <2>1 DEF TypeOK, Go, Set, Stage
<1>14. ASSUME NEW i \in Inv, NEW p \in Project, RecordOwner(i, p) PROVE TypeOK'
  <2>1. p \in Wants[i] /\ p \in Project
    BY <1>14 DEF RecordOwner, At
  <2>. QED  BY <1>1, <1>2, <1>14, <2>1 DEF TypeOK, RecordOwner, Go, Set, Stage
<1>15. ASSUME NEW i \in Inv, NEW p \in Project, Release(i, p) PROVE TypeOK'
  <2>1. CASE RemoveOwner(i, p) \/ Unlock(i, p)
    BY <1>1, <1>2, <2>1 DEF TypeOK, RemoveOwner, Unlock, Go, Set, Stage
  <2>2. CASE Give(i, p)
    <3>1. SetSlot(p, i, NoInv)
      BY <2>2 DEF Give
    <3>. QED  BY <1>1, <1>2, <2>2, <3>1, SlotSet DEF TypeOK, Give, Go, Stage
  <2>. QED  BY <1>15, <2>1, <2>2 DEF Release
<1>16. ASSUME NEW q \in Kills, Kill(q) PROVE TypeOK'
  BY <1>1, <1>2, <1>16 DEF TypeOK, Kill, Stage
<1>17. ASSUME NEW p \in Project, Status(p) PROVE TypeOK'
  BY <1>1, <1>2, <1>17 DEF TypeOK, Status, Set
<1>. QED
  BY <1>9, <1>10, <1>11, <1>12, <1>13, <1>14, <1>15, <1>16, <1>17 DEF Act, Acquire

\* Every variable of the locks keeps its shape, and a run locks what it wants.
THEOREM LockTypeCorrect == Spec => []TypeOK
<1>1. Init => TypeOK
  BY DEF Init, TypeOK, Stage
<1>2. TypeOK /\ [Next]_vars => TypeOK'
  <2>1. ASSUME TypeOK, UNCHANGED vars PROVE TypeOK'
    <3>1. Wants' = Wants /\ Processes' = Processes /\ Kills' = Kills
      BY <2>1 DEF vars, Wants, Processes, Process, Kills
    <3>. QED  BY <2>1, <3>1 DEF TypeOK, vars, lockVars, files
  <2>. QED  BY <2>1, TypeStep DEF Next
<1>. QED  BY <1>1, <1>2, PTL DEF Spec

-----------------------------------------------------------------------------
(* Who has what of a lock.                                                   *)

\* A release of p by i is past its record, and past its flock.
Disowned(i, p) == pc[i] \in {"unlocking", "giving"} /\ Last(i, p)
Unlocked(i, p) == pc[i] = "giving" /\ Last(i, p)

\* What i has of each project it has locked and has not handed back: the slot of its
\* process, the flock, and the record.
Keeps(i) ==
  \A p \in held[i] :
    InSlot(p, i) /\ (Unlocked(i, p) \/ flock[p] = i) /\ (Disowned(i, p) \/ owner[p] = i)

\* What i has of the project its acquisition is at.
Gets(i) ==
  \A p \in Project : At(i, p) =>
    /\ pc[i] \in {"flock", "asking", "took", "tookSlot", "sibling", "locked"} => InSlot(p, i)
    /\ pc[i] \in {"took", "locked"} => flock[p] = i

Whole(i) ==
  /\ pc[i] = "running" => held[i] = Wants[i]
  /\ pc[i] \in {"out", "done", "dead"} => held[i] = {}
  /\ pc[i] = "dead" => Process[i] \in dead

Has(i) == Keeps(i) /\ Gets(i) /\ Whole(i)

\* A record that names one alive is that of the holder.
RecordTrue ==
  \A p \in Project :
    owner[p] \in Inv /\ pc[owner[p]] # "dead" =>
      p \in held[owner[p]] /\ flock[p] = owner[p] /\ ~Disowned(owner[p], p)

Asks == {"queuedAsking", "queuedBounded", "tookSlot", "asking", "took"}

\* A request that names one alive is of one that waits for the lock or just took it.
RequestTrue ==
  \A p \in Project :
    marker[p] \in Inv /\ pc[marker[p]] # "dead" =>
      At(marker[p], p) /\ pc[marker[p]] \in Asks

LockInv == (\A i \in Inv : Has(i)) /\ RecordTrue /\ RequestTrue

\* The plan stays.
LEMMA SamePlan ==
  ASSUME UNCHANGED plan
  PROVE  /\ Wants' = Wants /\ Process' = Process /\ Kills' = Kills
         /\ Ancestors' = Ancestors /\ Started' = Started /\ Role' = Role
  BY DEF Wants, Process, Kills, Ancestors, Started, Role

\* An invocation keeps what it has when a step takes none of it away.
LEMMA Kept ==
  ASSUME TypeOK, UNCHANGED plan, NEW j \in Inv, Has(j),
         pc'[j] = pc[j], held'[j] = held[j], dead \subseteq dead',
         \A x \in Project : InSlot(x, j) => InSlot(x, j)',
         \A x \in Project : flock[x] = j => flock'[x] = j,
         \A x \in Project : flock[x] = j /\ owner[x] = j => owner'[x] = j
  PROVE  Has(j)'
<1>1. Wants' = Wants /\ Process' = Process
  BY SamePlan
<1>2. held[j] \subseteq Project
  BY DEF TypeOK
<1>3. \A x : /\ At(j, x)' <=> At(j, x)
             /\ Last(j, x)' <=> Last(j, x)
  BY <1>1 DEF At, Last
<1>4. \A x : /\ Unlocked(j, x)' <=> Unlocked(j, x)
             /\ Disowned(j, x)' <=> Disowned(j, x)
             /\ Unlocked(j, x) => Disowned(j, x)
  BY <1>3 DEF Unlocked, Disowned
<1>5. Keeps(j)'
  BY <1>2, <1>4 DEF Keeps, Has
<1>6. Gets(j)'
  BY <1>3 DEF Gets, Has
<1>7. Whole(j)'
  BY <1>1 DEF Whole, Has
<1>. QED  BY <1>5, <1>6, <1>7 DEF Has

\* What of the locks an action of i at p may change.
Reaches(i, p) ==
  /\ \A j \in Inv \ {i} : pc'[j] = pc[j] /\ held'[j] = held[j]
  /\ UNCHANGED dead
  /\ \A x \in Project \ {p} : /\ flock'[x] = flock[x] /\ owner'[x] = owner[x]
                              /\ marker'[x] = marker[x] /\ slot'[x] = slot[x]
  /\ \A j \in Inv \ {i} : InSlot(p, j) => InSlot(p, j)'
  /\ flock'[p] = flock[p] \/ flock[p] \in {NoInv, i}
  /\ owner'[p] = owner[p] \/ flock[p] = i

LEMMA OthersKeep ==
  ASSUME TypeOK, UNCHANGED plan, \A j \in Inv : Has(j), NEW i \in Inv, NEW p, Reaches(i, p)
  PROVE  \A j \in Inv \ {i} : Has(j)'
<1> SUFFICES ASSUME NEW j \in Inv \ {i} PROVE Has(j)'
  OBVIOUS
<1>1. Process' = Process
  BY SamePlan
<1>2. \A x \in Project : InSlot(x, j) => InSlot(x, j)'
  BY <1>1 DEF Reaches, InSlot
<1>3. NoInv \notin Inv
  BY PlanFacts
<1>. QED  BY <1>2, <1>3, Kept DEF Reaches

\* What i has locked stays its own while an action of i is at another project.
LEMMA KeepsOwn ==
  ASSUME TypeOK, UNCHANGED plan, NEW i \in Inv, Has(i), held'[i] = held[i],
         pc[i] \notin {"unlocking", "giving"},
         \A x \in held[i] : slot'[x] = slot[x] /\ flock'[x] = flock[x] /\ owner'[x] = owner[x]
  PROVE  Keeps(i)'
<1>1. Process' = Process
  BY SamePlan
<1>2. \A x \in held[i] : InSlot(x, i) /\ flock[x] = i /\ owner[x] = i
  BY DEF Has, Keeps, Unlocked, Disowned
<1>. QED  BY <1>1, <1>2 DEF Keeps, InSlot

\* What an acquisition has of the project it is at.
LEMMA GetsOwn ==
  ASSUME TypeOK, UNCHANGED plan, NEW i \in Inv, NEW p \in Project, At(i, p),
         held'[i] = held[i],
         pc'[i] \in {"flock", "asking", "took", "tookSlot", "sibling", "locked"} => InSlot(p, i)',
         pc'[i] \in {"took", "locked"} => flock'[p] = i
  PROVE  Gets(i)'
<1>1. \A x : At(i, x)' <=> At(i, x)
  BY SamePlan DEF At
<1>2. \A x \in Project : At(i, x) => x = p
  BY OneAt
<1>. QED  BY <1>1, <1>2 DEF Gets

\* A record is left as it is by a step that takes no flock from anyone.
LEMMA RecordKept ==
  ASSUME TypeOK, UNCHANGED plan, RecordTrue, NEW i \in Inv, pc[i] # "dead",
         pc'[i] \notin {"unlocking", "giving"},
         \A j \in Inv \ {i} : pc'[j] = pc[j],
         UNCHANGED <<owner, held>>,
         \A x \in Project : flock'[x] = flock[x] \/ flock[x] = NoInv
  PROVE  RecordTrue'
<1>1. \A j, x : Last(j, x)' <=> Last(j, x)
  BY DEF Last
<1>2. ASSUME NEW x \in Project, NEW a \in Inv, owner'[x] = a, pc'[a] # "dead"
      PROVE  x \in held'[a] /\ flock'[x] = a /\ ~Disowned(a, x)'
  <2>1. owner[x] = a /\ pc[a] # "dead" /\ a # NoInv
    BY <1>2, PlanFacts
  <2>2. x \in held[a] /\ flock[x] = a /\ ~Disowned(a, x)
    BY <2>1 DEF RecordTrue
  <2>3. ~Disowned(a, x)'
    BY <1>1, <2>1, <2>2 DEF Disowned
  <2>. QED  BY <2>1, <2>2, <2>3
<1>. QED  BY <1>2 DEF RecordTrue

\* A request stays true when its asker alone moves, and answers for it.
LEMMA RequestStays ==
  ASSUME TypeOK, UNCHANGED plan, RequestTrue, NEW i \in Inv, NEW p, pc[i] # "dead",
         \A j \in Inv \ {i} : pc'[j] = pc[j] /\ held'[j] = held[j],
         \A x \in Project : marker'[x] = marker[x] \/ (x = p /\ marker'[x] \in {i, NoInv}),
         At(i, p) \/ pc[i] \notin Asks,
         marker'[p] = i => At(i, p) /\ held'[i] = held[i] /\ pc'[i] \in Asks
  PROVE  RequestTrue'
<1>1. \A j \in Inv : \A x : held'[j] = held[j] => (At(j, x)' <=> At(j, x))
  BY SamePlan DEF At
<1>2. p \in Project \/ ~At(i, p)
  BY PlanFacts DEF At
<1>3. \A x \in Project : At(i, p) /\ At(i, x) => x = p
  BY <1>2, OneAt
<1>4. ASSUME NEW x \in Project, NEW a \in Inv, marker'[x] = a, pc'[a] # "dead"
      PROVE  At(a, x)' /\ pc'[a] \in Asks
  <2>1. CASE x = p /\ a = i
    BY <1>1, <1>4, <2>1
  <2>2. CASE ~(x = p /\ a = i)
    <3>1. marker[x] = a /\ a \in Inv
      BY <1>4, <2>2, PlanFacts
    <3>2. CASE a = i
      <4>1. At(i, x) /\ pc[i] \in Asks
        BY <3>1, <3>2 DEF RequestTrue
      <4>. QED  BY <1>3, <2>2, <3>2, <4>1
    <3>3. CASE a # i
      <4>1. pc'[a] = pc[a] /\ held'[a] = held[a] /\ pc[a] # "dead"
        BY <1>4, <3>1, <3>3
      <4>2. At(a, x) /\ pc[a] \in Asks
        BY <3>1, <4>1 DEF RequestTrue
      <4>. QED  BY <1>1, <3>1, <4>1, <4>2
    <3>. QED  BY <3>2, <3>3
  <2>. QED  BY <2>1, <2>2
<1>. QED  BY <1>4 DEF RequestTrue

SlotStages == {"flock", "asking", "took", "tookSlot", "sibling", "locked"}

\* A step of an acquisition that records nothing yet: it may take or give back the slot
\* of its process, take a flock nobody has, and post or take back a request of its own.
LEMMA AcquisitionStep ==
  ASSUME TypeOK, LockInv, UNCHANGED plan, NEW i \in Inv, NEW p \in Project, At(i, p),
         UNCHANGED <<held, owner, dead>>,
         \A j \in Inv \ {i} : pc'[j] = pc[j],
         pc[i] \notin {"dead", "unlocking", "giving"},
         pc'[i] \notin {"dead", "out", "running", "unlocking", "giving"},
         pc'[i] = "done" => held[i] = {},
         slot' = slot \/ (SetSlot(p, i, i) /\ SlotFree(p, i)) \/ (SetSlot(p, i, NoInv) /\ InSlot(p, i)),
         flock' = flock \/ (Set(flock, p, i) /\ flock[p] = NoInv),
         marker' = marker \/ Set(marker, p, i) \/ Set(marker, p, NoInv),
         pc'[i] \in SlotStages => InSlot(p, i)',
         pc'[i] \in {"took", "locked"} => flock'[p] = i,
         marker'[p] = i => pc'[i] \in Asks
  PROVE  LockInv'
<1>1. /\ Process' = Process /\ NoInv \notin Inv
      /\ \A j \in Inv : Process[j] \in Processes
  BY SamePlan, PlanFacts DEF Processes
<1>2. /\ slot \in [Project -> [Processes -> Inv \cup {NoInv}]]
      /\ flock \in [Project -> Inv \cup {NoInv, Prober}]
      /\ marker \in [Project -> Inv \cup {NoInv}]
      /\ held \in [Inv -> SUBSET Project]
  BY DEF TypeOK
<1>3. \A x \in Project \ {p} : slot'[x] = slot[x] /\ flock'[x] = flock[x] /\ marker'[x] = marker[x]
  BY <1>2 DEF SetSlot, Set
<1>4. ASSUME NEW j \in Inv \ {i}, InSlot(p, j) PROVE InSlot(p, j)'
  <2>1. CASE slot' = slot
    BY <1>1, <1>4, <2>1 DEF InSlot
  <2>2. CASE slot' # slot
    <3>1. \E v \in Inv \cup {NoInv} : SetSlot(p, i, v) /\ slot[p][Process[i]] \in {i, NoInv}
      BY <2>2 DEF InSlot, SlotFree
    <3>2. Process[j] # Process[i]
      BY <1>1, <1>4, <3>1 DEF InSlot
    <3>. QED  BY <1>1, <1>4, <3>1, <3>2, SlotSet DEF InSlot
  <2>. QED  BY <2>1, <2>2
<1>5. flock'[p] = flock[p] \/ flock[p] = NoInv
  BY DEF Set
<1>6. \A j \in Inv \ {i} : Has(j)'
  <2>1. Reaches(i, p)
    BY <1>3, <1>4, <1>5 DEF Reaches
  <2>. QED  BY <2>1, OthersKeep DEF LockInv
<1>7. Has(i)'
  <2>1. p \notin held[i] /\ held[i] \subseteq Project
    BY <1>2 DEF At
  <2>2. Keeps(i)'
    <3>1. \A x \in held[i] : slot'[x] = slot[x] /\ flock'[x] = flock[x] /\ owner'[x] = owner[x]
      BY <1>3, <2>1
    <3>. QED  BY <3>1, KeepsOwn DEF LockInv
  <2>3. Gets(i)'
    BY GetsOwn DEF SlotStages
  <2>4. Whole(i)'
    BY DEF Whole
  <2>. QED  BY <2>2, <2>3, <2>4 DEF Has
<1>8. RecordTrue'
  <2>1. \A x \in Project : flock'[x] = flock[x] \/ flock[x] = NoInv
    BY <1>3, <1>5
  <2>. QED  BY <2>1, RecordKept DEF LockInv
<1>9. RequestTrue'
  <2>1. \A x \in Project : marker'[x] = marker[x] \/ (x = p /\ marker'[x] \in {i, NoInv})
    BY <1>2, <1>3 DEF Set
  <2>. QED  BY <2>1, RequestStays DEF LockInv
<1>. QED  BY <1>6, <1>7, <1>8, <1>9 DEF LockInv

LEMMA AcquireStep ==
  ASSUME TypeOK, LockInv, UNCHANGED plan, NEW i \in Inv, NEW p \in Project,
         Acquire(i, p), ~RecordOwner(i, p)
  PROVE  LockInv'
<1> USE DEF files
<1>1. /\ Process' = Process /\ Process[i] \in Processes /\ NoInv \notin Inv
      /\ pc \in [Inv -> Stage]
      /\ flock \in [Project -> Inv \cup {NoInv, Prober}]
      /\ marker \in [Project -> Inv \cup {NoInv}]
  BY SamePlan, PlanFacts DEF Processes, TypeOK
<1>2. /\ pc[i] \in SlotStages /\ At(i, p) => InSlot(p, i)
      /\ pc[i] \in {"took", "locked"} /\ At(i, p) => flock[p] = i
      /\ marker[p] = i /\ pc[i] # "dead" => pc[i] \in Asks
  BY DEF LockInv, Has, Gets, RequestTrue, SlotStages
<1>3. SetSlot(p, i, i) => InSlot(p, i)'
  BY <1>1, SlotSet DEF InSlot
<1>4. UNCHANGED slot => (InSlot(p, i)' <=> InSlot(p, i))
  BY <1>1 DEF InSlot
<1>5. ASSUME NEW why, Fail(i, why)
      PROVE  /\ \A j \in Inv \ {i} : pc'[j] = pc[j]
             /\ pc'[i] \in {"done", "disowning"}
             /\ pc'[i] = "done" => held[i] = {}
  BY <1>1, <1>5 DEF Fail, Go
<1>6. ASSUME NEW to, Go(i, to) PROVE pc'[i] = to /\ \A j \in Inv \ {i} : pc'[j] = pc[j]
  BY <1>1, <1>6 DEF Go
<1>7. Set(marker, p, NoInv) => marker'[p] # i
  BY <1>1 DEF Set
<1>8. Set(flock, p, i) => flock'[p] = i
  BY <1>1 DEF Set
<1>9. CASE TakeSlot(i, p)
  BY <1>1, <1>2, <1>3, <1>6, <1>9, AcquisitionStep DEF TakeSlot, Asks
<1>10. CASE TakeQueued(i, p)
  BY <1>1, <1>2, <1>3, <1>6, <1>10, AcquisitionStep DEF TakeQueued, Asks
<1>11. CASE Queue(i, p)
  <2>1. /\ pc[i] = "local" /\ At(i, p) /\ marker[p] # i
        /\ UNCHANGED <<held, slot, flock, owner, dead>>
    BY <1>2, <1>11 DEF Queue, Asks
  <2>2. CASE UNCHANGED marker /\ \E why : Fail(i, why)
    BY <1>5, <2>1, <2>2, AcquisitionStep DEF SlotStages
  <2>3. CASE Set(marker, p, i) /\ (Go(i, "queuedBounded") \/ Go(i, "queuedAsking"))
    BY <1>6, <2>1, <2>3, AcquisitionStep DEF SlotStages, Asks
  <2>4. CASE UNCHANGED marker /\ Go(i, "queued")
    BY <1>6, <2>1, <2>4, AcquisitionStep DEF SlotStages
  <2>. QED  BY <1>11, <2>2, <2>3, <2>4 DEF Queue
<1>12. CASE QueueExpires(i, p)
  BY <1>1, <1>2, <1>4, <1>5, <1>7, <1>12, AcquisitionStep DEF QueueExpires, SlotStages
<1>13. CASE TryLock(i, p)
  BY <1>1, <1>2, <1>4, <1>6, <1>8, <1>13, AcquisitionStep DEF TryLock, SlotStages, Asks
<1>14. CASE Contend(i, p)
  <2>1. pc[i] = "flock" /\ At(i, p) /\ InSlot(p, i) /\ UNCHANGED <<held, flock, owner, dead>>
    BY <1>2, <1>14 DEF Contend, SlotStages
  <2>2. CASE UNCHANGED marker /\ SetSlot(p, i, NoInv) /\ \E why : Fail(i, why)
    BY <1>1, <1>2, <1>5, <2>1, <2>2, AcquisitionStep DEF SlotStages, Asks
  <2>3. CASE Set(marker, p, i) /\ UNCHANGED slot /\ Go(i, "asking")
    BY <1>1, <1>4, <1>6, <2>1, <2>3, AcquisitionStep DEF Asks
  <2>4. CASE UNCHANGED <<marker, slot>> /\ Go(i, "sibling")
    BY <1>1, <1>2, <1>4, <1>6, <2>1, <2>4, AcquisitionStep DEF Asks
  <2>. QED  BY <1>14, <2>2, <2>3, <2>4 DEF Contend
<1>15. CASE Poll(i, p)
  <2>1. /\ At(i, p) /\ InSlot(p, i) /\ Set(flock, p, i) /\ flock[p] = NoInv
        /\ UNCHANGED <<held, slot, owner, marker, dead>>
    BY <1>2, <1>15 DEF Poll, SlotStages
  <2>2. CASE pc[i] = "asking" /\ Go(i, "took")
    BY <1>4, <1>6, <1>8, <2>1, <2>2, AcquisitionStep DEF Asks
  <2>3. CASE pc[i] = "sibling" /\ Go(i, "locked")
    BY <1>2, <1>4, <1>6, <1>8, <2>1, <2>3, AcquisitionStep DEF Asks
  <2>. QED  BY <1>15, <2>2, <2>3 DEF Poll
<1>16. CASE Retract(i, p)
  BY <1>1, <1>2, <1>4, <1>6, <1>7, <1>16, AcquisitionStep DEF Retract, SlotStages
<1>17. CASE AskExpires(i, p)
  BY <1>1, <1>2, <1>5, <1>7, <1>17, AcquisitionStep DEF AskExpires, SlotStages
<1>. QED
  BY <1>9, <1>10, <1>11, <1>12, <1>13, <1>14, <1>15, <1>16, <1>17 DEF Acquire

LEMMA RecordStep ==
  ASSUME TypeOK, LockInv, UNCHANGED plan, NEW i \in Inv, NEW p \in Project, RecordOwner(i, p)
  PROVE  LockInv'
<1>1. /\ Process' = Process /\ Wants' = Wants /\ NoInv \notin Inv
      /\ owner \in [Project -> Inv \cup {NoInv}] /\ marker \in [Project -> Inv \cup {NoInv}]
      /\ pc \in [Inv -> Stage] /\ held \in [Inv -> SUBSET Project]
  BY SamePlan, PlanFacts DEF TypeOK
<1>2. /\ pc[i] = "locked" /\ At(i, p) /\ UNCHANGED <<slot, flock, dead>>
      /\ owner' = [owner EXCEPT ![p] = i]
      /\ held' = [held EXCEPT ![i] = @ \cup {p}]
      /\ marker' = marker \/ marker' = [marker EXCEPT ![p] = NoInv]
      /\ \/ pc' = [pc EXCEPT ![i] = "running"] /\ held'[i] = Wants[i]
         \/ pc' = [pc EXCEPT ![i] = "local"]
  BY DEF RecordOwner, Set, Go, Complete
<1>3. InSlot(p, i) /\ flock[p] = i
  BY <1>2 DEF LockInv, Has, Gets
<1>4. /\ pc'[i] \in {"running", "local"} /\ (pc'[i] = "running" => held'[i] = Wants[i])
      /\ held'[i] = held[i] \cup {p} /\ owner'[p] = i
      /\ \A j \in Inv \ {i} : pc'[j] = pc[j] /\ held'[j] = held[j]
      /\ \A x \in Project \ {p} : owner'[x] = owner[x] /\ marker'[x] = marker[x]
  BY <1>1, <1>2
<1>5. \A j \in Inv \ {i} : Has(j)'
  <2>1. Reaches(i, p)
    BY <1>1, <1>2, <1>3, <1>4 DEF Reaches, InSlot
  <2>. QED  BY <2>1, OthersKeep DEF LockInv
<1>6. Has(i)'
  <2>1. \A x \in held[i] : InSlot(x, i) /\ flock[x] = i /\ owner[x] = i
    BY <1>2 DEF LockInv, Has, Keeps, Unlocked, Disowned
  <2>2. Keeps(i)'
    BY <1>1, <1>2, <1>3, <1>4, <2>1 DEF Keeps, InSlot
  <2>3. Gets(i)' /\ Whole(i)'
    BY <1>1, <1>4 DEF Gets, Whole
  <2>. QED  BY <2>2, <2>3 DEF Has
<1>7. RecordTrue'
  <2>1. ASSUME NEW x \in Project, NEW a \in Inv, owner'[x] = a, pc'[a] # "dead"
        PROVE  x \in held'[a] /\ flock'[x] = a /\ ~Disowned(a, x)'
    <3>1. CASE x = p
      BY <1>2, <1>3, <1>4, <2>1, <3>1 DEF Disowned
    <3>2. CASE x # p
      <4>1. owner[x] = a /\ pc[a] # "dead"
        BY <1>2, <1>4, <2>1, <3>2
      <4>2. x \in held[a] /\ flock[x] = a /\ ~Disowned(a, x)
        BY <4>1 DEF LockInv, RecordTrue
      <4>3. a # i => ~Disowned(a, x)'
        BY <1>4, <4>2 DEF Disowned, Last
      <4>4. ~Disowned(i, x)'
        BY <1>4 DEF Disowned
      <4>. QED  BY <1>2, <1>4, <4>2, <4>3, <4>4
    <3>. QED  BY <3>1, <3>2
  <2>. QED  BY <2>1 DEF RecordTrue
<1>8. RequestTrue'
  <2>1. \A x \in Project : marker'[x] = marker[x] \/ (x = p /\ marker'[x] \in {i, NoInv})
    BY <1>1, <1>2
  <2>2. marker'[p] # i
    BY <1>1, <1>2 DEF LockInv, RequestTrue, Asks
  <2>. QED  BY <1>2, <1>4, <2>1, <2>2, RequestStays DEF LockInv
<1>. QED  BY <1>5, <1>6, <1>7, <1>8 DEF LockInv

LEMMA ReleaseStep ==
  ASSUME TypeOK, LockInv, UNCHANGED plan, NEW i \in Inv, NEW p \in Project, Release(i, p)
  PROVE  LockInv'
<1> USE DEF files
<1>1. /\ Process' = Process /\ Wants' = Wants /\ NoInv \notin Inv
      /\ \A j \in Inv : Process[j] \in Processes
      /\ owner \in [Project -> Inv \cup {NoInv}]
      /\ flock \in [Project -> Inv \cup {NoInv, Prober}]
      /\ pc \in [Inv -> Stage] /\ held \in [Inv -> SUBSET Project]
  BY SamePlan, PlanFacts DEF TypeOK, Processes
<1>2. /\ Last(i, p) /\ p \in held[i] /\ UNCHANGED <<marker, dead>>
      /\ pc[i] \in {"disowning", "unlocking", "giving"}
  BY DEF Release, RemoveOwner, Unlock, Give, Last
<1>3. \A x \in Project : Last(i, x) => x = p
  BY <1>2, OneAt
<1>4. \A x \in held[i] \ {p} : InSlot(x, i) /\ flock[x] = i /\ owner[x] = i
  BY <1>1, <1>3 DEF LockInv, Has, Keeps, Unlocked, Disowned
<1>5. InSlot(p, i) /\ (pc[i] # "giving" => flock[p] = i)
  BY <1>2 DEF LockInv, Has, Keeps, Unlocked
<1>6. pc[i] # "disowning" => owner[p] # i
  BY <1>1, <1>2 DEF LockInv, RecordTrue, Disowned
<1>7. \A j \in Inv \ {i} : pc'[j] = pc[j] /\ held'[j] = held[j]
  BY <1>1 DEF Release, RemoveOwner, Unlock, Give, Go
<1>8. RequestTrue'
  <2>1. marker[p] # i /\ pc[i] \notin Asks
    BY <1>2 DEF LockInv, RequestTrue, Asks
  <2>. QED  BY <1>2, <1>7, <2>1, RequestStays DEF LockInv
<1>9. ASSUME Reaches(i, p), Has(i)',
             \A x \in held[i] \ {p} : x \in held'[i] /\ ~Disowned(i, x)',
             (owner'[p] = owner[p] /\ pc[i] # "disowning") \/ owner'[p] = NoInv
      PROVE  LockInv'
  <2>1. \A j \in Inv \ {i} : Has(j)'
    BY <1>9, OthersKeep DEF LockInv
  <2>2. ASSUME NEW x \in Project, NEW a \in Inv, owner'[x] = a, pc'[a] # "dead"
        PROVE  x \in held'[a] /\ flock'[x] = a /\ ~Disowned(a, x)'
    <3>1. owner[x] = a /\ (x = p => a # i)
      BY <1>1, <1>6, <1>9, <2>2 DEF Reaches
    <3>2. pc[a] # "dead"
      BY <1>2, <1>7, <2>2
    <3>3. x \in held[a] /\ flock[x] = a /\ ~Disowned(a, x)
      BY <3>1, <3>2 DEF LockInv, RecordTrue
    <3>4. flock'[x] = a
      BY <1>1, <1>9, <3>1, <3>3 DEF Reaches
    <3>5. CASE a = i
      BY <1>9, <3>1, <3>3, <3>4, <3>5
    <3>6. CASE a # i
      <4>1. ~Disowned(a, x)'
        BY <1>7, <3>3, <3>6 DEF Disowned, Last
      <4>. QED  BY <1>7, <3>3, <3>4, <3>6, <4>1
    <3>. QED  BY <3>5, <3>6
  <2>3. RecordTrue'
    BY <2>2 DEF RecordTrue
  <2>. QED  BY <1>8, <1>9, <2>1, <2>3 DEF LockInv
<1>10. CASE RemoveOwner(i, p)
  <2>1. /\ pc[i] = "disowning" /\ pc'[i] = "unlocking"
        /\ owner'[p] = NoInv /\ \A x \in Project \ {p} : owner'[x] = owner[x]
        /\ UNCHANGED <<held, slot, flock>>
    BY <1>1, <1>10 DEF RemoveOwner, Go, Set
  <2>2. Reaches(i, p)
    BY <1>1, <1>2, <1>5, <1>7, <2>1 DEF Reaches, InSlot
  <2>3. \A x \in Project : Last(i, x)' <=> x = p
    BY <1>2, <1>3, <2>1 DEF Last
  <2>4. Has(i)'
    BY <1>1, <1>4, <1>5, <2>1, <2>3 DEF Has, Keeps, Gets, Whole, InSlot, Disowned
  <2>. QED  BY <1>1, <1>9, <2>1, <2>2, <2>3, <2>4 DEF Disowned
<1>11. CASE Unlock(i, p)
  <2>1. /\ pc[i] = "unlocking" /\ pc'[i] = "giving"
        /\ flock'[p] = NoInv /\ \A x \in Project \ {p} : flock'[x] = flock[x]
        /\ UNCHANGED <<held, slot, owner>>
    BY <1>1, <1>11 DEF Unlock, Go, Set
  <2>2. Reaches(i, p)
    BY <1>1, <1>2, <1>5, <1>7, <2>1 DEF Reaches, InSlot
  <2>3. \A x \in Project : Last(i, x)' <=> x = p
    BY <1>2, <1>3, <2>1 DEF Last
  <2>4. Has(i)'
    BY <1>1, <1>4, <1>5, <2>1, <2>3 DEF Has, Keeps, Gets, Whole, InSlot, Disowned, Unlocked
  <2>. QED  BY <1>1, <1>9, <2>1, <2>2, <2>3, <2>4 DEF Disowned
<1>12. CASE Give(i, p)
  <2>1. /\ pc[i] = "giving" /\ UNCHANGED <<flock, owner>> /\ SetSlot(p, i, NoInv)
        /\ held'[i] = held[i] \ {p}
        /\ pc'[i] \in {"done", "disowning"} /\ (pc'[i] = "done" => held'[i] = {})
    BY <1>1, <1>12 DEF Give, Go
  <2>2. \A x \in Project \ {p} : slot'[x] = slot[x]
    BY <2>1 DEF SetSlot, TypeOK
  <2>3. \A j \in Inv \ {i} : InSlot(p, j) => InSlot(p, j)'
    <3>1. \A j \in Inv \ {i} : InSlot(p, j) => Process[j] # Process[i]
      BY <1>5 DEF InSlot
    <3>. QED  BY <1>1, <2>1, <3>1, SlotSet DEF InSlot
  <2>4. Reaches(i, p)
    BY <1>2, <1>7, <2>1, <2>2, <2>3 DEF Reaches
  <2>5. Has(i)'
    BY <1>1, <1>4, <2>1, <2>2 DEF Has, Keeps, Gets, Whole, InSlot
  <2>. QED  BY <1>9, <2>1, <2>4, <2>5 DEF Disowned
<1>. QED  BY <1>10, <1>11, <1>12 DEF Release

\* The steps of a run itself, before its first lock and around its end.
LEMMA RunStep ==
  ASSUME TypeOK, LockInv, UNCHANGED plan, NEW i \in Inv,
         Begin(i) \/ PollYield(i) \/ Finish(i) \/ Stall(i)
  PROVE  LockInv'
<1> USE DEF files
<1>1. /\ Wants' = Wants /\ NoInv \notin Inv
      /\ pc \in [Inv -> Stage] /\ marker \in [Project -> Inv \cup {NoInv}]
  BY SamePlan, PlanFacts DEF TypeOK
<1>2. /\ UNCHANGED <<held, slot, flock, owner, dead>>
      /\ pc[i] \in {"out", "running", "unwinding"}
      /\ pc'[i] \in {"local", "unwinding", "disowning"} \/ pc' = pc
      /\ \A j \in Inv \ {i} : pc'[j] = pc[j]
  BY <1>1 DEF Begin, PollYield, Finish, Stall, Go
<1>3. \E p : \A x \in Project : marker'[x] = marker[x] \/ (x = p /\ marker'[x] = NoInv)
  <2>1. CASE PollYield(i)
    <3>1. PICK p \in held[i] : UNCHANGED marker \/ Set(marker, p, NoInv)
      BY <2>1 DEF PollYield
    <3>. QED  BY <1>1, <3>1 DEF Set
  <2>2. CASE Begin(i) \/ Finish(i) \/ Stall(i)
    BY <2>2 DEF Begin, Finish, Stall
  <2>. QED  BY <2>1, <2>2
<1>4. PICK p : \A x \in Project : marker'[x] = marker[x] \/ (x = p /\ marker'[x] = NoInv)
  BY <1>3
<1>5. \A j \in Inv, x \in Project : InSlot(x, j) => InSlot(x, j)'
  BY <1>2, SamePlan DEF InSlot
<1>6. \A j \in Inv \ {i} : Has(j)'
  BY <1>2, <1>5, Kept DEF LockInv
<1>7. Has(i)'
  <2>1. Keeps(i)'
    BY <1>2, KeepsOwn DEF LockInv
  <2>2. Gets(i)' /\ Whole(i)'
    BY <1>1, <1>2 DEF Gets, Whole, LockInv, Has
  <2>. QED  BY <2>1, <2>2 DEF Has
<1>8. RecordTrue'
  BY <1>2, RecordKept DEF LockInv
<1>9. RequestTrue'
  <2>1. \A x \in Project : marker[x] # i
    BY <1>2 DEF LockInv, RequestTrue, Asks
  <2>2. ASSUME NEW x \in Project, NEW a \in Inv, marker'[x] = a, pc'[a] # "dead"
        PROVE  At(a, x)' /\ pc'[a] \in Asks
    <3>1. marker[x] = a /\ a # i
      BY <1>1, <1>4, <2>1, <2>2
    <3>2. At(a, x) /\ pc[a] \in Asks
      BY <1>2, <2>2, <3>1 DEF LockInv, RequestTrue
    <3>3. At(a, x)'
      BY <1>1, <1>2, <3>2 DEF At
    <3>. QED  BY <1>2, <3>1, <3>2, <3>3
  <2>. QED  BY <2>2 DEF RequestTrue
<1>. QED  BY <1>6, <1>7, <1>8, <1>9 DEF LockInv

LEMMA KillStep ==
  ASSUME TypeOK, LockInv, UNCHANGED plan, NEW q \in Kills, Kill(q)
  PROVE  LockInv'
<1>1. /\ Process' = Process /\ Wants' = Wants /\ NoInv \notin Inv
      /\ \A j \in Inv : Process[j] \in Processes
      /\ slot \in [Project -> [Processes -> Inv \cup {NoInv}]]
  BY SamePlan, PlanFacts DEF TypeOK, Processes
<1>2. /\ dead' = dead \cup {q} /\ UNCHANGED <<owner, marker>>
      /\ \A j \in Inv : /\ held'[j] = IF Process[j] = q THEN {} ELSE held[j]
                        /\ pc'[j] = IF Process[j] = q /\ pc[j] # "done" THEN "dead" ELSE pc[j]
  BY DEF Kill, files
<1>3. ASSUME NEW j \in Inv, Process[j] # q
      PROVE  \A x \in Project : /\ InSlot(x, j) => InSlot(x, j)'
                                /\ flock[x] = j => flock'[x] = j
  <2>1. \A x \in Project : slot'[x][Process[j]] = slot[x][Process[j]]
    BY <1>1, <1>3 DEF Kill
  <2>2. \A x \in Project : flock[x] = j => flock'[x] = j
    BY <1>3 DEF Kill
  <2>. QED  BY <1>1, <2>1, <2>2 DEF InSlot
<1>4. ASSUME NEW j \in Inv PROVE Has(j)'
  <2>1. CASE Process[j] = q
    BY <1>1, <1>2, <2>1 DEF Has, Keeps, Gets, Whole
  <2>2. CASE Process[j] # q
    <3>1. Has(j) /\ pc'[j] = pc[j] /\ held'[j] = held[j] /\ dead \subseteq dead'
      BY <1>2, <2>2 DEF LockInv
    <3>2. \A x \in Project : owner'[x] = owner[x]
      BY <1>2
    <3>. QED  BY <1>3, <2>2, <3>1, <3>2, Kept
  <2>. QED  BY <2>1, <2>2
<1>5. RecordTrue'
  <2>1. ASSUME NEW x \in Project, NEW a \in Inv, owner'[x] = a, pc'[a] # "dead"
        PROVE  x \in held'[a] /\ flock'[x] = a /\ ~Disowned(a, x)'
    <3>1. owner[x] = a /\ pc[a] # "dead"
      BY <1>2, <2>1
    <3>2. x \in held[a] /\ flock[x] = a /\ ~Disowned(a, x)
      BY <3>1 DEF LockInv, RecordTrue
    <3>3. Process[a] # q
      BY <1>2, <2>1, <3>2 DEF LockInv, Has, Whole
    <3>4. ~Disowned(a, x)'
      BY <1>2, <3>2, <3>3 DEF Disowned, Last
    <3>. QED  BY <1>2, <1>3, <3>2, <3>3, <3>4
  <2>. QED  BY <2>1 DEF RecordTrue
<1>6. RequestTrue'
  <2>1. ASSUME NEW x \in Project, NEW a \in Inv, marker'[x] = a, pc'[a] # "dead"
        PROVE  At(a, x)' /\ pc'[a] \in Asks
    <3>1. At(a, x) /\ pc[a] \in Asks
      BY <1>2, <2>1 DEF LockInv, RequestTrue
    <3>2. Process[a] # q
      BY <1>2, <2>1, <3>1 DEF Asks
    <3>. QED  BY <1>1, <1>2, <3>1, <3>2 DEF At
  <2>. QED  BY <2>1 DEF RequestTrue
<1>. QED  BY <1>4, <1>5, <1>6 DEF LockInv

LEMMA StatusStep ==
  ASSUME TypeOK, LockInv, UNCHANGED plan, NEW p \in Project, Status(p)
  PROVE  LockInv'
<1>1. /\ UNCHANGED <<pc, held, slot, owner, marker, dead>>
      /\ \A x \in Project : flock'[x] = flock[x] \/ flock[x] \in {NoInv, Prober}
  BY DEF Status, files, Set, TypeOK
<1>2. Process' = Process /\ Wants' = Wants /\ {NoInv, Prober} \cap Inv = {}
  BY SamePlan, PlanFacts
<1>3. \A j \in Inv : Has(j)'
  <2>1. \A j \in Inv, x \in Project : InSlot(x, j) => InSlot(x, j)'
    BY <1>1, <1>2 DEF InSlot
  <2>. QED  BY <1>1, <1>2, <2>1, Kept DEF LockInv
<1>4. RecordTrue'
  BY <1>1, <1>2 DEF LockInv, RecordTrue, Disowned, Last
<1>5. RequestTrue'
  BY <1>1, <1>2 DEF LockInv, RequestTrue, At
<1>. QED  BY <1>3, <1>4, <1>5 DEF LockInv

\* At each stage of an acquisition and of a release the invocation has of the lock
\* what that stage says, and the two files beside it tell the truth about the living.
THEOREM LockInvAlways == Spec => []LockInv
<1>1. Init => LockInv
  BY ProjectLockAssumption
     DEF Init, LockInv, Has, Keeps, Gets, Whole, RecordTrue, RequestTrue
<1>2. TypeOK /\ LockInv /\ [Next]_vars => LockInv'
  <2>1. ASSUME TypeOK, LockInv, UNCHANGED vars PROVE LockInv'
    <3>1. /\ UNCHANGED <<pc, held, slot, flock, owner, marker, dead, plan>>
          /\ Process' = Process /\ Wants' = Wants
      BY <2>1, SamePlan DEF vars, lockVars, files
    <3>2. \A j \in Inv : Has(j)'
      <4>1. \A j \in Inv, x \in Project : InSlot(x, j) => InSlot(x, j)'
        BY <3>1 DEF InSlot
      <4>. QED  BY <2>1, <3>1, <4>1, Kept DEF LockInv
    <3>3. RecordTrue' /\ RequestTrue'
      BY <2>1, <3>1 DEF LockInv, RecordTrue, RequestTrue, Disowned, Last, At
    <3>. QED  BY <3>2, <3>3 DEF LockInv
  <2>2. ASSUME TypeOK, LockInv, Act, UNCHANGED plan PROVE LockInv'
    BY <2>2, RunStep, AcquireStep, RecordStep, ReleaseStep, KillStep, StatusStep DEF Act
  <2>. QED  BY <2>1, <2>2 DEF Next
<1>. QED  BY <1>1, <1>2, LockTypeCorrect, PTL DEF Spec

\* A run has every lock it wants, and whoever locks or runs has the flock, the slot and
\* the record of each of its projects, whatever the others, a status or a SIGKILL do
\* meanwhile: nobody's release undoes another's (lock.go:44).
THEOREM OwnerNamedAlways == Spec => []OwnerNamed
<1>1. LockInv => OwnerNamed
  BY DEF LockInv, Has, Keeps, Whole, OwnerNamed, Unlocked, Disowned
<1>. QED  BY <1>1, LockInvAlways, PTL

-----------------------------------------------------------------------------
(* What an invocation does on the word of the files beside a lock.           *)

\* Only its own poll of the requests makes a run unwind.
LEMMA Unwinds ==
  ASSUME TypeOK, Act, NEW i \in Inv, pc[i] = "running", pc'[i] = "unwinding"
  PROVE  PollYield(i)
<1>1. pc \in [Inv -> Stage]
  BY DEF TypeOK
<1>2. ASSUME NEW j \in Inv, NEW to, Go(j, to), to # "unwinding" \/ j # i PROVE FALSE
  BY <1>1, <1>2 DEF Go
<1>3. ASSUME NEW j \in Inv, Begin(j) \/ Finish(j) \/ Stall(j) PROVE FALSE
  <2>1. Go(j, "local") \/ Go(j, "disowning")
    BY <1>3 DEF Begin, Finish, Stall
  <2>. QED  BY <1>2, <2>1
<1>4. ASSUME NEW j \in Inv, PollYield(j) PROVE j = i
  <2>1. UNCHANGED pc \/ Go(j, "unwinding")
    BY <1>4 DEF PollYield
  <2>. QED  BY <1>2, <2>1
<1>5. ASSUME NEW j \in Inv, NEW p \in Project, Acquire(j, p) PROVE FALSE
  <2>1. \/ (\E why : Fail(j, why)) \/ Go(j, "flock") \/ Go(j, "tookSlot")
        \/ Go(j, "queued") \/ Go(j, "queuedAsking") \/ Go(j, "queuedBounded")
        \/ Go(j, "locked") \/ Go(j, "asking") \/ Go(j, "sibling") \/ Go(j, "took")
        \/ Go(j, "running") \/ Go(j, "local")
    BY <1>5 DEF Acquire, TakeSlot, Queue, TakeQueued, QueueExpires, TryLock, Contend, Poll,
                Retract, AskExpires, RecordOwner
  <2>2. ASSUME NEW why, Fail(j, why) PROVE FALSE
    <3>1. Go(j, "done") \/ Go(j, "disowning")
      BY <2>2 DEF Fail
    <3>. QED  BY <1>2, <3>1
  <2>. QED  BY <1>2, <2>1, <2>2
<1>6. ASSUME NEW j \in Inv, NEW p \in Project, Release(j, p) PROVE FALSE
  <2>1. Go(j, "unlocking") \/ Go(j, "giving") \/ Go(j, "done") \/ Go(j, "disowning")
    BY <1>6 DEF Release, RemoveOwner, Unlock, Give
  <2>. QED  BY <1>2, <2>1
<1>7. ASSUME NEW q \in Kills, Kill(q) PROVE FALSE
  BY <1>7 DEF Kill
<1>8. ASSUME NEW p \in Project, Status(p) PROVE FALSE
  BY <1>8 DEF Status
<1>. QED  BY <1>3, <1>4, <1>5, <1>6, <1>7, <1>8 DEF Act

\* A run stops for a request only while one that is alive still waits on it for a lock
\* the run holds: "A request nobody is waiting on stops nothing" (lock.go:834).
THEOREM YieldsToWaiterAlways == Spec => YieldsToWaiter
<1> DEFINE Yields == \A i \in Inv : pc[i] = "running" /\ pc'[i] = "unwinding" =>
                       \E p \in held[i], w \in Inv : Asking(w, p) /\ marker[p] = w
<1>1. ASSUME TypeOK, LockInv, [Next]_vars PROVE [Yields]_vars
  <2> SUFFICES ASSUME Act, NEW i \in Inv, pc[i] = "running", pc'[i] = "unwinding"
               PROVE  \E p \in held[i], w \in Inv : Asking(w, p) /\ marker[p] = w
    BY <1>1 DEF Next
  <2>1. PollYield(i)
    BY <1>1, Unwinds
  <2>2. PICK p \in held[i] : Asked(i, p) /\ Waited(marker[p])
    BY <2>1 DEF PollYield, vars, lockVars
  <2>3. p \in Project /\ marker[p] \in Inv
    BY <1>1, <2>2 DEF TypeOK, Asked
  <2>4. pc[marker[p]] # "dead"
    BY <1>1, <2>2, <2>3 DEF LockInv, Has, Whole, Waited
  <2>5. At(marker[p], p) /\ pc[marker[p]] \in Asks
    BY <1>1, <2>3, <2>4 DEF LockInv, RequestTrue
  <2>6. flock[p] = i /\ marker[p] # i
    BY <1>1, <2>2, <2>5 DEF LockInv, Has, Keeps, Unlocked, Asks
  <2>7. pc[marker[p]] # "took"
    BY <1>1, <2>3, <2>5, <2>6 DEF LockInv, Has, Gets
  <2>8. Asking(marker[p], p)
    BY <2>5, <2>7 DEF Asking, Asks
  <2>. QED  BY <2>2, <2>3, <2>8
<1>. QED  BY <1>1, LockTypeCorrect, LockInvAlways, PTL DEF Spec, YieldsToWaiter

\* Only an acquisition that finds its ancestor's record is refused as nested.
LEMMA Refuses ==
  ASSUME TypeOK, Act, NEW i \in Inv, NEW p \in Project, At(i, p),
         verdict[i] = "none", verdict'[i] = "reentrant"
  PROVE  Reentrant(i, p)
<1>1. verdict \in [Inv -> {"none", "contended", "reentrant", "superseded"}]
  BY DEF TypeOK
<1>2. ASSUME UNCHANGED verdict PROVE FALSE
  BY <1>2
<1>3. ASSUME NEW j \in Inv, NEW why, Fail(j, why) PROVE j = i /\ why = "reentrant"
  BY <1>1, <1>3 DEF Fail
<1>4. ASSUME NEW j \in Inv, Begin(j) \/ PollYield(j) \/ Finish(j) \/ Stall(j) PROVE FALSE
  BY <1>1, <1>2, <1>4 DEF Begin, PollYield, Finish, Stall
<1>5. ASSUME NEW j \in Inv, NEW x \in Project, Acquire(j, x) PROVE Reentrant(i, p)
  <2>1. /\ At(j, x)
        /\ \/ UNCHANGED verdict \/ Fail(j, "contended")
           \/ Reentrant(j, x) /\ Fail(j, "reentrant")
    BY <1>5 DEF Acquire, TakeSlot, Queue, TakeQueued, QueueExpires, TryLock, Contend, Poll,
                Retract, AskExpires, RecordOwner
  <2>2. j = i /\ Reentrant(j, x)
    BY <1>2, <1>3, <2>1
  <2>. QED  BY <2>1, <2>2, OneAt
<1>6. ASSUME NEW j \in Inv, NEW x \in Project, Release(j, x) PROVE FALSE
  BY <1>2, <1>6 DEF Release, RemoveOwner, Unlock, Give
<1>7. ASSUME NEW q \in Kills, Kill(q) PROVE FALSE
  BY <1>2, <1>7 DEF Kill
<1>8. ASSUME NEW x \in Project, Status(x) PROVE FALSE
  BY <1>2, <1>8 DEF Status
<1>. QED  BY <1>4, <1>5, <1>6, <1>7, <1>8 DEF Act

\* Who is refused as nested runs beneath one that has the lock's flock, or beneath one
\* that was killed holding it, whatever else dies: the record of an ancestor that lives is
\* the holder's (reentrantError, lock.go:352).
THEOREM RefusedAsNestedAlways == Spec => RefusedAsNested
<1> DEFINE Nests(i, p) == /\ owner[p] \in Ancestors[i]
                          /\ flock[p] = owner[p] \/ Process[owner[p]] \in dead
           Refused == \A i \in Inv : \A p \in Project :
             At(i, p) /\ verdict[i] = "none" /\ verdict'[i] = "reentrant" => Nests(i, p)
<1>1. ASSUME TypeOK, LockInv, [Next]_vars PROVE [Refused]_vars
  <2> SUFFICES ASSUME Act, NEW i \in Inv, NEW p \in Project, At(i, p),
                      verdict[i] = "none", verdict'[i] = "reentrant"
               PROVE  Nests(i, p)
    BY <1>1 DEF Next
  <2> DEFINE a == owner[p]
  <2>1. a \in Ancestors[i] /\ a \in Inv
    BY <1>1, Refuses, PlanFacts DEF Reentrant
  <2>2. pc[a] = "dead" => Process[a] \in dead
    BY <1>1, <2>1 DEF LockInv, Has, Whole
  <2>. QED  BY <1>1, <2>1, <2>2 DEF LockInv, RecordTrue
<1>. QED  BY <1>1, LockTypeCorrect, LockInvAlways, PTL DEF Spec, RefusedAsNested
=============================================================================
