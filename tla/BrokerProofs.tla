---------------------------- MODULE BrokerProofs ----------------------------
(***************************************************************************)
(* What the broker keeps true for every set of processes, claims and       *)
(* budgets, in this order: its types; that what is counted, what is queued *)
(* and what is recorded stay in step; that it does only what Admission     *)
(* allows; the room of its head, its validation seats, and its end; that   *)
(* no room opens unseen.                                                   *)
(***************************************************************************)
EXTENDS Broker, BudgetProofs, SequenceTheorems

-----------------------------------------------------------------------------
(* The queue as a sequence.                                                  *)

LEMMA InsertProperties ==
  ASSUME NEW q \in Seq(Request), NEW n \in 1..(Len(q) + 1), NEW r \in Request
  PROVE  /\ InsertAt(q, n, r) \in Seq(Request)
         /\ Len(InsertAt(q, n, r)) = Len(q) + 1
         /\ \A i \in 1..(Len(q) + 1) :
              InsertAt(q, n, r)[i] = IF i < n THEN q[i] ELSE IF i = n THEN r ELSE q[i - 1]
<1> DEFINE front == SubSeq(q, 1, n - 1)
           back  == SubSeq(q, n, Len(q))
<1>1. Len(q) \in Nat /\ \A i \in 1..Len(q) : q[i] \in Request
  BY LenProperties, ElementOfSeq
<1>2. /\ front \in Seq(Request)
      /\ Len(front) = n - 1
      /\ \A i \in 1..(n - 1) : front[i] = q[i]
  <2>1. \A i \in 1..(n - 1) : q[i] \in Request
    BY <1>1
  <2>. QED  BY <1>1, <2>1, SubSeqProperties
<1>3. /\ back \in Seq(Request)
      /\ Len(back) = Len(q) - n + 1
      /\ \A i \in 1..(Len(q) - n + 1) : back[i] = q[n + i - 1]
  <2>1. \A i \in n..Len(q) : q[i] \in Request
    BY <1>1
  <2>. QED  BY <1>1, <2>1, SubSeqProperties
<1> DEFINE start == front \o <<r>>
<1> HIDE DEF front, back
<1>4. /\ start \in Seq(Request)
      /\ Len(start) = n
      /\ \A i \in 1..n : start[i] = IF i < n THEN q[i] ELSE r
  <2>1. <<r>> \in Seq(Request) /\ Len(<<r>>) = 1 /\ <<r>>[1] = r
    OBVIOUS
  <2>. QED  BY <1>2, <2>1, ConcatProperties
<1> HIDE DEF start
<1>5. InsertAt(q, n, r) = start \o back
  BY DEF InsertAt, start, front, back
<1>6. /\ start \o back \in Seq(Request)
      /\ Len(start \o back) = Len(q) + 1
      /\ \A i \in 1..(Len(q) + 1) :
           (start \o back)[i] = IF i <= n THEN start[i] ELSE back[i - n]
  <2>1. Len(start) + Len(back) = Len(q) + 1
    BY <1>1, <1>3, <1>4
  <2>2. /\ start \o back \in Seq(Request)
        /\ Len(start \o back) = Len(start) + Len(back)
        /\ \A i \in 1..(Len(start) + Len(back)) :
             (start \o back)[i] = IF i <= Len(start) THEN start[i] ELSE back[i - Len(start)]
    BY <1>3, <1>4, ConcatProperties
  <2>. QED  BY <1>4, <2>1, <2>2
<1>. QED  BY <1>1, <1>3, <1>4, <1>5, <1>6

\* A set of positions that holds every position before one it holds is the
\* positions up to their number: Place counts such a set.
LEMMA InitialSegment ==
  ASSUME NEW n \in Nat, NEW P \in SUBSET (1..n),
         \A i \in P : \A j \in 1..i : j \in P
  PROVE  Cardinality(P) \in 0..n /\ P = 1..Cardinality(P)
<1>1. IsFiniteSet(1..n) /\ Cardinality(1..n) = n
  BY FS_Interval
<1>2. IsFiniteSet(P) /\ Cardinality(P) <= n
  BY <1>1, FS_Subset
<1>3. Cardinality(P) \in Nat
  BY <1>2, FS_CardinalityType
<1> DEFINE c == Cardinality(P)
<1>4. ASSUME NEW i \in P PROVE i <= c
  <2>1. 1..i \in SUBSET P /\ i \in 1..n
    OBVIOUS
  <2>2. Cardinality(1..i) = i
    BY <2>1, FS_Interval
  <2>. QED  BY <1>2, <2>1, <2>2, FS_Subset
<1>5. P \in SUBSET (1..c)
  BY <1>4
<1>6. IsFiniteSet(1..c) /\ Cardinality(1..c) = c
  BY <1>3, FS_Interval
<1>7. P = 1..c
  BY <1>5, <1>6, FS_Subset
<1>. QED  BY <1>2, <1>3, <1>7

-----------------------------------------------------------------------------
(* The operators the actions are built from.                                 *)

LEMMA QueueElements ==
  ASSUME StateTypeOK
  PROVE  /\ Len(queue) \in Nat
         /\ \A i \in 1..Len(queue) : queue[i] \in Request
         /\ Elems \subseteq Request
         /\ queue # <<>> => Len(queue) > 0 /\ Head(queue) = queue[1]
<1>1. queue \in Seq(Request)
  BY DEF StateTypeOK
<1>2. Len(queue) \in Nat /\ \A i \in 1..Len(queue) : queue[i] \in Request
  BY <1>1, LenProperties, ElementOfSeq
<1>3. queue # <<>> => Len(queue) > 0 /\ Head(queue) = queue[1]
  BY <1>1, EmptySeq
<1>. QED  BY <1>2, <1>3 DEF Elems

LEMMA RunKeyType == ASSUME NEW r \in Request PROVE RunKey(r) \in RunKeys
<1>1. Claim[r] \in ClaimType /\ ReqConn[r] \in Conn
  BY BudgetAssumption, BrokerAssumption
<1>2. /\ Claim[r].invocation \in Invocation \cup {NoRun}
      /\ Claim[r].ancestors \in Seq(Invocation)
  BY <1>1 DEF ClaimType
<1>3. Claim[r].ancestors # <<>> => Head(Claim[r].ancestors) \in Invocation
  BY <1>2, HeadTailProperties
<1>4. Run(r) \in Invocation \cup {NoRun}
  BY <1>2, <1>3 DEF Run
<1>. QED  BY <1>1, <1>4 DEF RunKey, RunKeys

LEMMA SitType ==
  ASSUME StateTypeOK, NEW r \in Request, Sit(r) \/ TrySit(r)
  PROVE  seat' \in [Conn -> RunKeys]
BY RunKeyType DEF StateTypeOK, Sit, TrySit

LEMMA MarkGateType ==
  ASSUME StateTypeOK, NEW r \in Request, MarkGate(r)
  PROVE  gateRun' \in [Conn -> RunKeys]
BY RunKeyType DEF StateTypeOK, MarkGate

LEMMA GrantType ==
  ASSUME StateTypeOK, NEW r \in Request, NEW ahead, Grant(r, ahead)
  PROVE  budget' \subseteq Request /\ charged' \in [Request -> SUBSET Invocation]
<1>1. Claim[r].ancestors \in Seq(Invocation)
  BY BudgetAssumption DEF ClaimType
<1>2. ChargeOf(r, Beside(ahead)) \in SUBSET Invocation
  BY <1>1 DEF ChargeOf, FreeSeats, AncestorsOf, ToSet
<1>. QED  BY <1>2 DEF StateTypeOK, Grant

LEMMA BumpHeadType ==
  ASSUME StateTypeOK, NEW r \in Request, NEW ahead
  PROVE  BumpHead(r, ahead) \in [Request -> Nat]
<1>1. queue # <<>> => Head(queue) \in Request
  BY QueueElements
<1>. QED  BY <1>1 DEF StateTypeOK, BumpHead

\* Place is a position of the queue: before it a gate finds gates only, and at it none,
\* and from it on any other finds nothing that holds its place.
LEMMA PlaceProperties ==
  ASSUME StateTypeOK, NEW r \in Request, NEW isGate \in BOOLEAN
  PROVE  /\ Place(r, isGate) \in 1..(Len(queue) + 1)
         /\ ~isGate => \A i \in Place(r, isGate)..Len(queue) : ~Holds(queue[i], r)
         /\ isGate => \A i \in 1..(Place(r, isGate) - 1) : queue[i] \in gate
         /\ isGate /\ Place(r, isGate) <= Len(queue) => queue[Place(r, isGate)] \notin gate
<1> DEFINE gates == {i \in 1..Len(queue) : \A j \in 1..i : queue[j] \in gate}
           held  == {i \in 1..Len(queue) : \E j \in i..Len(queue) : Holds(queue[j], r)}
<1>1. Len(queue) \in Nat
  BY QueueElements
<1>2. CASE isGate
  <2>1. \A i \in gates : \A j \in 1..i : j \in gates
    BY <1>1
  <2>2. Cardinality(gates) \in 0..Len(queue) /\ gates = 1..Cardinality(gates)
    <3> HIDE DEF gates
    <3>1. gates \in SUBSET (1..Len(queue))
      BY DEF gates
    <3>. QED  BY <1>1, <2>1, <3>1, InitialSegment
  <2>3. Place(r, isGate) = 1 + Cardinality(gates)
    BY <1>2 DEF Place
  <2>4. Place(r, isGate) \in 1..(Len(queue) + 1)
    <3> HIDE DEF gates
    <3>. QED  BY <1>1, <2>2, <2>3
  <2>5. ASSUME NEW i \in 1..(Place(r, isGate) - 1) PROVE queue[i] \in gate
    <3>1. i \in gates
      <4> HIDE DEF gates
      <4>. QED  BY <2>2, <2>3
    <3>2. i \in 1..i
      OBVIOUS
    <3>. QED  BY <3>1, <3>2
  <2>6. ASSUME Place(r, isGate) <= Len(queue) PROVE queue[Place(r, isGate)] \notin gate
    <3> DEFINE at == Place(r, isGate)
    <3>1. at \in 1..Len(queue) /\ at \notin gates
      <4> HIDE DEF gates
      <4>. QED  BY <1>1, <2>2, <2>3, <2>4, <2>6
    <3>2. PICK j \in 1..at : queue[j] \notin gate
      BY <3>1
    <3>3. ~(j \in 1..(at - 1))
      BY <2>5, <3>2
    <3>4. j = at
      <4> HIDE DEF at
      <4>. QED  BY <1>1, <3>1, <3>2, <3>3
    <3>. QED  BY <3>2, <3>4
  <2>. QED  BY <1>2, <2>4, <2>5, <2>6
<1>3. CASE ~isGate
  <2>1. \A i \in held : \A j \in 1..i : j \in held
    BY <1>1
  <2>2. Cardinality(held) \in 0..Len(queue) /\ held = 1..Cardinality(held)
    <3> HIDE DEF held
    <3>1. held \in SUBSET (1..Len(queue))
      BY DEF held
    <3>. QED  BY <1>1, <2>1, <3>1, InitialSegment
  <2>3. Place(r, isGate) = 1 + Cardinality(held)
    BY <1>3 DEF Place
  <2>4. ASSUME NEW i \in Place(r, isGate)..Len(queue) PROVE ~Holds(queue[i], r)
    <3>1. i \in 1..Len(queue) /\ i \notin 1..Cardinality(held)
      BY <1>1, <2>2, <2>3
    <3>2. i \notin held
      BY <2>2, <3>1
    <3>. QED  BY <3>1, <3>2
  <2>5. Place(r, isGate) \in 1..(Len(queue) + 1)
    <3> HIDE DEF held
    <3>. QED  BY <1>1, <2>2, <2>3
  <2>. QED  BY <1>3, <2>4, <2>5
<1>. QED  BY <1>2, <1>3

LEMMA EnqueueType ==
  ASSUME StateTypeOK, NEW r \in Request, NEW isGate \in BOOLEAN, Enqueue(r, isGate)
  PROVE  /\ queue' \in Seq(Request)
         /\ overtaken' \in [Request -> Nat]
         /\ gate' \subseteq Request
<1>1. queue \in Seq(Request)
  BY DEF StateTypeOK
<1>2. queue' = InsertAt(queue, Place(r, isGate), r)
  BY DEF Enqueue
<1>3. queue' \in Seq(Request)
  BY <1>1, <1>2, PlaceProperties, InsertProperties
<1>. QED  BY <1>3 DEF StateTypeOK, Enqueue

LEMMA DequeueType ==
  ASSUME StateTypeOK, NEW i \in 1..Len(queue), NEW over \in [Request -> Nat],
         Dequeue(queue[i], i, over)
  PROVE  /\ queue' \in Seq(Request)
         /\ overtaken' \in [Request -> Nat]
         /\ gate' \subseteq Request
<1>1. queue \in Seq(Request)
  BY DEF StateTypeOK
<1>2. queue' \in Seq(Request)
  BY <1>1, RemoveProperties DEF Dequeue
<1>. QED  BY <1>2 DEF StateTypeOK, Dequeue

-----------------------------------------------------------------------------
(* Types.                                                                    *)

\* Every action of the broker and of its clients keeps the types.
LEMMA StepType ==
  ASSUME StateTypeOK, System \/ Environment
  PROVE  StateTypeOK'
<1> USE DEF reqVars, budgetVars, queueVars, connVars, muVars, serveVars, ReqState
<1>1. queue \in Seq(Request) /\ \A i \in 1..Len(queue) : queue[i] \in Request
  BY QueueElements DEF StateTypeOK
<1>2. ASSUME NEW r \in Request PROVE ReqConn[r] \in Conn
  BY BrokerAssumption
<1>3. ASSUME NEW r \in Request, Send(r) \/ SendCancel(r) PROVE StateTypeOK'
  BY <1>3 DEF Send, SendCancel, StateTypeOK
<1>4. ASSUME NEW c \in Conn, HangUp(c) PROVE StateTypeOK'
  BY <1>4 DEF HangUp, StateTypeOK
<1>5. CASE StartDrain \/ Stop
  BY <1>5 DEF StartDrain, Stop, ServeStep, StateTypeOK
<1>6. ASSUME NEW r \in Request, TurnAway(r) PROVE StateTypeOK'
  BY <1>6 DEF TurnAway, Answer, StateTypeOK
<1>7. ASSUME NEW r \in Request, Park(r) PROVE StateTypeOK'
  <2> DEFINE isGate == UnderGate(r)
             ahead  == Ahead(r, isGate, FALSE)
  <2>1. isGate \in BOOLEAN
    BY DEF UnderGate
  <2>2. gateRun' \in [Conn -> RunKeys] /\ seat' \in [Conn -> RunKeys]
    BY <1>7, MarkGateType, SitType DEF Park
  <2>3. CASE /\ Answer(r, "granted")
             /\ Grant(r, ahead)
             /\ overtaken' = BumpHead(r, ahead)
             /\ IF queue # <<>> THEN OweWake(ReqConn[r]) ELSE UNCHANGED owed
             /\ UNCHANGED <<queue, gate>>
    <3>1. budget' \subseteq Request /\ charged' \in [Request -> SUBSET Invocation]
      BY <2>3, GrantType
    <3>2. overtaken' \in [Request -> Nat]
      BY <2>3, BumpHeadType
    <3>3. owed' \in [Conn -> Nat] /\ st' \in [Request -> ReqState]
      BY <1>2, <2>3 DEF OweWake, Answer, StateTypeOK
    <3>. QED  BY <1>7, <2>2, <2>3, <3>1, <3>2, <3>3 DEF Park, StateTypeOK
  <2>4. CASE /\ Answer(r, "over")
             /\ UNCHANGED <<budgetVars, queueVars, owed>>
    BY <1>7, <2>2, <2>4 DEF Park, Answer, StateTypeOK
  <2>5. CASE /\ Answer(r, "parked")
             /\ Enqueue(r, isGate)
             /\ UNCHANGED <<budgetVars, owed>>
    <3>1. /\ queue' \in Seq(Request)
          /\ overtaken' \in [Request -> Nat]
          /\ gate' \subseteq Request
      <4> HIDE DEF isGate
      <4>. QED  BY <2>1, <2>5, EnqueueType
    <3>. QED  BY <1>7, <2>2, <2>5, <3>1 DEF Park, Answer, StateTypeOK
  <2>. QED  BY <1>7, <2>3, <2>4, <2>5 DEF Park
<1>8. ASSUME NEW r \in Request, Once(r) PROVE StateTypeOK'
  <2> DEFINE ahead == Ahead(r, UnderGate(r), TRUE)
  <2>1. seat' \in [Conn -> RunKeys]
    BY <1>8, SitType DEF Once
  <2>2. gateRun' \in [Conn -> RunKeys]
    BY <1>8, MarkGateType DEF Once, StateTypeOK
  <2>3. CASE Answer(r, "granted") /\ Grant(r, ahead) /\ OweWake(ReqConn[r])
    <3>1. budget' \subseteq Request /\ charged' \in [Request -> SUBSET Invocation]
      BY <2>3, GrantType
    <3>2. owed' \in [Conn -> Nat] /\ st' \in [Request -> ReqState]
      BY <1>2, <2>3 DEF OweWake, Answer, StateTypeOK
    <3>. QED  BY <1>8, <2>1, <2>2, <3>1, <3>2 DEF Once, StateTypeOK
  <2>4. CASE Answer(r, "over") /\ UNCHANGED <<budgetVars, owed>>
    BY <1>8, <2>1, <2>2, <2>4 DEF Once, Answer, StateTypeOK
  <2>. QED  BY <1>8, <2>3, <2>4 DEF Once
<1>9. ASSUME NEW r \in Request, Reassert(r) PROVE StateTypeOK'
  <2>1. seat' \in [Conn -> RunKeys]
    BY <1>9, SitType DEF Reassert
  <2>2. owed' \in [Conn -> Nat] /\ st' \in [Request -> ReqState]
    BY <1>2, <1>9 DEF Reassert, Answer, OweWake, StateTypeOK
  <2>. QED  BY <1>9, <2>1, <2>2 DEF Reassert, StateTypeOK
<1>10. ASSUME NEW r \in Request, Hold(r) PROVE StateTypeOK'
  BY <1>10 DEF Hold, Answer, StateTypeOK
<1>11. ASSUME NEW r \in Request, Cancel(r) PROVE StateTypeOK'
  <2>1. CASE st[r] = "parked"
    <3>1. PICK i \in 1..Len(queue) : queue[i] = r /\ Dequeue(r, i, overtaken)
      BY <1>11, <2>1 DEF Cancel
    <3>2. /\ queue' \in Seq(Request)
          /\ overtaken' \in [Request -> Nat]
          /\ gate' \subseteq Request
      BY <3>1, DequeueType DEF StateTypeOK
    <3>3. Answer(r, "over") /\ OweWake(ReqConn[r])
      BY <1>11, <2>1 DEF Cancel, WakeAsCancelled
    <3>4. owed' \in [Conn -> Nat] /\ st' \in [Request -> ReqState]
      BY <1>2, <3>3 DEF Answer, OweWake, StateTypeOK
    <3>. QED  BY <1>11, <3>2, <3>4 DEF Cancel, StateTypeOK
  <2>2. CASE st[r] # "parked"
    BY <1>11, <2>2 DEF Cancel, StateTypeOK
  <2>. QED  BY <2>1, <2>2
<1>12. ASSUME NEW r \in Request, Release(r) PROVE StateTypeOK'
  BY <1>12 DEF Release, Answer, StateTypeOK
<1>13. ASSUME NEW r \in Request, Free(r) PROVE StateTypeOK'
  BY <1>2, <1>13 DEF Free, Answer, noteRelease, OweWake, StateTypeOK
<1>14. ASSUME NEW r \in Request, FreeClosed(r) PROVE StateTypeOK'
  <2>1. owed' \in [Conn -> Nat] /\ st' \in [Request -> ReqState]
    BY <1>2, <1>14 DEF FreeClosed, Answer, StateTypeOK
  <2>. QED  BY <1>2, <1>14, <2>1 DEF FreeClosed, StateTypeOK
<1>15. ASSUME NEW r \in Request, LoseFrame(r) PROVE StateTypeOK'
  BY <1>15 DEF LoseFrame, StateTypeOK
<1>16. ASSUME NEW c \in Conn, Forget(c) PROVE StateTypeOK'
  <2>1. seat' \in [Conn -> RunKeys]
    BY <1>16 DEF Forget, StateTypeOK, RunKeys
  <2>. QED  BY <1>16, <2>1 DEF Forget, StateTypeOK
<1>17. ASSUME NEW c \in Conn, DropParked(c) PROVE StateTypeOK'
  <2>1. PICK i \in 1..Len(queue) : /\ Answer(queue[i], "over")
                                   /\ Dequeue(queue[i], i, overtaken)
    BY <1>17 DEF DropParked
  <2>2. /\ queue' \in Seq(Request)
        /\ overtaken' \in [Request -> Nat]
        /\ gate' \subseteq Request
    BY <2>1, DequeueType DEF StateTypeOK
  <2>. QED  BY <1>17, <2>1, <2>2 DEF DropParked, Answer, StateTypeOK
<1>18. ASSUME NEW c \in Conn, EndForget(c) PROVE StateTypeOK'
  <2>1. owed' \in [Conn -> Nat]
    BY <1>18 DEF EndForget, WakeAsForgotten, OweWake, StateTypeOK
  <2>. QED  BY <1>18, <2>1 DEF EndForget, StateTypeOK
<1>19. ASSUME NEW c \in Conn, BeginWake(c) PROVE StateTypeOK'
  BY <1>19 DEF BeginWake, StateTypeOK
<1>20. CASE JudgeNext
  <2> DEFINE r     == queue[cursor]
             ahead == Ahead(r, r \in gate, cursor = 1)
  <2>1. cursor \in 1..Len(queue) /\ r \in Request
    BY <1>1, <1>20 DEF JudgeNext, StateTypeOK
  <2>2. seat' \in [Conn -> RunKeys]
    BY <1>20, <2>1, SitType DEF JudgeNext
  <2>3. CASE /\ Answer(r, "granted")
             /\ Grant(r, ahead)
             /\ Dequeue(r, cursor, BumpHead(r, ahead))
             /\ UNCHANGED cursor
    <3>1. budget' \subseteq Request /\ charged' \in [Request -> SUBSET Invocation]
      BY <2>1, <2>3, GrantType
    <3>2. BumpHead(r, ahead) \in [Request -> Nat]
      BY <2>1, BumpHeadType
    <3>3. /\ queue' \in Seq(Request)
          /\ overtaken' \in [Request -> Nat]
          /\ gate' \subseteq Request
      <4> HIDE DEF ahead
      <4>. QED  BY <2>1, <2>3, <3>2, DequeueType
    <3>. QED  BY <1>20, <2>2, <2>3, <3>1, <3>3 DEF JudgeNext, Answer, StateTypeOK
  <2>4. CASE /\ Answer(r, "over")
             /\ Dequeue(r, cursor, overtaken)
             /\ UNCHANGED <<budgetVars, cursor>>
    <3>1. /\ queue' \in Seq(Request)
          /\ overtaken' \in [Request -> Nat]
          /\ gate' \subseteq Request
      BY <2>1, <2>4, DequeueType DEF StateTypeOK
    <3>. QED  BY <1>20, <2>2, <2>4, <3>1 DEF JudgeNext, Answer, StateTypeOK
  <2>5. CASE /\ cursor' = cursor + 1
             /\ UNCHANGED <<st, budgetVars, queueVars>>
    BY <1>20, <2>2, <2>5 DEF JudgeNext, StateTypeOK
  <2>. QED  BY <1>20, <2>3, <2>4, <2>5 DEF JudgeNext
<1>21. CASE EndWake
  BY <1>21 DEF EndWake, StateTypeOK
<1>22. CASE RefuseParked
  <2>1. queue' \in Seq(Request)
    BY <1>22 DEF RefuseParked
  <2>. QED  BY <1>22, <2>1 DEF RefuseParked, ServeStep, StateTypeOK
<1>23. CASE CountHeld \/ NoticeRelease \/ BeginClose \/ Exit
  BY <1>23 DEF CountHeld, NoticeRelease, BeginClose, Exit, ServeStep, StateTypeOK
<1>24. CASE CloseConns
  BY <1>24 DEF CloseConns, ServeStep, StateTypeOK
<1>. QED
  BY <1>3, <1>4, <1>5, <1>6, <1>7, <1>8, <1>9, <1>10, <1>11, <1>12, <1>13, <1>14, <1>15,
     <1>16, <1>17, <1>18, <1>19, <1>20, <1>21, <1>22, <1>23, <1>24
     DEF System, Environment, Handler, Forgets, Wake, Closing

\* The broker's state keeps its types however its goroutines interleave.
THEOREM TypeCorrect == Spec => []TypeOK
<1>1. Init => TypeOK
  <2> SUFFICES ASSUME Init PROVE TypeOK
    OBVIOUS
  <2>1. seat \in [Conn -> RunKeys] /\ gateRun \in [Conn -> RunKeys]
    BY DEF Init, RunKeys
  <2>2. queue \in Seq(Request)
    BY DEF Init
  <2>3. /\ st \in [Request -> ReqState]
        /\ cancel \in [Request -> {"no", "sent", "handled"}]
        /\ charged \in [Request -> SUBSET Invocation]
        /\ overtaken \in [Request -> Nat]
        /\ conn \in [Conn -> {"absent", "open", "eof", "leaving", "left", "gone"}]
        /\ owed \in [Conn -> Nat]
    BY DEF Init, ReqState
  <2>4. /\ budget \subseteq Request /\ gate \subseteq Request /\ behind \subseteq Request
        /\ mu \in Conn \cup {NoConn} /\ cursor \in Nat \ {0}
    BY DEF Init
  <2>5. loop = "serving" /\ draining = FALSE /\ closing = FALSE /\ poked = FALSE
    BY DEF Init
  <2>. QED  BY <2>1, <2>2, <2>3, <2>4, <2>5 DEF TypeOK, StateTypeOK
<1>2. TypeOK /\ [Next]_vars => TypeOK'
  <2> SUFFICES ASSUME TypeOK, [Next]_vars PROVE TypeOK'
    OBVIOUS
  <2>1. CASE (System \/ Environment) /\ Behind
    <3>1. StateTypeOK'
      BY <2>1, StepType DEF TypeOK
    <3>2. behind' \subseteq budget'
      BY <2>1 DEF Behind
    <3>. QED  BY <3>1, <3>2 DEF TypeOK, StateTypeOK
  <2>2. CASE UNCHANGED vars
    BY <2>2 DEF vars, reqVars, budgetVars, queueVars, connVars, muVars, serveVars,
                TypeOK, StateTypeOK
  <2>. QED  BY <2>1, <2>2 DEF Next, Exited
<1>. QED  BY <1>1, <1>2, PTL DEF Spec

-----------------------------------------------------------------------------
(* Overtaking is bounded.                                                    *)

\* A grant judged behind nobody passes a head that may still be passed.
LEMMA BumpHeadBounded ==
  ASSUME StateTypeOK, OvertakenBounded, NEW r \in Request, NEW isGate \in BOOLEAN,
         NEW atHead \in BOOLEAN, atHead => queue # <<>> /\ Head(queue) = r
  PROVE  LET over == BumpHead(r, Ahead(r, isGate, atHead))
         IN  \A q \in Request : over[q] <= MaxOvertakes
<1> DEFINE ahead == Ahead(r, isGate, atHead)
<1>1. CASE ahead = {} /\ queue # <<>> /\ Head(queue) # r
  <2>1. StarvedHead = {}
    BY <1>1 DEF Ahead
  <2>2. Head(queue) \in Request /\ ~Starved(Head(queue))
    BY <1>1, <2>1, QueueElements DEF StarvedHead
  <2>3. overtaken[Head(queue)] + 1 <= MaxOvertakes
    BY <2>2, BrokerAssumption DEF Starved, StateTypeOK
  <2>. QED  BY <1>1, <2>2, <2>3 DEF BumpHead, OvertakenBounded, StateTypeOK
<1>2. CASE ~(ahead = {} /\ queue # <<>> /\ Head(queue) # r)
  BY <1>2 DEF BumpHead, OvertakenBounded
<1>. QED  BY <1>1, <1>2

\* An insertion passes only what may still be passed.
LEMMA EnqueueBounded ==
  ASSUME StateTypeOK, OvertakenBounded, NEW r \in Request, NEW isGate \in BOOLEAN,
         Enqueue(r, isGate)
  PROVE  OvertakenBounded'
<1> DEFINE passed == IF isGate THEN {}
                     ELSE {queue[i] : i \in Place(r, isGate)..Len(queue)}
<1>1. \A q \in passed : q \in Request /\ ~Starved(q)
  <2>1. Place(r, isGate) \in 1..(Len(queue) + 1) /\ Len(queue) \in Nat
    BY PlaceProperties, QueueElements
  <2>2. ~isGate => \A i \in Place(r, isGate)..Len(queue) : ~Holds(queue[i], r)
    BY PlaceProperties
  <2>3. \A i \in Place(r, isGate)..Len(queue) : queue[i] \in Request
    BY <2>1, QueueElements
  <2>. QED  BY <2>2, <2>3 DEF Holds
<1>2. \A q \in passed : overtaken[q] + 1 <= MaxOvertakes
  <2> HIDE DEF passed
  <2>1. MaxOvertakes \in Nat /\ overtaken \in [Request -> Nat]
    BY BrokerAssumption DEF StateTypeOK
  <2>. QED  BY <1>1, <2>1 DEF Starved
<1>3. overtaken' = [q \in Request |->
                      IF q \in passed THEN overtaken[q] + 1 ELSE overtaken[q]]
  BY DEF Enqueue
<1> HIDE DEF passed
<1>. QED  BY <1>2, <1>3 DEF OvertakenBounded

LEMMA DequeueBounded ==
  ASSUME NEW r, NEW i, NEW over \in [Request -> Nat], Dequeue(r, i, over),
         \A q \in Request : over[q] <= MaxOvertakes
  PROVE  OvertakenBounded'
BY BrokerAssumption DEF Dequeue, OvertakenBounded

LEMMA OvertakenStep ==
  ASSUME StateTypeOK, OvertakenBounded, System \/ Environment
  PROVE  OvertakenBounded'
<1>1. CASE UNCHANGED overtaken
  BY <1>1 DEF OvertakenBounded
<1>2. ASSUME NEW r \in Request, Park(r) PROVE OvertakenBounded'
  <2> DEFINE isGate == UnderGate(r)
  <2>1. isGate \in BOOLEAN
    BY DEF UnderGate
  <2> HIDE DEF isGate
  <2>2. CASE overtaken' = BumpHead(r, Ahead(r, isGate, FALSE))
    BY <2>1, <2>2, BumpHeadBounded DEF OvertakenBounded
  <2>3. CASE Enqueue(r, isGate)
    BY <2>1, <2>3, EnqueueBounded
  <2>. QED  BY <1>1, <1>2, <2>2, <2>3 DEF Park, isGate, queueVars
<1>3. ASSUME NEW r \in Request, Cancel(r) PROVE OvertakenBounded'
  BY <1>1, <1>3, DequeueBounded DEF Cancel, queueVars, StateTypeOK, OvertakenBounded
<1>4. ASSUME NEW c \in Conn, DropParked(c) PROVE OvertakenBounded'
  BY <1>4, DequeueBounded DEF DropParked, StateTypeOK, OvertakenBounded
<1>5. CASE JudgeNext
  <2> DEFINE r     == queue[cursor]
             isGate == r \in gate
             ahead == Ahead(r, isGate, cursor = 1)
  <2>1. cursor \in 1..Len(queue) /\ r \in Request /\ isGate \in BOOLEAN
    BY <1>5, QueueElements DEF JudgeNext, StateTypeOK
  <2>2. cursor = 1 => queue # <<>> /\ Head(queue) = r
    BY <2>1, QueueElements
  <2>3. CASE Dequeue(r, cursor, BumpHead(r, ahead))
    <3>1. BumpHead(r, ahead) \in [Request -> Nat]
      BY <2>1, BumpHeadType
    <3>2. \A q \in Request : BumpHead(r, ahead)[q] <= MaxOvertakes
      <4> HIDE DEF r, isGate
      <4>. QED  BY <2>1, <2>2, BumpHeadBounded
    <3> HIDE DEF ahead
    <3>. QED  BY <2>3, <3>1, <3>2, DequeueBounded
  <2>4. CASE Dequeue(r, cursor, overtaken)
    BY <2>4, DequeueBounded DEF StateTypeOK, OvertakenBounded
  <2>. QED  BY <1>1, <1>5, <2>3, <2>4 DEF JudgeNext, queueVars
<1>6. CASE RefuseParked
  BY <1>6, BrokerAssumption DEF RefuseParked, OvertakenBounded
<1>7. ASSUME NEW r \in Request,
             \/ TurnAway(r) \/ Once(r) \/ Reassert(r) \/ Hold(r) \/ Free(r)
             \/ FreeClosed(r) \/ LoseFrame(r) \/ Release(r) \/ Send(r) \/ SendCancel(r)
      PROVE  UNCHANGED overtaken
  BY <1>7 DEF TurnAway, Once, Reassert, Hold, Free, FreeClosed, LoseFrame, Release,
              Send, SendCancel, queueVars
<1>8. ASSUME NEW c \in Conn, Forget(c) \/ EndForget(c) \/ BeginWake(c) \/ HangUp(c)
      PROVE  UNCHANGED overtaken
  BY <1>8 DEF Forget, EndForget, BeginWake, HangUp, queueVars
<1>9. CASE \/ EndWake \/ CountHeld \/ NoticeRelease \/ BeginClose \/ CloseConns \/ Exit
           \/ StartDrain \/ Stop
  BY <1>1, <1>9 DEF EndWake, CountHeld, NoticeRelease, BeginClose, CloseConns, Exit,
                    StartDrain, Stop, queueVars
<1>. QED
  BY <1>1, <1>2, <1>3, <1>4, <1>5, <1>6, <1>7, <1>8, <1>9
     DEF System, Environment, Handler, Forgets, Wake, Closing

\* However insertions, grants and wakes interleave, no request is overtaken more
\* often than the code allows (enqueueLocked, judgeLocked, wake).
THEOREM OvertakenCorrect == Spec => []OvertakenBounded
<1>1. Init => OvertakenBounded
  BY BrokerAssumption DEF Init, OvertakenBounded
<1>2. TypeOK /\ OvertakenBounded /\ [Next]_vars => OvertakenBounded'
  <2>1. ASSUME TypeOK, OvertakenBounded, System \/ Environment PROVE OvertakenBounded'
    BY <2>1, OvertakenStep DEF TypeOK
  <2>2. ASSUME OvertakenBounded, UNCHANGED vars PROVE OvertakenBounded'
    BY <2>2 DEF vars, queueVars, OvertakenBounded
  <2>. QED  BY <2>1, <2>2 DEF Next, Exited
<1>. QED  BY <1>1, <1>2, TypeCorrect, PTL DEF Spec

-----------------------------------------------------------------------------
(* The table, the queue and what became of each request agree.               *)

TableAccounted == budget = {r \in Request : st[r] \in {"granted", "unlinked", "orphaned"}}

NoDuplicate == \A i, j \in 1..Len(queue) : i # j => queue[i] # queue[j]

QueueAccounted == Elems = {r \in Request : st[r] = "parked"} /\ NoDuplicate

LEMMA EnqueueShape ==
  ASSUME StateTypeOK, NEW r \in Request, NEW isGate \in BOOLEAN, Enqueue(r, isGate)
  PROVE  /\ Place(r, isGate) \in 1..(Len(queue) + 1)
         /\ Len(queue') = Len(queue) + 1
         /\ \A i \in 1..(Len(queue) + 1) :
              queue'[i] = IF i < Place(r, isGate) THEN queue[i]
                          ELSE IF i = Place(r, isGate) THEN r ELSE queue[i - 1]
<1>1. queue \in Seq(Request)
  BY DEF StateTypeOK
<1>2. Place(r, isGate) \in 1..(Len(queue) + 1)
  BY PlaceProperties
<1>3. queue' = InsertAt(queue, Place(r, isGate), r)
  BY DEF Enqueue
<1>4. ASSUME NEW at \in 1..(Len(queue) + 1)
      PROVE  /\ Len(InsertAt(queue, at, r)) = Len(queue) + 1
             /\ \A i \in 1..(Len(queue) + 1) :
                  InsertAt(queue, at, r)[i]
                    = IF i < at THEN queue[i] ELSE IF i = at THEN r ELSE queue[i - 1]
  BY <1>1, InsertProperties
<1>. QED  BY <1>2, <1>3, <1>4

LEMMA DequeueShape ==
  ASSUME StateTypeOK, NEW k \in 1..Len(queue), NEW over, Dequeue(queue[k], k, over)
  PROVE  /\ Len(queue') = Len(queue) - 1
         /\ \A i \in 1..(Len(queue) - 1) :
              queue'[i] = IF i < k THEN queue[i] ELSE queue[i + 1]
<1>1. queue \in Seq(Request) /\ queue' = RemoveAt(queue, k)
  BY DEF StateTypeOK, Dequeue
<1>2. /\ Len(RemoveAt(queue, k)) = Len(queue) - 1
      /\ \A i \in 1..(Len(queue) - 1) :
           RemoveAt(queue, k)[i] = IF i < k THEN queue[i] ELSE queue[i + 1]
  BY <1>1, RemoveProperties
<1>. QED  BY <1>1, <1>2

LEMMA EnqueueElements ==
  ASSUME StateTypeOK, NoDuplicate, NEW r \in Request, r \notin Elems,
         NEW isGate \in BOOLEAN, Enqueue(r, isGate)
  PROVE  Elems' = Elems \cup {r} /\ NoDuplicate'
<1> DEFINE at == Place(r, isGate)
           n  == Len(queue)
<1>1. n \in Nat /\ at \in 1..(n + 1) /\ queue \in Seq(Request)
  BY QueueElements, PlaceProperties DEF StateTypeOK
<1> HIDE DEF at
<1>2. /\ Len(queue') = n + 1
      /\ \A i \in 1..(n + 1) :
           queue'[i] = IF i < at THEN queue[i] ELSE IF i = at THEN r ELSE queue[i - 1]
  BY EnqueueShape DEF at
<1> HIDE DEF n
<1>3. Elems = {queue[i] : i \in 1..n} /\ Elems' = {queue'[i] : i \in 1..(n + 1)}
  BY <1>2 DEF Elems, n
<1>4. ASSUME NEW i \in 1..n PROVE queue[i] \in Elems'
  <2>1. CASE i < at
    BY <1>1, <1>2, <1>3, <2>1
  <2>2. CASE i >= at
    <3>1. i + 1 \in 1..(n + 1) /\ queue'[i + 1] = queue[i]
      BY <1>1, <1>2, <2>2
    <3>. QED  BY <1>3, <3>1
  <2>. QED  BY <1>1, <2>1, <2>2
<1>5. r \in Elems'
  <2>1. at \in 1..(n + 1) /\ queue'[at] = r
    BY <1>1, <1>2
  <2>. QED  BY <1>3, <2>1
<1>6. ASSUME NEW i \in 1..(n + 1) PROVE queue'[i] \in Elems \cup {r}
  <2>1. CASE i < at
    BY <1>1, <1>2, <1>3, <2>1
  <2>2. CASE i = at
    BY <1>2, <2>2
  <2>3. CASE i > at
    <3>1. i - 1 \in 1..n /\ queue'[i] = queue[i - 1]
      BY <1>1, <1>2, <2>3
    <3>. QED  BY <1>3, <3>1
  <2>. QED  BY <1>1, <2>1, <2>2, <2>3
<1>7. Elems' = Elems \cup {r}
  BY <1>3, <1>4, <1>5, <1>6
<1>8. ASSUME NEW i \in 1..(n + 1), NEW j \in 1..(n + 1), i < j PROVE queue'[i] # queue'[j]
  <2>1. \A k \in 1..n : queue[k] # r
    BY <1>3
  <2>2. \A k, l \in 1..n : k # l => queue[k] # queue[l]
    BY DEF NoDuplicate, n
  <2>3. CASE j < at
    BY <1>1, <1>2, <1>8, <2>2, <2>3
  <2>4. CASE j = at
    BY <1>1, <1>2, <1>8, <2>1, <2>4
  <2>5. CASE j > at /\ i = at
    BY <1>1, <1>2, <1>8, <2>1, <2>5
  <2>6. CASE j > at /\ i < at
    <3>1. i \in 1..n /\ j - 1 \in 1..n /\ i # j - 1
      BY <1>1, <2>6
    <3>. QED  BY <1>1, <1>2, <2>2, <2>6, <3>1
  <2>7. CASE j > at /\ i > at
    <3>1. i - 1 \in 1..n /\ j - 1 \in 1..n /\ i - 1 # j - 1
      BY <1>1, <1>8, <2>7
    <3>. QED  BY <1>1, <1>2, <2>2, <2>7, <3>1
  <2>. QED  BY <1>1, <2>3, <2>4, <2>5, <2>6, <2>7
<1>9. NoDuplicate'
  <2>1. ASSUME NEW i \in 1..(n + 1), NEW j \in 1..(n + 1), i # j PROVE queue'[i] # queue'[j]
    <3>1. i < j \/ j < i
      BY <1>1, <2>1
    <3>. QED  BY <1>8, <3>1
  <2>. QED  BY <1>2, <2>1 DEF NoDuplicate
<1>. QED  BY <1>7, <1>9

LEMMA DequeueElements ==
  ASSUME StateTypeOK, NoDuplicate, NEW k \in 1..Len(queue), NEW over,
         Dequeue(queue[k], k, over)
  PROVE  Elems' = Elems \ {queue[k]} /\ NoDuplicate'
<1> DEFINE n == Len(queue)
<1>1. n \in Nat /\ queue \in Seq(Request)
  BY QueueElements DEF StateTypeOK
<1>2. /\ Len(queue') = n - 1
      /\ \A i \in 1..(n - 1) : queue'[i] = IF i < k THEN queue[i] ELSE queue[i + 1]
  BY DequeueShape
<1>3. k \in 1..n /\ \A i, j \in 1..n : i # j => queue[i] # queue[j]
  BY DEF NoDuplicate
<1>4. Elems = {queue[i] : i \in 1..n} /\ Elems' = {queue'[i] : i \in 1..(n - 1)}
  BY <1>2 DEF Elems
<1> HIDE DEF n
<1>5. ASSUME NEW i \in 1..(n - 1) PROVE queue'[i] \in Elems \ {queue[k]}
  <2>1. CASE i < k
    <3>1. i \in 1..n /\ i # k /\ queue'[i] = queue[i]
      BY <1>1, <1>2, <1>3, <2>1
    <3>. QED  BY <1>3, <1>4, <3>1
  <2>2. CASE i >= k
    <3>1. i + 1 \in 1..n /\ i + 1 # k /\ queue'[i] = queue[i + 1]
      BY <1>1, <1>2, <1>3, <2>2
    <3>. QED  BY <1>3, <1>4, <3>1
  <2>. QED  BY <1>1, <1>3, <2>1, <2>2
<1>6. ASSUME NEW i \in 1..n, i # k PROVE queue[i] \in Elems'
  <2>1. CASE i < k
    <3>1. i \in 1..(n - 1) /\ queue'[i] = queue[i]
      BY <1>1, <1>2, <1>3, <2>1
    <3>. QED  BY <1>4, <3>1
  <2>2. CASE i > k
    <3>1. i - 1 \in 1..(n - 1) /\ queue'[i - 1] = queue[i]
      BY <1>1, <1>2, <1>3, <2>2
    <3>. QED  BY <1>4, <3>1
  <2>. QED  BY <1>1, <1>3, <1>6, <2>1, <2>2
<1>7. Elems' = Elems \ {queue[k]}
  BY <1>4, <1>5, <1>6
<1>8. ASSUME NEW i \in 1..(n - 1), NEW j \in 1..(n - 1), i # j PROVE queue'[i] # queue'[j]
  <2> DEFINE at(l) == IF l < k THEN l ELSE l + 1
  <2>1. /\ at(i) \in 1..n /\ at(j) \in 1..n /\ at(i) # at(j)
        /\ queue'[i] = queue[at(i)] /\ queue'[j] = queue[at(j)]
    BY <1>1, <1>2, <1>3, <1>8
  <2>. QED  BY <1>3, <2>1
<1>. QED  BY <1>2, <1>7, <1>8 DEF NoDuplicate

\* Every action keeps both books.
LEMMA AccountedStep ==
  ASSUME StateTypeOK, TableAccounted, QueueAccounted, System \/ Environment
  PROVE  TableAccounted' /\ QueueAccounted'
<1> USE DEF reqVars, budgetVars, queueVars, connVars, muVars, serveVars
<1>1. st \in [Request -> ReqState] /\ \A r \in Request : ReqConn[r] \in Conn
  BY BrokerAssumption DEF StateTypeOK
<1>2. /\ Elems = {r \in Request : st[r] = "parked"} /\ NoDuplicate
      /\ \A i \in 1..Len(queue) : queue[i] \in Request /\ st[queue[i]] = "parked"
  BY DEF QueueAccounted, Elems
<1>3. ASSUME UNCHANGED queue, \A r \in Request : st'[r] = "parked" <=> st[r] = "parked"
      PROVE  QueueAccounted'
  BY <1>3 DEF QueueAccounted, Elems, NoDuplicate
<1>4. ASSUME UNCHANGED <<st, queue, budget>> PROVE TableAccounted' /\ QueueAccounted'
  BY <1>3, <1>4 DEF TableAccounted
<1>5. ASSUME NEW r \in Request, NEW i \in 1..Len(queue), queue[i] = r, NEW over,
             Dequeue(r, i, over), NEW how \in ReqState, how # "parked", Answer(r, how)
      PROVE  QueueAccounted'
  <2>1. Elems' = Elems \ {r} /\ NoDuplicate'
    BY <1>2, <1>5, DequeueElements
  <2>2. {q \in Request : st'[q] = "parked"} = {q \in Request : st[q] = "parked"} \ {r}
    BY <1>1, <1>5 DEF Answer
  <2>. QED  BY <1>2, <2>1, <2>2 DEF QueueAccounted
<1>6. ASSUME NEW r \in Request, Send(r) PROVE TableAccounted' /\ QueueAccounted'
  BY <1>1, <1>3, <1>6 DEF Send, TableAccounted
<1>7. ASSUME NEW r \in Request, TurnAway(r) PROVE TableAccounted' /\ QueueAccounted'
  BY <1>1, <1>3, <1>7 DEF TurnAway, Answer, TableAccounted
<1>8. ASSUME NEW r \in Request, Park(r) PROVE TableAccounted' /\ QueueAccounted'
  <2> DEFINE isGate == UnderGate(r)
             ahead  == Ahead(r, isGate, FALSE)
  <2>1. st[r] = "sent" /\ isGate \in BOOLEAN
    BY <1>8 DEF Park, Arrived, UnderGate
  <2>2. CASE Answer(r, "granted") /\ Grant(r, ahead) /\ UNCHANGED queue
    BY <1>1, <1>3, <2>1, <2>2 DEF Answer, Grant, TableAccounted
  <2>3. CASE Answer(r, "over") /\ UNCHANGED <<budget, queue>>
    BY <1>1, <1>3, <2>1, <2>3 DEF Answer, TableAccounted
  <2>4. CASE Answer(r, "parked") /\ Enqueue(r, isGate) /\ UNCHANGED budget
    <3>1. r \notin Elems
      BY <1>2, <2>1
    <3>2. Elems' = Elems \cup {r} /\ NoDuplicate'
      <4> HIDE DEF isGate
      <4>. QED  BY <1>2, <2>1, <2>4, <3>1, EnqueueElements
    <3>3. {q \in Request : st'[q] = "parked"} = {q \in Request : st[q] = "parked"} \cup {r}
      BY <1>1, <2>4 DEF Answer
    <3>4. QueueAccounted'
      BY <1>2, <3>2, <3>3 DEF QueueAccounted
    <3>. QED  BY <1>1, <2>1, <2>4, <3>4 DEF Answer, TableAccounted
  <2>. QED  BY <1>8, <2>2, <2>3, <2>4 DEF Park
<1>9. ASSUME NEW r \in Request, Once(r) PROVE TableAccounted' /\ QueueAccounted'
  <2>1. st[r] = "sent" /\ UNCHANGED queue
    BY <1>9 DEF Once, Arrived
  <2>2. CASE Answer(r, "granted") /\ budget' = budget \cup {r}
    BY <1>1, <1>3, <2>1, <2>2 DEF Answer, TableAccounted
  <2>3. CASE Answer(r, "over") /\ UNCHANGED budget
    BY <1>1, <1>3, <2>1, <2>3 DEF Answer, TableAccounted
  <2>. QED  BY <1>9, <2>2, <2>3 DEF Once, Grant
<1>10. ASSUME NEW r \in Request, Reassert(r) \/ Hold(r)
       PROVE  TableAccounted' /\ QueueAccounted'
  <2>1. /\ st[r] = "sent" /\ Answer(r, "granted")
        /\ budget' = budget \cup {r} /\ UNCHANGED queue
    BY <1>10 DEF Reassert, Hold, Arrived
  <2>. QED  BY <1>1, <1>3, <2>1 DEF Answer, TableAccounted
<1>11. ASSUME NEW r \in Request, Cancel(r) PROVE TableAccounted' /\ QueueAccounted'
  <2>1. CASE st[r] = "parked"
    <3>1. /\ Answer(r, "over") /\ UNCHANGED budget
          /\ \E i \in 1..Len(queue) : queue[i] = r /\ Dequeue(r, i, overtaken)
      BY <1>11, <2>1 DEF Cancel
    <3>2. QueueAccounted'
      BY <1>5, <3>1 DEF ReqState
    <3>. QED  BY <1>1, <2>1, <3>1, <3>2 DEF Answer, TableAccounted
  <2>2. CASE st[r] # "parked"
    BY <1>4, <1>11, <2>2 DEF Cancel
  <2>. QED  BY <2>1, <2>2
<1>12. ASSUME NEW r \in Request, Release(r) PROVE TableAccounted' /\ QueueAccounted'
  BY <1>1, <1>3, <1>12 DEF Release, Answer, TableAccounted
<1>13. ASSUME NEW r \in Request, Free(r) \/ FreeClosed(r)
       PROVE  TableAccounted' /\ QueueAccounted'
  <2>1. /\ st[r] = "unlinked" /\ Answer(r, "over")
        /\ budget' = budget \ {r} /\ UNCHANGED queue
    BY <1>13 DEF Free, FreeClosed
  <2>. QED  BY <1>1, <1>3, <2>1 DEF Answer, TableAccounted
<1>14. ASSUME NEW r \in Request, LoseFrame(r) PROVE TableAccounted' /\ QueueAccounted'
  BY <1>1, <1>3, <1>14 DEF LoseFrame, TableAccounted
<1>15. ASSUME NEW c \in Conn, Forget(c) PROVE TableAccounted' /\ QueueAccounted'
  <2>1. UNCHANGED <<budget, queue>>
    BY <1>15 DEF Forget
  <2>2. \A r \in Request : \/ st'[r] = st[r]
                           \/ st[r] = "granted" /\ st'[r] \in {"unlinked", "orphaned"}
    BY <1>15 DEF Forget
  <2>3. QueueAccounted'
    BY <1>3, <2>1, <2>2
  <2>. QED  BY <2>1, <2>2, <2>3 DEF TableAccounted
<1>16. ASSUME NEW c \in Conn, DropParked(c) PROVE TableAccounted' /\ QueueAccounted'
  <2>1. PICK i \in 1..Len(queue) : /\ Answer(queue[i], "over")
                                   /\ Dequeue(queue[i], i, overtaken)
    BY <1>16 DEF DropParked
  <2>2. UNCHANGED budget
    BY <1>16 DEF DropParked
  <2>3. QueueAccounted'
    BY <1>2, <1>5, <2>1 DEF ReqState
  <2>. QED  BY <1>1, <1>2, <2>1, <2>2, <2>3 DEF Answer, TableAccounted
<1>17. CASE JudgeNext
  <2> DEFINE r == queue[cursor]
  <2>1. cursor \in 1..Len(queue) /\ r \in Request /\ st[r] = "parked"
    BY <1>2, <1>17, QueueElements DEF JudgeNext, StateTypeOK
  <2>2. CASE /\ Answer(r, "granted") /\ budget' = budget \cup {r}
             /\ \E over : Dequeue(r, cursor, over)
    <3>1. QueueAccounted'
      BY <1>5, <2>1, <2>2 DEF ReqState
    <3>. QED  BY <1>1, <2>1, <2>2, <3>1 DEF Answer, TableAccounted
  <2>3. CASE Answer(r, "over") /\ Dequeue(r, cursor, overtaken) /\ UNCHANGED budget
    <3>1. QueueAccounted'
      BY <1>5, <2>1, <2>3 DEF ReqState
    <3>. QED  BY <1>1, <2>1, <2>3, <3>1 DEF Answer, TableAccounted
  <2>4. CASE UNCHANGED <<st, budget, queue>>
    BY <1>4, <2>4
  <2>. QED  BY <1>17, <2>2, <2>3, <2>4 DEF JudgeNext, Grant
<1>18. CASE RefuseParked
  <2>1. Elems' = {} /\ NoDuplicate' /\ UNCHANGED budget
    BY <1>18 DEF RefuseParked, Elems, NoDuplicate
  <2>2. \A r \in Request : st'[r] = IF st[r] = "parked" THEN "over" ELSE st[r]
    BY <1>2, <1>18 DEF RefuseParked
  <2>. QED  BY <2>1, <2>2 DEF QueueAccounted, TableAccounted
<1>19. ASSUME NEW r \in Request, SendCancel(r) PROVE UNCHANGED <<st, queue, budget>>
  BY <1>19 DEF SendCancel
<1>20. ASSUME NEW c \in Conn, EndForget(c) \/ BeginWake(c) \/ HangUp(c)
       PROVE  UNCHANGED <<st, queue, budget>>
  BY <1>20 DEF EndForget, BeginWake, HangUp
<1>21. CASE \/ EndWake \/ CountHeld \/ NoticeRelease \/ BeginClose \/ CloseConns \/ Exit
            \/ StartDrain \/ Stop
  BY <1>4, <1>21 DEF EndWake, CountHeld, NoticeRelease, BeginClose, CloseConns, Exit,
                     StartDrain, Stop
<1>. QED
  BY <1>4, <1>6, <1>7, <1>8, <1>9, <1>10, <1>11, <1>12, <1>13, <1>14, <1>15, <1>16,
     <1>17, <1>18, <1>19, <1>20, <1>21
     DEF System, Environment, Handler, Forgets, Wake, Closing

\* The table, the sessions and the queue agree at every step of every handler,
\* wake, hang-up and drain: nothing is charged twice or left behind.
THEOREM AccountedCorrect == Spec => []Accounted
<1>1. Accounted <=> TableAccounted /\ QueueAccounted
  BY DEF Accounted, TableAccounted, QueueAccounted, NoDuplicate
<1>2. Init => Accounted
  <2> SUFFICES ASSUME Init PROVE Accounted
    OBVIOUS
  <2>1. Elems = {} /\ Len(queue) = 0
    BY DEF Init, Elems
  <2>. QED  BY <2>1 DEF Init, Accounted
<1>3. TypeOK /\ Accounted /\ [Next]_vars => Accounted'
  <2>1. ASSUME TypeOK, Accounted, System \/ Environment PROVE Accounted'
    <3>1. TableAccounted' /\ QueueAccounted'
      BY <1>1, <2>1, AccountedStep DEF TypeOK
    <3>. QED  BY <3>1 DEF Accounted, TableAccounted, QueueAccounted, NoDuplicate
  <2>2. ASSUME Accounted, UNCHANGED vars PROVE Accounted'
    BY <2>2 DEF vars, reqVars, budgetVars, queueVars, Accounted, Elems
  <2>. QED  BY <2>1, <2>2 DEF Next, Exited
<1>. QED  BY <1>2, <1>3, TypeCorrect, PTL DEF Spec

-----------------------------------------------------------------------------
(* Gates lead the queue.                                                     *)

\* A mark that outlived its request would let a later one pass for a gate.
MarksQueued == gate \subseteq Elems

LEMMA EnqueueGates ==
  ASSUME StateTypeOK, NoDuplicate, GatesLead, MarksQueued, NEW r \in Request,
         r \notin Elems, NEW isGate \in BOOLEAN, Enqueue(r, isGate)
  PROVE  GatesLead' /\ MarksQueued'
<1> DEFINE at == Place(r, isGate)
           n  == Len(queue)
<1>1. n \in Nat /\ at \in 1..(n + 1) /\ queue \in Seq(Request)
  BY QueueElements, PlaceProperties DEF StateTypeOK
<1>2. /\ ~isGate => \A i \in at..n : queue[i] \notin gate
      /\ isGate => \A i \in 1..(at - 1) : queue[i] \in gate
  BY PlaceProperties DEF Holds
<1> HIDE DEF at
<1>3. /\ Len(queue') = n + 1
      /\ \A i \in 1..(n + 1) :
           queue'[i] = IF i < at THEN queue[i] ELSE IF i = at THEN r ELSE queue[i - 1]
  BY EnqueueShape DEF at
<1>4. gate' = IF isGate THEN gate \cup {r} ELSE gate
  BY DEF Enqueue
<1>5. r \notin gate /\ \A i \in 1..n : queue[i] # r
  BY DEF MarksQueued, Elems
<1>6. \A i, j \in 1..n : i < j /\ queue[j] \in gate => queue[i] \in gate
  BY DEF GatesLead
<1> HIDE DEF n
<1>7. ASSUME NEW i \in 1..(n + 1), NEW j \in 1..(n + 1), i < j, queue'[j] \in gate'
      PROVE  queue'[i] \in gate'
  <2>1. CASE j < at
    <3>1. i \in 1..n /\ j \in 1..n /\ queue'[i] = queue[i] /\ queue'[j] = queue[j]
      BY <1>1, <1>3, <1>7, <2>1
    <3>. QED  BY <1>4, <1>5, <1>6, <1>7, <3>1
  <2>2. CASE j = at
    <3>1. isGate
      BY <1>3, <1>4, <1>5, <1>7, <2>2
    <3>2. i \in 1..(at - 1) /\ queue'[i] = queue[i]
      BY <1>1, <1>3, <1>7, <2>2
    <3>. QED  BY <1>2, <1>4, <3>1, <3>2
  <2>3. CASE j > at
    <3>1. j - 1 \in at..n /\ queue'[j] = queue[j - 1]
      BY <1>1, <1>3, <2>3
    <3>2. queue[j - 1] \in gate
      BY <1>1, <1>4, <1>5, <1>7, <3>1
    <3>3. isGate
      BY <1>2, <3>1, <3>2
    <3>4. CASE i < at
      <4>1. i \in 1..(at - 1) /\ queue'[i] = queue[i]
        BY <1>1, <1>3, <3>4
      <4>. QED  BY <1>2, <1>4, <3>3, <4>1
    <3>5. CASE i = at
      BY <1>3, <1>4, <3>3, <3>5
    <3>6. CASE i > at
      <4>1. i - 1 \in 1..n /\ j - 1 \in 1..n /\ i - 1 < j - 1 /\ queue'[i] = queue[i - 1]
        BY <1>1, <1>3, <1>7, <3>6
      <4>. QED  BY <1>4, <1>6, <3>2, <4>1
    <3>. QED  BY <1>1, <3>4, <3>5, <3>6
  <2>. QED  BY <1>1, <2>1, <2>2, <2>3
<1>8. MarksQueued'
  BY <1>4, EnqueueElements DEF MarksQueued
<1>. QED  BY <1>3, <1>7, <1>8 DEF GatesLead

LEMMA DequeueGates ==
  ASSUME StateTypeOK, NoDuplicate, GatesLead, MarksQueued,
         NEW k \in 1..Len(queue), NEW over, Dequeue(queue[k], k, over)
  PROVE  GatesLead' /\ MarksQueued'
<1> DEFINE n == Len(queue)
<1>1. n \in Nat /\ queue \in Seq(Request)
  BY QueueElements DEF StateTypeOK
<1>2. /\ Len(queue') = n - 1
      /\ \A i \in 1..(n - 1) : queue'[i] = IF i < k THEN queue[i] ELSE queue[i + 1]
  BY DequeueShape
<1>3. gate' = gate \ {queue[k]}
  BY DEF Dequeue
<1>4. /\ k \in 1..n
      /\ \A i, j \in 1..n : i # j => queue[i] # queue[j]
      /\ \A i, j \in 1..n : i < j /\ queue[j] \in gate => queue[i] \in gate
  BY DEF NoDuplicate, GatesLead
<1> HIDE DEF n
<1>5. ASSUME NEW i \in 1..(n - 1), NEW j \in 1..(n - 1), i < j, queue'[j] \in gate'
      PROVE  queue'[i] \in gate'
  <2> DEFINE at(l) == IF l < k THEN l ELSE l + 1
  <2>1. /\ at(i) \in 1..n /\ at(j) \in 1..n /\ at(i) < at(j) /\ at(i) # k
        /\ queue'[i] = queue[at(i)] /\ queue'[j] = queue[at(j)]
    BY <1>1, <1>2, <1>4, <1>5
  <2> HIDE DEF at
  <2>2. queue[at(j)] \in gate /\ queue[at(i)] # queue[k]
    BY <1>3, <1>4, <1>5, <2>1
  <2>. QED  BY <1>3, <1>4, <2>1, <2>2
<1>6. MarksQueued'
  BY <1>3, DequeueElements DEF MarksQueued
<1>. QED  BY <1>2, <1>5, <1>6 DEF GatesLead

LEMMA GatesLeadStep ==
  ASSUME StateTypeOK, QueueAccounted, GatesLead, MarksQueued, System \/ Environment
  PROVE  GatesLead' /\ MarksQueued'
<1>1. ASSUME UNCHANGED <<queue, gate>> PROVE GatesLead' /\ MarksQueued'
  BY <1>1 DEF GatesLead, MarksQueued, Elems
<1>2. NoDuplicate
  BY DEF QueueAccounted
<1>3. ASSUME NEW r \in Request, Park(r) PROVE GatesLead' /\ MarksQueued'
  <2> DEFINE isGate == UnderGate(r)
  <2>1. isGate \in BOOLEAN /\ r \notin Elems
    BY <1>3 DEF UnderGate, Park, Arrived, QueueAccounted
  <2>2. UNCHANGED <<queue, gate>> \/ Enqueue(r, isGate)
    BY <1>3 DEF Park, queueVars
  <2> HIDE DEF isGate
  <2>. QED  BY <1>1, <1>2, <2>1, <2>2, EnqueueGates
<1>4. ASSUME NEW r \in Request, Cancel(r) PROVE GatesLead' /\ MarksQueued'
  BY <1>1, <1>2, <1>4, DequeueGates DEF Cancel, queueVars
<1>5. ASSUME NEW c \in Conn, DropParked(c) PROVE GatesLead' /\ MarksQueued'
  BY <1>2, <1>5, DequeueGates DEF DropParked
<1>6. CASE JudgeNext
  <2>1. cursor \in 1..Len(queue)
    BY <1>6, QueueElements DEF JudgeNext, StateTypeOK
  <2>2. UNCHANGED <<queue, gate>> \/ \E over : Dequeue(queue[cursor], cursor, over)
    BY <1>6 DEF JudgeNext, queueVars
  <2>. QED  BY <1>1, <1>2, <2>1, <2>2, DequeueGates
<1>7. CASE RefuseParked
  BY <1>7 DEF RefuseParked, GatesLead, MarksQueued
<1>8. ASSUME NEW r \in Request,
             \/ TurnAway(r) \/ Once(r) \/ Reassert(r) \/ Hold(r) \/ Free(r)
             \/ FreeClosed(r) \/ LoseFrame(r) \/ Release(r) \/ Send(r) \/ SendCancel(r)
      PROVE  UNCHANGED <<queue, gate>>
  BY <1>8 DEF TurnAway, Once, Reassert, Hold, Free, FreeClosed, LoseFrame, Release,
              Send, SendCancel, queueVars
<1>9. ASSUME NEW c \in Conn, Forget(c) \/ EndForget(c) \/ BeginWake(c) \/ HangUp(c)
      PROVE  UNCHANGED <<queue, gate>>
  BY <1>9 DEF Forget, EndForget, BeginWake, HangUp, queueVars
<1>10. CASE \/ EndWake \/ CountHeld \/ NoticeRelease \/ BeginClose \/ CloseConns \/ Exit
            \/ StartDrain \/ Stop
  BY <1>1, <1>10 DEF EndWake, CountHeld, NoticeRelease, BeginClose, CloseConns, Exit,
                     StartDrain, Stop, queueVars
<1>. QED
  BY <1>1, <1>3, <1>4, <1>5, <1>6, <1>7, <1>8, <1>9, <1>10
     DEF System, Environment, Handler, Forgets, Wake, Closing

\* A mark is made as a gate is queued and taken back as it leaves (enqueueLocked,
\* dropLocked, wake).
LEMMA GatesMarked == Spec => [](GatesLead /\ MarksQueued)
<1>1. Init => GatesLead /\ MarksQueued
  BY DEF Init, GatesLead, MarksQueued
<1>2. TypeOK /\ Accounted /\ GatesLead /\ MarksQueued /\ [Next]_vars
        => GatesLead' /\ MarksQueued'
  <2>1. ASSUME TypeOK, Accounted, GatesLead, MarksQueued, System \/ Environment
        PROVE  GatesLead' /\ MarksQueued'
    BY <2>1, GatesLeadStep DEF TypeOK, Accounted, QueueAccounted, NoDuplicate
  <2>2. ASSUME GatesLead, MarksQueued, UNCHANGED vars PROVE GatesLead' /\ MarksQueued'
    BY <2>2 DEF vars, queueVars, GatesLead, MarksQueued, Elems
  <2>. QED  BY <2>1, <2>2 DEF Next, Exited
<1>. QED  BY <1>1, <1>2, TypeCorrect, AccountedCorrect, PTL DEF Spec

\* No gate is ever behind a request that is none, so that the first gate, which
\* keeps room from everyone, is the head of the queue (enqueueLocked).
THEOREM GatesLeadCorrect == Spec => []GatesLead
BY GatesMarked, PTL

-----------------------------------------------------------------------------
(* The budget's verdict is the one Admission asks.                           *)

LEMMA SameSums ==
  ASSUME NEW S
  PROVE  Adm!SumSlots(S) = SumSlots(S) /\ Adm!SumMB(S) = SumMB(S)
<1>1. ASSUME NEW w PROVE Adm!SumFunctionOnSet(w, S) = SumFunctionOnSet(w, S)
  BY DEF Adm!SumFunctionOnSet, SumFunctionOnSet, Adm!FoldFunctionOnSet, FoldFunctionOnSet,
         Adm!MapThenFoldSet, MapThenFoldSet
<1>2. ASSUME NEW r PROVE Adm!SlotsOf(r) = SlotsOf(r)
  BY DEF Adm!SlotsOf, SlotsOf
<1>. QED  BY <1>1, <1>2 DEF Adm!SumSlots, SumSlots, Adm!SumMB, SumMB

LEMMA SameVerdict ==
  ASSUME NEW r, NEW held
  PROVE  /\ Adm!Admits(r, held) <=> Admits(r, held)
         /\ Adm!ChargeOf(r, held) = ChargeOf(r, held)
<1>1. ASSUME NEW q PROVE Adm!AncestorsOf(q) = AncestorsOf(q)
  BY DEF Adm!AncestorsOf, AncestorsOf, Adm!ToSet, ToSet
<1>2. ASSUME NEW S PROVE Adm!FitsBeside(r, S) <=> FitsBeside(r, S)
  BY SameSums DEF Adm!FitsBeside, FitsBeside, Adm!SlotsOf, SlotsOf
<1>3. Adm!FitsHeld(r, held) <=> FitsHeld(r, held)
  BY <1>1, <1>2 DEF Adm!FitsHeld, FitsHeld, Adm!Excused, Excused
<1>4. Adm!FreeSeats(r, held) = FreeSeats(r, held)
  BY <1>1 DEF Adm!FreeSeats, FreeSeats
<1>. QED
  BY <1>2, <1>3, <1>4 DEF Adm!Admits, Admits, Adm!FitsAlone, FitsAlone, Adm!ChargeOf, ChargeOf

-----------------------------------------------------------------------------
(* How a change of st reads in Admission.                                    *)

LEMMA PhaseValues ==
  ASSUME NEW r \in Request, st \in [Request -> ReqState]
  PROVE  /\ Phase(r) = "idle" <=> st[r] = "idle"
         /\ Phase(r) = "waiting" <=> st[r] \in {"sent", "parked"}
         /\ Phase(r) = "over" <=> st[r] = "over"
         /\ Phase(r) = "seated" <=> st[r] \in {"granted", "unlinked", "orphaned"}
         /\ Phase(r) \in {"idle", "waiting", "over", "seated"}
<1>1. st[r] \in ReqState
  OBVIOUS
<1>. QED  BY <1>1 DEF Phase, ReqState

LEMMA AdmissionSets ==
  ASSUME StateTypeOK, TableAccounted
  PROVE  /\ Adm!Waiting = {r \in Request : st[r] \in {"sent", "parked"}}
         /\ Adm!Seated = budget
BY PhaseValues DEF StateTypeOK, TableAccounted, Adm!Waiting, Adm!Seated

LEMMA MapsToAsk ==
  ASSUME StateTypeOK, NEW r \in Request, st[r] = "idle", Answer(r, "sent"),
         Parent[r] # NoParent => st[Parent[r]] = "granted", UNCHANGED charged
  PROVE  Adm!Ask(r)
<1>1. st \in [Request -> ReqState] /\ st' \in [Request -> ReqState]
  BY DEF StateTypeOK, Answer, ReqState
<1>2. Phase(r) = "idle"
  BY <1>1, PhaseValues
<1>3. Parent[r] # NoParent => Parent[r] \in Request /\ Phase(Parent[r]) = "seated"
  BY <1>1, PhaseValues, BrokerAssumption
<1>4. \A q \in Request : Phase(q)' = IF q = r THEN "waiting" ELSE Phase(q)
  BY <1>1 DEF Answer, Phase
<1>. QED  BY <1>2, <1>3, <1>4 DEF Adm!Ask

\* What a grant may be judged behind: nobody, or one other parked request.
MayBeAhead(r, ahead) ==
  ahead = {} \/ \E q \in Request \ {r} : st[q] = "parked" /\ ahead = {q}

LEMMA MapsToSeat ==
  ASSUME StateTypeOK, TableAccounted, NEW r \in Request, r \notin Unasked,
         st[r] \in {"sent", "parked"}, Answer(r, "granted"),
         NEW ahead, Grant(r, ahead), Admits(r, Beside(ahead)), MayBeAhead(r, ahead)
  PROVE  Adm!Seat(r)
<1>1. st \in [Request -> ReqState] /\ st' \in [Request -> ReqState]
  BY DEF StateTypeOK, Answer, ReqState
<1>2. Phase(r) = "waiting"
  BY <1>1, PhaseValues
<1>3. ahead \in Adm!Ahead(r)
  BY AdmissionSets DEF Adm!Ahead, MayBeAhead
<1>4. Adm!Seated \cup ahead = Beside(ahead)
  BY AdmissionSets DEF Beside
<1>5. /\ Adm!Admits(r, Adm!Seated \cup ahead)
      /\ charged' = [charged EXCEPT ![r] = Adm!ChargeOf(r, Adm!Seated \cup ahead)]
  BY <1>4, SameVerdict DEF Grant
<1>6. \A q \in Request : Phase(q)' = IF q = r THEN "seated" ELSE Phase(q)
  BY <1>1 DEF Answer, Phase
<1>. QED  BY <1>2, <1>3, <1>5, <1>6 DEF Adm!Seat

LEMMA MapsToRecord ==
  ASSUME StateTypeOK, NEW r \in Unasked, st[r] = "sent", Answer(r, "granted"),
         UNCHANGED charged
  PROVE  Adm!Record(r)
<1>1. st \in [Request -> ReqState] /\ st' \in [Request -> ReqState] /\ r \in Request
  BY DEF StateTypeOK, Answer, ReqState, Unasked
<1>2. Phase(r) = "waiting"
  BY <1>1, PhaseValues
<1>3. \A q \in Request : Phase(q)' = IF q = r THEN "seated" ELSE Phase(q)
  BY <1>1 DEF Answer, Phase
<1>. QED  BY <1>1, <1>2, <1>3 DEF Adm!Record

LEMMA MapsToRelease ==
  ASSUME StateTypeOK, NEW r \in Request, st[r] = "unlinked", Answer(r, "over"),
         UNCHANGED charged
  PROVE  Adm!Release(r)
<1>1. st \in [Request -> ReqState] /\ st' \in [Request -> ReqState]
  BY DEF StateTypeOK, Answer, ReqState
<1>2. Phase(r) = "seated"
  BY <1>1, PhaseValues
<1>3. \A q \in Request : Phase(q)' = IF q = r THEN "over" ELSE Phase(q)
  BY <1>1 DEF Answer, Phase
<1>. QED  BY <1>2, <1>3 DEF Adm!Release

LEMMA MapsToStutter ==
  ASSUME UNCHANGED charged, \A r \in Request : Phase(r)' = Phase(r)
  PROVE  UNCHANGED Adm!admissionVars
BY DEF Adm!admissionVars

\* Requests that waited are answered without a seat.
LEMMA MapsToWithdraw ==
  ASSUME StateTypeOK, TableAccounted, NEW S \in SUBSET Request,
         \A r \in S : st[r] \in {"sent", "parked"},
         \A r \in Request : st'[r] = IF r \in S THEN "over" ELSE st[r],
         UNCHANGED charged
  PROVE  [Adm!AdmissionNext]_(Adm!admissionVars)
<1>1. \A q \in Request : Phase(q)' = IF q \in S THEN "over" ELSE Phase(q)
  BY DEF Phase
<1>2. CASE S = {}
  BY <1>1, <1>2, MapsToStutter
<1>3. CASE S # {}
  <2>1. S \in SUBSET Adm!Waiting
    BY AdmissionSets
  <2>2. Adm!Withdraw(S)
    BY <1>1, <1>3 DEF Adm!Withdraw
  <2>. QED  BY <2>1, <2>2 DEF Adm!AdmissionNext
<1>. QED  BY <1>2, <1>3

-----------------------------------------------------------------------------
(* What a grant is judged behind, and who is ever parked.                    *)

LEMMA AheadIsParked ==
  ASSUME StateTypeOK, QueueAccounted, NEW r \in Request, NEW isGate \in BOOLEAN,
         NEW atHead \in BOOLEAN, atHead \/ r \notin StarvedHead
  PROVE  MayBeAhead(r, Ahead(r, isGate, atHead))
<1> DEFINE gates == {i \in 1..Len(queue) : queue[i] \in gate /\ queue[i] # r}
           ahead == Ahead(r, isGate, atHead)
<1> USE DEF MayBeAhead
<1>1. /\ Len(queue) \in Nat
      /\ \A i \in 1..Len(queue) : queue[i] \in Request /\ st[queue[i]] = "parked"
      /\ queue # <<>> => Len(queue) > 0 /\ Head(queue) = queue[1]
  BY QueueElements DEF QueueAccounted, Elems
<1>2. CASE ahead = FirstGate(r)
  <2>1. FirstGate(r) = {queue[i] : i \in {k \in gates : \A j \in gates : k <= j}}
    BY DEF FirstGate
  <2>2. CASE FirstGate(r) = {}
    BY <1>2, <2>2
  <2>3. CASE FirstGate(r) # {}
    <3>1. PICK i \in gates : \A j \in gates : i <= j
      BY <2>1, <2>3
    <3>2. \A k \in gates : (\A j \in gates : k <= j) => k = i
      BY <1>1, <3>1
    <3>3. FirstGate(r) = {queue[i]}
      BY <2>1, <3>1, <3>2
    <3>4. queue[i] \in Request \ {r} /\ st[queue[i]] = "parked"
      BY <1>1, <3>1
    <3>. QED  BY <1>2, <3>3, <3>4
  <2>. QED  BY <2>2, <2>3
<1>3. CASE ahead = StarvedHead /\ ~atHead
  <2>1. CASE queue # <<>> /\ Starved(Head(queue))
    <3>1. Head(queue) \in Request \ {r} /\ st[Head(queue)] = "parked"
      BY <1>1, <1>3, <2>1 DEF StarvedHead
    <3>. QED  BY <1>3, <2>1, <3>1 DEF StarvedHead
  <2>2. CASE ~(queue # <<>> /\ Starved(Head(queue)))
    BY <1>3, <2>2 DEF StarvedHead
  <2>. QED  BY <2>1, <2>2
<1>4. CASE ahead = {}
  BY <1>4
<1>. QED  BY <1>2, <1>3, <1>4 DEF Ahead

\* Only a parked Claim is ever in the queue.
OnlyParkedWait == \A r \in Request : st[r] = "parked" => Kind[r] = "park"

LEMMA OnlyParkedWaitStep ==
  ASSUME StateTypeOK, QueueAccounted, OnlyParkedWait, System \/ Environment
  PROVE  OnlyParkedWait'
<1> USE DEF reqVars, budgetVars, queueVars, connVars, muVars, serveVars
<1>1. st \in [Request -> ReqState] /\ \A i \in 1..Len(queue) : queue[i] \in Request
  BY QueueElements DEF StateTypeOK
<1>2. ASSUME UNCHANGED st PROVE OnlyParkedWait'
  BY <1>2 DEF OnlyParkedWait
<1>3. ASSUME NEW r \in Request, NEW how, how # "parked", Answer(r, how)
      PROVE  OnlyParkedWait'
  BY <1>1, <1>3 DEF Answer, OnlyParkedWait
<1>4. ASSUME NEW r \in Request, Park(r) PROVE OnlyParkedWait'
  <2>1. Kind[r] = "park" /\ \E how : Answer(r, how)
    BY <1>4 DEF Park, Arrived
  <2>. QED  BY <1>1, <2>1 DEF Answer, OnlyParkedWait
<1>5. ASSUME NEW r \in Request, Send(r) PROVE OnlyParkedWait'
  BY <1>1, <1>5 DEF Send, OnlyParkedWait
<1>6. ASSUME NEW r \in Request,
             \/ TurnAway(r) \/ Once(r) \/ Reassert(r) \/ Hold(r) \/ Release(r)
             \/ Free(r) \/ FreeClosed(r)
      PROVE  OnlyParkedWait'
  <2>1. Answer(r, "granted") \/ Answer(r, "over") \/ Answer(r, "unlinked")
    BY <1>6 DEF TurnAway, Once, Reassert, Hold, Release, Free, FreeClosed
  <2>. QED  BY <1>3, <2>1
<1>7. ASSUME NEW r \in Request, Cancel(r) PROVE OnlyParkedWait'
  BY <1>2, <1>3, <1>7 DEF Cancel
<1>8. ASSUME NEW r \in Request, LoseFrame(r) PROVE OnlyParkedWait'
  BY <1>1, <1>8 DEF LoseFrame, OnlyParkedWait
<1>9. ASSUME NEW c \in Conn, Forget(c) PROVE OnlyParkedWait'
  BY <1>9 DEF Forget, OnlyParkedWait
<1>10. ASSUME NEW c \in Conn, DropParked(c) PROVE OnlyParkedWait'
  BY <1>1, <1>3, <1>10 DEF DropParked
<1>11. CASE JudgeNext
  <2>1. queue[cursor] \in Request
    BY <1>1, <1>11 DEF JudgeNext, StateTypeOK
  <2>. QED  BY <1>2, <1>3, <1>11, <2>1 DEF JudgeNext
<1>12. CASE RefuseParked
  BY <1>12 DEF RefuseParked, OnlyParkedWait
<1>13. ASSUME NEW r \in Request, SendCancel(r) PROVE UNCHANGED st
  BY <1>13 DEF SendCancel
<1>14. ASSUME NEW c \in Conn, EndForget(c) \/ BeginWake(c) \/ HangUp(c)
       PROVE  UNCHANGED st
  BY <1>14 DEF EndForget, BeginWake, HangUp
<1>15. CASE \/ EndWake \/ CountHeld \/ NoticeRelease \/ BeginClose \/ CloseConns \/ Exit
            \/ StartDrain \/ Stop
  BY <1>2, <1>15 DEF EndWake, CountHeld, NoticeRelease, BeginClose, CloseConns, Exit,
                     StartDrain, Stop
<1>. QED
  BY <1>2, <1>4, <1>5, <1>6, <1>7, <1>8, <1>9, <1>10, <1>11, <1>12, <1>13, <1>14, <1>15
     DEF System, Environment, Handler, Forgets, Wake, Closing

-----------------------------------------------------------------------------
(* The refinement.                                                           *)

LEMMA StepRefines ==
  ASSUME StateTypeOK, TableAccounted, QueueAccounted, OnlyParkedWait,
         System \/ Environment
  PROVE  [Adm!AdmissionNext]_(Adm!admissionVars)
<1> USE DEF reqVars, budgetVars, queueVars, connVars, muVars, serveVars
<1>1. /\ st \in [Request -> ReqState]
      /\ \A i \in 1..Len(queue) : queue[i] \in Request /\ st[queue[i]] = "parked"
  BY QueueElements DEF StateTypeOK, QueueAccounted, Elems
<1>2. ASSUME UNCHANGED <<st, charged>> PROVE UNCHANGED Adm!admissionVars
  BY <1>2, MapsToStutter DEF Phase
<1>3. ASSUME NEW r \in Request, st[r] \in {"sent", "parked"}, Answer(r, "over"),
             UNCHANGED charged
      PROVE  [Adm!AdmissionNext]_(Adm!admissionVars)
  <2>1. \A q \in Request : st'[q] = IF q \in {r} THEN "over" ELSE st[q]
    BY <1>1, <1>3 DEF Answer
  <2>. QED  BY <1>3, <2>1, MapsToWithdraw
<1>4. ASSUME NEW r \in Request, st[r] = "sent", Answer(r, "parked"), UNCHANGED charged
      PROVE  UNCHANGED Adm!admissionVars
  <2>1. \A q \in Request : Phase(q)' = Phase(q)
    BY <1>1, <1>4 DEF Answer, Phase
  <2>. QED  BY <1>4, <2>1, MapsToStutter
<1>5. ASSUME NEW r \in Request, Send(r) PROVE Adm!Ask(r)
  BY <1>5, MapsToAsk DEF Send, Answer
<1>6. ASSUME NEW r \in Request, TurnAway(r)
      PROVE  [Adm!AdmissionNext]_(Adm!admissionVars)
  BY <1>3, <1>6 DEF TurnAway
<1>7. ASSUME NEW r \in Request, Park(r)
      PROVE  [Adm!AdmissionNext]_(Adm!admissionVars)
  <2> DEFINE isGate == UnderGate(r)
             ahead  == Ahead(r, isGate, FALSE)
  <2>1. st[r] = "sent" /\ r \notin Unasked /\ isGate \in BOOLEAN
    BY <1>7 DEF Park, Arrived, Unasked, UnderGate
  <2>2. r \notin StarvedHead
    <3>1. queue # <<>> => 1 \in 1..Len(queue) /\ Head(queue) = queue[1]
      BY QueueElements
    <3>. QED  BY <1>1, <2>1, <3>1 DEF StarvedHead
  <2>3. CASE Seats(r, ahead) /\ Answer(r, "granted") /\ Grant(r, ahead)
    <3>1. MayBeAhead(r, ahead)
      <4> HIDE DEF isGate
      <4>. QED  BY <2>1, <2>2, AheadIsParked
    <3> HIDE DEF ahead
    <3>2. Admits(r, Beside(ahead))
      BY <2>3 DEF Seats
    <3>3. Adm!Seat(r)
      BY <2>1, <2>3, <3>1, <3>2, MapsToSeat
    <3>. QED  BY <3>3 DEF Adm!AdmissionNext
  <2>4. CASE Answer(r, "over") /\ UNCHANGED charged
    BY <1>3, <2>1, <2>4
  <2>5. CASE Answer(r, "parked") /\ UNCHANGED charged
    BY <1>4, <2>1, <2>5
  <2>. QED  BY <1>7, <2>3, <2>4, <2>5 DEF Park
<1>8. ASSUME NEW r \in Request, Once(r)
      PROVE  [Adm!AdmissionNext]_(Adm!admissionVars)
  <2> DEFINE isGate == UnderGate(r)
             ahead  == Ahead(r, isGate, TRUE)
  <2>1. st[r] = "sent" /\ r \notin Unasked /\ isGate \in BOOLEAN
    BY <1>8 DEF Once, Arrived, Unasked, UnderGate
  <2>2. CASE Seats(r, ahead) /\ Answer(r, "granted") /\ Grant(r, ahead)
    <3>1. MayBeAhead(r, ahead)
      <4> HIDE DEF isGate
      <4>. QED  BY <2>1, AheadIsParked
    <3> HIDE DEF ahead
    <3>2. Admits(r, Beside(ahead))
      BY <2>2 DEF Seats
    <3>3. Adm!Seat(r)
      BY <2>1, <2>2, <3>1, <3>2, MapsToSeat
    <3>. QED  BY <3>3 DEF Adm!AdmissionNext
  <2>3. CASE Answer(r, "over") /\ UNCHANGED charged
    BY <1>3, <2>1, <2>3
  <2>. QED  BY <1>8, <2>2, <2>3 DEF Once
<1>9. ASSUME NEW r \in Request, Reassert(r) \/ Hold(r) PROVE Adm!Record(r)
  <2>1. /\ st[r] = "sent" /\ r \in Unasked
        /\ Answer(r, "granted") /\ UNCHANGED charged
    BY <1>9 DEF Reassert, Hold, Arrived, Unasked
  <2>. QED  BY <2>1, MapsToRecord
<1>10. ASSUME NEW r \in Request, Cancel(r)
       PROVE  [Adm!AdmissionNext]_(Adm!admissionVars)
  BY <1>2, <1>3, <1>10 DEF Cancel
<1>11. ASSUME NEW r \in Request, Release(r) PROVE UNCHANGED Adm!admissionVars
  <2>1. /\ st[r] = "granted" /\ Answer(r, "unlinked") /\ UNCHANGED charged
    BY <1>11 DEF Release
  <2>2. \A q \in Request : Phase(q)' = Phase(q)
    BY <1>1, <2>1 DEF Answer, Phase
  <2>. QED  BY <2>1, <2>2, MapsToStutter
<1>12. ASSUME NEW r \in Request, Free(r) \/ FreeClosed(r) PROVE Adm!Release(r)
  <2>1. /\ st[r] = "unlinked" /\ Answer(r, "over") /\ UNCHANGED charged
    BY <1>12 DEF Free, FreeClosed
  <2>. QED  BY <2>1, MapsToRelease
<1>13. ASSUME NEW r \in Request, LoseFrame(r)
       PROVE  [Adm!AdmissionNext]_(Adm!admissionVars)
  <2> DEFINE S == {q \in {r} : st[q] = "sent"}
  <2>1. \A q \in Request : st'[q] = IF q \in S THEN "over" ELSE st[q]
    BY <1>1, <1>13 DEF LoseFrame
  <2>2. UNCHANGED charged
    BY <1>13 DEF LoseFrame
  <2>3. S \in SUBSET Request /\ \A q \in S : st[q] \in {"sent", "parked"}
    OBVIOUS
  <2> HIDE DEF S
  <2>. QED  BY <2>1, <2>2, <2>3, MapsToWithdraw
<1>14. ASSUME NEW c \in Conn, Forget(c) PROVE UNCHANGED Adm!admissionVars
  <2>1. UNCHANGED charged
    BY <1>14 DEF Forget
  <2>2. \A q \in Request : \/ st'[q] = st[q]
                           \/ st[q] = "granted" /\ st'[q] \in {"unlinked", "orphaned"}
    BY <1>14 DEF Forget
  <2>3. \A q \in Request : Phase(q)' = Phase(q)
    BY <2>2 DEF Phase
  <2>. QED  BY <2>1, <2>3, MapsToStutter
<1>15. ASSUME NEW c \in Conn, DropParked(c)
       PROVE  [Adm!AdmissionNext]_(Adm!admissionVars)
  BY <1>1, <1>3, <1>15 DEF DropParked
<1>16. CASE JudgeNext
  <2> DEFINE r      == queue[cursor]
             isGate == r \in gate
             atHead == cursor = 1
             ahead  == Ahead(r, isGate, atHead)
  <2>1. cursor \in 1..Len(queue) /\ r \in Request /\ st[r] = "parked" /\ r \notin Unasked
    <3>1. cursor \in 1..Len(queue)
      BY <1>16, QueueElements DEF JudgeNext, StateTypeOK
    <3>. QED  BY <1>1, <3>1 DEF OnlyParkedWait, Unasked
  <2>2. CASE Seats(r, ahead) /\ Answer(r, "granted") /\ Grant(r, ahead)
    <3>1. atHead \/ r \notin StarvedHead
      BY <2>1, QueueElements DEF QueueAccounted, NoDuplicate, StarvedHead
    <3>2. MayBeAhead(r, ahead)
      <4>1. isGate \in BOOLEAN /\ atHead \in BOOLEAN
        OBVIOUS
      <4> HIDE DEF r, isGate, atHead
      <4>. QED  BY <2>1, <3>1, <4>1, AheadIsParked
    <3> HIDE DEF ahead, r
    <3>3. Admits(r, Beside(ahead))
      BY <2>2 DEF Seats
    <3>4. Adm!Seat(r)
      BY <2>1, <2>2, <3>2, <3>3, MapsToSeat
    <3>. QED  BY <2>1, <3>4 DEF Adm!AdmissionNext
  <2>3. CASE Answer(r, "over") /\ UNCHANGED charged
    BY <1>3, <2>1, <2>3
  <2>4. CASE UNCHANGED <<st, charged>>
    BY <1>2, <2>4
  <2>. QED  BY <1>16, <2>2, <2>3, <2>4 DEF JudgeNext
<1>17. CASE RefuseParked
  <2>1. Elems \in SUBSET Request /\ \A q \in Elems : st[q] \in {"sent", "parked"}
    BY <1>1 DEF Elems
  <2>2. UNCHANGED charged /\ \A q \in Request : st'[q] = IF q \in Elems THEN "over" ELSE st[q]
    BY <1>17 DEF RefuseParked
  <2>. QED  BY <2>1, <2>2, MapsToWithdraw
<1>18. ASSUME NEW r \in Request, SendCancel(r) PROVE UNCHANGED <<st, charged>>
  BY <1>18 DEF SendCancel
<1>19. ASSUME NEW c \in Conn, EndForget(c) \/ BeginWake(c) \/ HangUp(c)
       PROVE  UNCHANGED <<st, charged>>
  BY <1>19 DEF EndForget, BeginWake, HangUp
<1>20. CASE \/ EndWake \/ CountHeld \/ NoticeRelease \/ BeginClose \/ CloseConns \/ Exit
            \/ StartDrain \/ Stop
  BY <1>2, <1>20 DEF EndWake, CountHeld, NoticeRelease, BeginClose, CloseConns, Exit,
                     StartDrain, Stop
<1>21. ASSUME NEW r \in Request, Adm!Ask(r) \/ Adm!Record(r) \/ Adm!Release(r)
       PROVE  Adm!AdmissionNext
  BY <1>21 DEF Adm!AdmissionNext
<1>. QED
  BY <1>2, <1>5, <1>6, <1>7, <1>8, <1>9, <1>10, <1>11, <1>12, <1>13, <1>14, <1>15, <1>16,
     <1>17, <1>18, <1>19, <1>20, <1>21
     DEF System, Environment, Handler, Forgets, Wake, Closing

\* Only a request of claimPark is ever in the queue (budget.go's claim: the others
\* are answered by the frame's handler).
THEOREM OnlyParkedWaitAlways == Spec => []OnlyParkedWait
<1>1. Init => OnlyParkedWait
  BY DEF Init, OnlyParkedWait
<1>2. TypeOK /\ Accounted => StateTypeOK /\ TableAccounted /\ QueueAccounted
  BY DEF TypeOK, Accounted, TableAccounted, QueueAccounted, NoDuplicate
<1>3. TypeOK /\ Accounted /\ OnlyParkedWait /\ [Next]_vars => OnlyParkedWait'
  <2>1. ASSUME OnlyParkedWait, UNCHANGED vars PROVE OnlyParkedWait'
    BY <2>1 DEF vars, reqVars, OnlyParkedWait
  <2>. QED  BY <1>2, <2>1, OnlyParkedWaitStep DEF Next, Exited
<1>. QED  BY <1>1, <1>3, TypeCorrect, AccountedCorrect, PTL DEF Spec

\* Queue, gates, seats, wakes, hang-ups and the drain only choose when a request
\* is seated: whatever the broker does, Admission allows.
THEOREM Refinement == Spec => ImplementsAdmission
<1>1. Init => Adm!AdmissionInit
  BY DEF Init, Adm!AdmissionInit, Phase
<1>2. TypeOK /\ Accounted => StateTypeOK /\ TableAccounted /\ QueueAccounted
  BY DEF TypeOK, Accounted, TableAccounted, QueueAccounted, NoDuplicate
<1>3. TypeOK /\ Accounted /\ OnlyParkedWait /\ [Next]_vars
        => [Adm!AdmissionNext]_(Adm!admissionVars)
  <2>1. ASSUME UNCHANGED vars PROVE UNCHANGED Adm!admissionVars
    <3>1. UNCHANGED <<st, charged>>
      BY <2>1 DEF vars, reqVars, budgetVars
    <3>. QED  BY <3>1, MapsToStutter DEF Phase
  <2>. QED  BY <1>2, <2>1, StepRefines DEF Next, Exited
<1>. QED
  BY <1>1, <1>3, TypeCorrect, AccountedCorrect, OnlyParkedWaitAlways, PTL
     DEF Spec, ImplementsAdmission, Adm!AdmissionSpec

-----------------------------------------------------------------------------
(* The head of the queue keeps its room.                                     *)

\* r is tried by one of the three that seat: its own frame's handler, asking to be
\* parked or answered at once, and a wake.
TriedBehind(r, ahead) ==
  \/ r \notin Elems /\ Kind[r] = "park" /\ ahead = Ahead(r, UnderGate(r), FALSE)
  \/ r \notin Elems /\ Kind[r] = "once" /\ ahead = Ahead(r, UnderGate(r), TRUE)
  \/ \E i \in 1..Len(queue) : r = queue[i] /\ ahead = Ahead(r, r \in gate, i = 1)

\* A step seats one request that asked for room, or none.
LEMMA SeatsOne ==
  ASSUME StateTypeOK, TableAccounted, QueueAccounted, System \/ Environment
  PROVE  \/ budget' \subseteq budget \cup Unasked /\ UNCHANGED charged
         \/ \E r \in Request, ahead \in SUBSET Request :
              /\ r \notin budget
              /\ TriedBehind(r, ahead) /\ Seats(r, ahead) /\ Grant(r, ahead)
<1> DEFINE None == budget' \subseteq budget \cup Unasked /\ UNCHANGED charged
           One(r) == \E ahead \in SUBSET Request :
                       /\ r \notin budget
                       /\ TriedBehind(r, ahead) /\ Seats(r, ahead) /\ Grant(r, ahead)
<1> USE DEF budgetVars
<1>1. \A i \in 1..Len(queue) : queue[i] \in Request
  BY QueueElements
<1>2. ASSUME NEW r, NEW g, NEW h PROVE Ahead(r, g, h) \in SUBSET Request
  <2>1. StarvedHead \in SUBSET Request
    BY QueueElements DEF StarvedHead
  <2>2. FirstGate(r) \in SUBSET Request
    BY <1>1 DEF FirstGate
  <2>. QED  BY <2>1, <2>2 DEF Ahead
<1>3. \A r \in Request : st[r] \in {"sent", "parked"} => r \notin budget
  BY DEF TableAccounted
<1>4. \A r \in Request : st[r] = "sent" => r \notin Elems
  BY DEF QueueAccounted
<1>5. ASSUME NEW r \in Request, Park(r) PROVE None \/ One(r)
  <2> DEFINE ahead == Ahead(r, UnderGate(r), FALSE)
  <2>1. None \/ (Seats(r, ahead) /\ Grant(r, ahead))
    BY <1>5 DEF Park
  <2>2. st[r] = "sent" /\ Kind[r] = "park" /\ ahead \in SUBSET Request
    BY <1>2, <1>5 DEF Park, Arrived
  <2>. QED  BY <1>3, <1>4, <2>1, <2>2 DEF TriedBehind
<1>6. ASSUME NEW r \in Request, Once(r) PROVE None \/ One(r)
  <2> DEFINE ahead == Ahead(r, UnderGate(r), TRUE)
  <2>1. None \/ (Seats(r, ahead) /\ Grant(r, ahead))
    BY <1>6 DEF Once
  <2>2. st[r] = "sent" /\ Kind[r] = "once" /\ ahead \in SUBSET Request
    BY <1>2, <1>6 DEF Once, Arrived
  <2>. QED  BY <1>3, <1>4, <2>1, <2>2 DEF TriedBehind
<1>7. CASE JudgeNext
  <2> DEFINE r     == queue[cursor]
             ahead == Ahead(r, r \in gate, cursor = 1)
  <2>1. cursor \in 1..Len(queue) /\ r \in Request /\ ahead \in SUBSET Request
    BY <1>1, <1>2, <1>7, QueueElements DEF JudgeNext, StateTypeOK
  <2>2. st[r] = "parked"
    BY <2>1 DEF QueueAccounted, Elems
  <2>3. None \/ (Seats(r, ahead) /\ Grant(r, ahead))
    BY <1>7 DEF JudgeNext
  <2>4. TriedBehind(r, ahead)
    BY <2>1 DEF TriedBehind
  <2>5. None \/ One(r)
    <3> HIDE DEF ahead
    <3>. QED  BY <1>3, <2>1, <2>2, <2>3, <2>4
  <2>. QED  BY <2>1, <2>5
<1>8. ASSUME NEW r \in Request, Reassert(r) \/ Hold(r) PROVE None
  BY <1>8 DEF Reassert, Hold, Arrived, Unasked
<1>9. ASSUME NEW r \in Request,
             \/ TurnAway(r) \/ Cancel(r) \/ Free(r) \/ FreeClosed(r) \/ LoseFrame(r)
             \/ Release(r) \/ Send(r) \/ SendCancel(r)
      PROVE  None
  BY <1>9 DEF TurnAway, Cancel, Free, FreeClosed, LoseFrame, Release, Send, SendCancel
<1>10. ASSUME NEW c \in Conn, Forget(c) \/ DropParked(c) \/ EndForget(c) \/ BeginWake(c) \/ HangUp(c)
       PROVE  None
  BY <1>10 DEF Forget, DropParked, EndForget, BeginWake, HangUp
<1>11. CASE EndWake \/ Closing \/ StartDrain \/ Stop
  BY <1>11 DEF EndWake, Closing, RefuseParked, CountHeld, NoticeRelease, BeginClose,
               CloseConns, Exit, StartDrain, Stop
<1>. QED
  BY <1>5, <1>6, <1>7, <1>8, <1>9, <1>10, <1>11
     DEF System, Environment, Handler, Forgets, Wake

\* Whoever the head keeps its room from is judged as if the head were seated.
LEMMA JudgedBehindHead ==
  ASSUME StateTypeOK, NoDuplicate, GatesLead, queue # <<>>, NEW r \in Request,
         r # Head(queue), NEW ahead, TriedBehind(r, ahead), KeepsRoomFrom(Head(queue), r)
  PROVE  ahead = {Head(queue)}
<1> DEFINE h == Head(queue)
<1>1. Len(queue) \in Nat /\ Len(queue) > 0 /\ h = queue[1]
  BY QueueElements
<1>2. CASE h \in gate
  <2>1. FirstGate(r) = {h}
    BY <1>1, <1>2 DEF FirstGate
  <2>2. Starved(h) => StarvedHead = {h}
    BY DEF StarvedHead
  <2>. QED  BY <1>1, <2>1, <2>2 DEF TriedBehind, KeepsRoomFrom, Ahead, Elems
<1>3. CASE h \notin gate
  <2>1. FirstGate(r) = {}
    BY <1>1, <1>3 DEF FirstGate, GatesLead
  <2>2. StarvedHead = {h} /\ Kind[r] # "once"
    BY <1>3 DEF StarvedHead, KeepsRoomFrom
  <2>3. \A i \in 1..Len(queue) : r = queue[i] => i # 1
    BY <1>1
  <2>. QED  BY <2>1, <2>2, <2>3 DEF TriedBehind, Ahead
<1>. QED  BY <1>2, <1>3

\* What was seated past the head's room and shares nothing with the head.
Passed == {r \in behind : /\ charged[r] = {}
                          /\ Claim[Head(queue)].invocation \notin AncestorsOf(r)}

\* The strengthening: who runs underneath whom changes as claims come and go, so
\* it is every unrelated set of those that fits beside the head.
RoomKept ==
  queue # <<>> =>
    \A S \in SUBSET Passed : S # {} /\ Unrelated(S) => Fits(S \cup {Head(queue)})

RoomInv == behind \subseteq budget /\ RoomKept

\* What is seated once is charged once.
LEMMA ChargedStays ==
  ASSUME StateTypeOK, TableAccounted, QueueAccounted, System \/ Environment
  PROVE  \A q \in budget : charged'[q] = charged[q]
BY SeatsOne DEF Grant, StateTypeOK

LEMMA RoomStep ==
  ASSUME TypeOK, Accounted, Accounted', GatesLead, RoomInv, System \/ Environment, Behind
  PROVE  RoomInv'
<1>1. StateTypeOK /\ TableAccounted /\ QueueAccounted /\ NoDuplicate
  BY DEF TypeOK, Accounted, TableAccounted, QueueAccounted, NoDuplicate
<1>2. behind' \subseteq budget'
  BY DEF Behind
<1>3. RoomKept'
  <2> SUFFICES ASSUME queue' # <<>>, NEW S \in SUBSET Passed', S # {}, Unrelated(S)
               PROVE  Fits(S \cup {Head(queue')})
    BY DEF RoomKept, Unrelated, AncestorsOf, Fits, SumSlots, SumMB, SlotsOf
  <2> DEFINE h == Head(queue)
             new == budget' \ (budget \cup Unasked)
  <2>1. S \subseteq behind' /\ behind' # {}
    BY DEF Passed
  <2>2. /\ queue # <<>> /\ queue[1] = queue'[1]
        /\ \A r \in behind' : r \in behind \/ (r \in new /\ KeepsRoomFrom(queue[1], r))
        /\ behind' \subseteq budget'
    <3>1. queue # <<>> /\ queue[1] = queue'[1]
      BY <2>1 DEF Behind
    <3>2. behind' = {r \in (behind \cup new) \cap budget' :
                       r \in behind \/ KeepsRoomFrom(queue[1], r)}
      BY <2>1, <3>1 DEF Behind
    <3> HIDE DEF new
    <3>3. \A r \in behind' : r \in behind \/ (r \in new /\ KeepsRoomFrom(queue[1], r))
      BY <3>2
    <3>4. behind' \subseteq budget'
      BY <3>2
    <3>. QED  BY <3>1, <3>3, <3>4
  <2>3. h = queue[1] /\ h \in Elems /\ h \in Request
    BY <1>1, <2>2, QueueElements DEF Elems
  <2>4. Head(queue') = h /\ h \in Elems'
    <3>1. TypeOK'
      BY <1>1, <1>2, StepType DEF TypeOK, StateTypeOK
    <3>2. Len(queue') > 0 /\ Len(queue') \in Nat /\ Head(queue') = queue'[1]
      <4>1. queue' \in Seq(Request)
        BY <3>1 DEF TypeOK, StateTypeOK
      <4>. QED  BY <4>1, EmptySeq, LenProperties
    <3>. QED  BY <2>2, <2>3, <3>2 DEF Elems
  <2>5. h \notin budget /\ h \notin budget'
    BY <2>3, <2>4 DEF Accounted
  <2>6. ASSUME NEW r \in S
        PROVE  /\ charged'[r] = {}
               /\ Claim[h].invocation \notin AncestorsOf(r)
    BY <2>4 DEF Passed, AncestorsOf
  <2>7. CASE S \subseteq behind
    <3>1. S \in SUBSET Passed
      BY <1>1, <2>6, <2>7, ChargedStays DEF RoomInv, Passed
    <3>. QED  BY <2>2, <2>4, <3>1 DEF RoomInv, RoomKept
  <2>8. ASSUME NEW r \in S, r \notin behind PROVE Fits(S \cup {h})
    <3>1. r \in new /\ KeepsRoomFrom(h, r)
      BY <2>1, <2>2, <2>3, <2>8
    <3>2. PICK q \in Request, ahead \in SUBSET Request :
            /\ q \notin budget
            /\ TriedBehind(q, ahead) /\ Seats(q, ahead) /\ Grant(q, ahead)
      BY <1>1, <3>1, SeatsOne
    <3>3. q = r /\ budget' = budget \cup {r}
      BY <3>1, <3>2 DEF Grant
    <3>4. ahead = {h}
      BY <1>1, <2>2, <2>5, <3>1, <3>2, <3>3, JudgedBehindHead
    <3> DEFINE held == budget \cup {h}
    <3>5. Admits(r, held) /\ ChargeOf(r, held) = {}
      <4>1. charged'[r] = ChargeOf(r, held)
        BY <1>1, <3>2, <3>3, <3>4 DEF Grant, Beside, StateTypeOK
      <4>. QED  BY <2>6, <3>2, <3>3, <3>4, <4>1 DEF Seats, Beside
    <3>6. FitsHeld(r, held)
      BY <3>5 DEF Admits, ChargeOf
    <3>7. held \in SUBSET Request /\ r \in Request
      BY <1>1, <2>3, <3>2, <3>3 DEF StateTypeOK
    <3>8. S \cup {h} \in SUBSET (held \cup {r})
      BY <2>1, <2>2, <3>3
    <3>9. \A s \in (S \cup {h}) \ {r} : Claim[s].invocation \notin AncestorsOf(r)
      BY <2>6, <2>8 DEF Unrelated
    <3>10. Fits((S \cup {h}) \cup {r})
      BY <3>6, <3>7, <3>8, <3>9, FitsWithOthers
    <3>11. (S \cup {h}) \cup {r} = S \cup {h}
      BY <2>8
    <3>. QED  BY <3>10, <3>11
  <2>. QED  BY <2>4, <2>7, <2>8
<1>. QED  BY <1>2, <1>3 DEF RoomInv

\* However many claims are seated behind a starved head or a waiting gate, in
\* whatever order handlers, wakes and hang-ups seat them and let them go, they fit
\* beside the head together (budget.go:15-17, seatLocked and ahead in gate.go).
THEOREM HeadKeepsRoomAlways == Spec => []HeadKeepsRoom
<1>1. Init => RoomInv
  BY DEF Init, RoomInv, RoomKept
<1>2. TypeOK /\ Accounted /\ Accounted' /\ GatesLead /\ RoomInv /\ [Next]_vars => RoomInv'
  <2>1. ASSUME RoomInv, UNCHANGED vars PROVE RoomInv'
    <3>1. UNCHANGED <<queue, behind, budget, charged>>
      BY <2>1 DEF vars, queueVars, budgetVars
    <3>. QED  BY <2>1, <3>1 DEF RoomInv, RoomKept, Passed, Unrelated, AncestorsOf, Fits,
                                SumSlots, SumMB, SlotsOf
  <2>. QED  BY <2>1, RoomStep DEF Next, Exited
<1>3. TypeOK /\ Accounted /\ RoomInv => HeadKeepsRoom
  <2> SUFFICES ASSUME TypeOK, Accounted, RoomInv, queue # <<>>, SeatedBehind # {}
               PROVE  FitsBeside(queue[1], SeatedBehind)
    BY DEF HeadKeepsRoom
  <2> DEFINE h == queue[1]
  <2>1. h = Head(queue) /\ h \in Elems /\ h \in Request /\ behind \subseteq budget
    BY QueueElements DEF TypeOK, Elems, RoomInv
  <2>2. h \notin SeatedBehind /\ SeatedBehind \subseteq Request
    BY <2>1 DEF SeatedBehind, Accounted, TypeOK
  <2>3. SeatedBehind \in SUBSET Passed /\ Unrelated(SeatedBehind)
    BY <2>1 DEF SeatedBehind, Passed, Unrelated
  <2>4. Fits(SeatedBehind \cup {h})
    BY <2>1, <2>3 DEF RoomInv, RoomKept
  <2> HIDE DEF h
  <2>5. (SeatedBehind \cup {h}) \ {h} = SeatedBehind
    BY <2>2
  <2>6. FitsBeside(h, SeatedBehind)
    BY <2>1, <2>2, <2>4, <2>5, FitsTogether
  <2>. QED  BY <2>6 DEF h
<1>. QED  BY <1>1, <1>2, <1>3, TypeCorrect, AccountedCorrect, GatesLeadCorrect, PTL DEF Spec

-----------------------------------------------------------------------------
(* Validation seats.                                                         *)

\* A seat is for a run its connection asked for, whoever was seated because it asked
\* has one, and beside those a restart seated by force no tree has too many.
SeatsMeant ==
  /\ \A c \in Conn : Capped(c) /\ seat[c] # NoRun =>
       \E r \in Of(c) : Kind[r] # "hold" /\ seat[c] = RunKey(r)
  /\ \A r \in Request :
       st[r] = "granted" /\ Kind[r] \in {"park", "once"} /\ Capped(ReqConn[r])
         => seat[ReqConn[r]] = RunKey(r)
  /\ \A t : t # NoTree => Cardinality(SeatedRuns(t) \ Forced(t)) <= MaxValidations

AskedRuns == {RunKey(r) : r \in Request}

LEMMA RunKeyNamed == ASSUME NEW r \in Request PROVE RunKey(r) # NoRun
  BY BrokerAssumption DEF RunKey

\* The runs seated are among those asked for, and so finitely many.
LEMMA SeatedAsked ==
  ASSUME SeatsMeant, NEW t, t # NoTree
  PROVE  /\ SeatedRuns(t) \subseteq AskedRuns
         /\ IsFiniteSet(AskedRuns)
<1>1. IsFiniteSet(AskedRuns)
  <2> DEFINE f == [r \in Request |-> RunKey(r)]
  <2>1. f \in Surjection(Request, AskedRuns)
    BY DEF Surjection, AskedRuns
  <2>. QED  BY <2>1, BudgetAssumption, FS_Surjection
<1>2. \A c \in Conn : Tree[c] = t /\ seat[c] # NoRun => seat[c] \in AskedRuns
  BY DEF SeatsMeant, Capped, Of, AskedRuns
<1>. QED  BY <1>1, <1>2 DEF SeatedRuns

\* Seats that only lapse, and grants that only end, keep the cap.
LEMMA SeatsLapse ==
  ASSUME StateTypeOK, SeatsMeant,
         \A c \in Conn : seat'[c] \in {seat[c], NoRun},
         \A r \in Request : st'[r] = "granted" /\ Kind[r] \in {"park", "once"}
                            => st[r] = "granted" /\ seat'[ReqConn[r]] = seat[ReqConn[r]]
  PROVE  SeatsMeant'
<1>1. ASSUME NEW t, t # NoTree
      PROVE  Cardinality(SeatedRuns(t)' \ Forced(t)) <= MaxValidations
  <2> DEFINE old == SeatedRuns(t) \ Forced(t)
             new == SeatedRuns(t)' \ Forced(t)
  <2>1. SeatedRuns(t)' \subseteq SeatedRuns(t)
    BY DEF SeatedRuns
  <2>2. new \subseteq old /\ IsFiniteSet(old)
    BY <1>1, <2>1, SeatedAsked, FS_Subset
  <2>3. Cardinality(new) <= Cardinality(old) /\ Cardinality(old) \in Nat /\ Cardinality(new) \in Nat
    BY <2>2, FS_Subset, FS_CardinalityType
  <2>4. Cardinality(old) <= MaxValidations
    BY <1>1 DEF SeatsMeant
  <2>. QED  BY <2>3, <2>4, BrokerAssumption
<1>2. \A c \in Conn : Capped(c) /\ seat'[c] # NoRun =>
       \E r \in Of(c) : Kind[r] # "hold" /\ seat'[c] = RunKey(r)
  BY DEF SeatsMeant
<1>3. \A r \in Request :
       st'[r] = "granted" /\ Kind[r] \in {"park", "once"} /\ Capped(ReqConn[r])
         => seat'[ReqConn[r]] = RunKey(r)
  BY DEF SeatsMeant
<1>. QED  BY <1>1, <1>2, <1>3 DEF SeatsMeant, Capped, Of, RunKey, Run, Forced

\* A seat is taken by r: with a cap there was room for its run, or it is forced.
LEMMA SeatTaken ==
  ASSUME OneRunPerProcess, StateTypeOK, SeatsMeant, NEW r \in Request, Sit(r),
         Kind[r] # "hold", MaySit(r) \/ Kind[r] = "reassert",
         \A q \in Request \ {r} : st'[q] = "granted" => st[q] = "granted"
  PROVE  SeatsMeant'
<1> DEFINE c == ReqConn[r]
           k == RunKey(r)
<1>1. c \in Conn /\ k # NoRun /\ seat \in [Conn -> RunKeys]
  BY BrokerAssumption, RunKeyNamed DEF StateTypeOK
<1>2. CASE ~Capped(c)
  <2>1. seat' = seat
    BY <1>2 DEF Sit
  <2>2. \A t : SeatedRuns(t)' = SeatedRuns(t)
    BY <2>1 DEF SeatedRuns
  <2>3. ASSUME NEW q \in Request, st'[q] = "granted", Kind[q] \in {"park", "once"},
               Capped(ReqConn[q])
        PROVE  seat'[ReqConn[q]] = RunKey(q)
    BY <1>2, <2>1, <2>3 DEF SeatsMeant
  <2>. QED  BY <2>1, <2>2, <2>3 DEF SeatsMeant, Capped, Of, RunKey, Run, Forced
<1>3. CASE Capped(c)
  <2>1. seat[c] # NoRun => seat[c] = k
    BY <1>1, <1>3 DEF SeatsMeant, Of, OneRunPerProcess
  <2>2. seat' = [seat EXCEPT ![c] = k]
    BY <1>1, <1>3, <2>1 DEF Sit
  <2>3. ASSUME NEW d \in Conn, Capped(d), seat'[d] # NoRun
        PROVE  \E q \in Of(d) : Kind[q] # "hold" /\ seat'[d] = RunKey(q)
    BY <1>1, <2>2, <2>3 DEF SeatsMeant, Of
  <2>4. ASSUME NEW q \in Request, st'[q] = "granted", Kind[q] \in {"park", "once"},
               Capped(ReqConn[q])
        PROVE  seat'[ReqConn[q]] = RunKey(q)
    <3>1. CASE ReqConn[q] = c
      <4>1. Kind[q] # "hold" /\ Capped(ReqConn[r])
        BY <1>3, <2>4
      <4>2. RunKey(q) = k
        BY <3>1, <4>1 DEF OneRunPerProcess
      <4>. QED  BY <1>1, <2>2, <3>1, <4>2
    <3>2. CASE ReqConn[q] # c
      BY <1>1, <2>2, <2>4, <3>2 DEF SeatsMeant
    <3>. QED  BY <3>1, <3>2
  <2>5. ASSUME NEW t, t # NoTree
        PROVE  Cardinality(SeatedRuns(t)' \ Forced(t)) <= MaxValidations
    <3> DEFINE old == SeatedRuns(t) \ Forced(t)
               new == SeatedRuns(t)' \ Forced(t)
    <3>1. Cardinality(old) <= MaxValidations
      BY <2>5 DEF SeatsMeant
    <3>2. CASE new = old
      BY <3>1, <3>2
    <3>3. CASE new # old
      <4>1. SeatedRuns(t)' = SeatedRuns(t) \cup {k} /\ Tree[c] = t /\ seat[c] = NoRun
        <5>1. Tree[c] = t /\ seat[c] # k
          <6> SUFFICES ASSUME Tree[c] # t \/ seat[c] = k PROVE SeatedRuns(t)' = SeatedRuns(t)
            BY <3>3
          <6>1. \A d \in Conn : Tree[d] = t => seat'[d] = seat[d]
            BY <1>1, <2>2
          <6>. QED  BY <6>1 DEF SeatedRuns
        <5>2. seat[c] = NoRun
          BY <2>1, <5>1
        <5>. QED  BY <1>1, <2>2, <5>1, <5>2 DEF SeatedRuns
      <4>2. k \notin Forced(t)
        BY <3>3, <4>1
      <4>3. MaySit(r)
        BY <4>1, <4>2 DEF Forced
      <4> DEFINE others == SeatedRuns(t) \ {k}
      <4>4. Cardinality(others) < MaxValidations
        BY <1>3, <4>1, <4>3 DEF MaySit
      <4>5. IsFiniteSet(others)
        BY <2>5, SeatedAsked, FS_Subset
      <4>6. IsFiniteSet(others \cup {k}) /\ Cardinality(others \cup {k}) = Cardinality(others) + 1
        <5>1. k \notin others
          OBVIOUS
        <5>. QED  BY <4>5, <5>1, FS_AddElement
      <4>7. new \subseteq others \cup {k}
        BY <4>1
      <4>8. Cardinality(new) <= Cardinality(others \cup {k}) /\ IsFiniteSet(new)
        BY <4>6, <4>7, FS_Subset
      <4>9. Cardinality(others) \in Nat /\ Cardinality(new) \in Nat /\ MaxValidations \in Nat
        BY <4>5, <4>8, FS_CardinalityType, BrokerAssumption
      <4> HIDE DEF new, others
      <4>10. Cardinality(new) <= MaxValidations
        BY <4>4, <4>6, <4>8, <4>9
      <4>. QED  BY <4>10 DEF new
    <3>. QED  BY <3>2, <3>3
  <2>. QED  BY <2>3, <2>4, <2>5 DEF SeatsMeant, Capped, Of, RunKey, Run, Forced
<1>. QED  BY <1>2, <1>3

\* A try that may sit sits; one that may not seats nobody.
LEMMA TrySeats ==
  ASSUME OneRunPerProcess, StateTypeOK, SeatsMeant, NEW r \in Request, TrySit(r),
         Kind[r] # "hold",
         \A q \in Request \ {r} : st'[q] = "granted" => st[q] = "granted",
         st'[r] = "granted" => MaySit(r) \/ st[r] = "granted"
  PROVE  SeatsMeant'
<1>1. CASE MaySit(r)
  BY <1>1, SeatTaken DEF TrySit
<1>2. CASE ~MaySit(r)
  <2>1. seat' = seat /\ \A q \in Request : st'[q] = "granted" => st[q] = "granted"
    BY <1>2 DEF TrySit
  <2>. QED  BY <2>1, SeatsLapse
<1>. QED  BY <1>1, <1>2

LEMMA SeatsStep ==
  ASSUME OneRunPerProcess, StateTypeOK, QueueAccounted, OnlyParkedWait, SeatsMeant,
         System \/ Environment
  PROVE  SeatsMeant'
<1> USE DEF reqVars, budgetVars, queueVars, connVars, muVars, serveVars
<1>1. st \in [Request -> ReqState] /\ \A i \in 1..Len(queue) : queue[i] \in Request
  BY QueueElements DEF StateTypeOK
<1>2. ASSUME UNCHANGED seat, \A q \in Request : st'[q] = "granted" => st[q] = "granted"
      PROVE  SeatsMeant'
  BY <1>2, SeatsLapse
<1>3. ASSUME NEW r \in Request, Park(r) PROVE SeatsMeant'
  <2>1. /\ TrySit(r)
        /\ \/ Seats(r, Ahead(r, UnderGate(r), FALSE)) /\ Answer(r, "granted")
           \/ Answer(r, "over") \/ Answer(r, "parked")
    BY <1>3 DEF Park
  <2>. QED  BY <1>1, <1>3, <2>1, TrySeats DEF Seats, Answer, Park, Arrived
<1>4. ASSUME NEW r \in Request, Once(r) PROVE SeatsMeant'
  <2>1. /\ TrySit(r)
        /\ \/ Seats(r, Ahead(r, UnderGate(r), TRUE)) /\ Answer(r, "granted")
           \/ Answer(r, "over")
    BY <1>4 DEF Once
  <2>. QED  BY <1>1, <1>4, <2>1, TrySeats DEF Seats, Answer, Once, Arrived
<1>5. CASE JudgeNext
  <2> DEFINE r == queue[cursor]
  <2>1. r \in Request /\ Kind[r] # "hold"
    <3>1. cursor \in 1..Len(queue)
      BY <1>5, QueueElements DEF JudgeNext, StateTypeOK
    <3>2. r \in Elems
      BY <3>1 DEF Elems
    <3>3. r \in Request /\ st[r] = "parked"
      BY <3>2 DEF QueueAccounted
    <3>. QED  BY <3>3 DEF OnlyParkedWait
  <2>2. /\ TrySit(r)
        /\ \/ Seats(r, Ahead(r, r \in gate, cursor = 1)) /\ Answer(r, "granted")
           \/ Answer(r, "over") \/ UNCHANGED st
    BY <1>5 DEF JudgeNext
  <2> HIDE DEF r
  <2>. QED  BY <1>1, <2>1, <2>2, TrySeats DEF Seats, Answer
<1>6. ASSUME NEW r \in Request, Reassert(r) PROVE SeatsMeant'
  BY <1>1, <1>6, SeatTaken DEF Reassert, Arrived, Answer
<1>7. ASSUME NEW r \in Request, Hold(r) PROVE SeatsMeant'
  BY <1>1, <1>7, SeatsLapse DEF Hold, Arrived, Answer
<1>8. ASSUME NEW c \in Conn, Forget(c) PROVE SeatsMeant'
  <2>1. \A d \in Conn : seat'[d] \in {seat[d], NoRun} /\ (d # c => seat'[d] = seat[d])
    BY <1>8 DEF Forget, StateTypeOK
  <2>2. \A q \in Request : st'[q] = "granted" => st[q] = "granted" /\ ReqConn[q] # c
    BY <1>8 DEF Forget
  <2>. QED  BY <2>1, <2>2, SeatsLapse, BrokerAssumption
<1>9. ASSUME NEW r \in Request, TurnAway(r) \/ Free(r) \/ FreeClosed(r) \/ Release(r)
      PROVE  SeatsMeant'
  BY <1>1, <1>2, <1>9 DEF TurnAway, Free, FreeClosed, Release, Answer
<1>10. ASSUME NEW r \in Request, Cancel(r) \/ LoseFrame(r) \/ Send(r) \/ SendCancel(r)
       PROVE  SeatsMeant'
  BY <1>1, <1>2, <1>10 DEF Cancel, LoseFrame, Send, SendCancel, Answer
<1>11. ASSUME NEW c \in Conn, DropParked(c) PROVE SeatsMeant'
  <2>1. PICK i \in 1..Len(queue) : Answer(queue[i], "over")
    BY <1>11 DEF DropParked
  <2>. QED  BY <1>1, <1>2, <1>11, <2>1 DEF DropParked, Answer
<1>12. ASSUME NEW c \in Conn, EndForget(c) \/ BeginWake(c) \/ HangUp(c) PROVE SeatsMeant'
  BY <1>2, <1>12 DEF EndForget, BeginWake, HangUp
<1>13. CASE EndWake \/ Closing \/ StartDrain \/ Stop
  BY <1>2, <1>13 DEF EndWake, Closing, RefuseParked, CountHeld, NoticeRelease, BeginClose,
                     CloseConns, Exit, StartDrain, Stop
<1>. QED
  BY <1>3, <1>4, <1>5, <1>6, <1>7, <1>8, <1>9, <1>10, <1>11, <1>12, <1>13
     DEF System, Environment, Handler, Forgets, Wake

\* Seats are taken by whom they are for, and lapse with a connection (seatLocked).
LEMMA SeatsMeantAlways == ASSUME OneRunPerProcess PROVE Spec => []SeatsMeant
<1>1. Init => SeatsMeant
  <2> SUFFICES ASSUME Init PROVE SeatsMeant
    OBVIOUS
  <2>1. ASSUME NEW t PROVE Cardinality(SeatedRuns(t) \ Forced(t)) <= MaxValidations
    <3>1. SeatedRuns(t) \ Forced(t) = {}
      BY DEF Init, SeatedRuns
    <3>2. Cardinality({}) = 0 /\ 0 <= MaxValidations
      BY FS_EmptySet, BrokerAssumption
    <3>. QED  BY <3>1, <3>2
  <2>. QED  BY <2>1, BrokerAssumption DEF Init, SeatsMeant
<1>2. TypeOK /\ Accounted /\ OnlyParkedWait /\ SeatsMeant /\ [Next]_vars => SeatsMeant'
  <2>1. ASSUME TypeOK, SeatsMeant, UNCHANGED vars PROVE SeatsMeant'
    <3>1. seat' = seat /\ st' = st
      BY <2>1 DEF vars, connVars, reqVars
    <3>. QED  BY <2>1, <3>1, SeatsLapse DEF TypeOK
  <2>2. TypeOK /\ Accounted => StateTypeOK /\ QueueAccounted
    BY DEF TypeOK, Accounted, QueueAccounted, NoDuplicate
  <2>. QED  BY <2>1, <2>2, SeatsStep DEF Next, Exited
<1>. QED
  BY <1>1, <1>2, TypeCorrect, AccountedCorrect, OnlyParkedWaitAlways, PTL DEF Spec

\* Never more runs of a job tree validate at once than its cap, those a restart
\* seated by force aside, through every wait, wake and hang-up and for any number
\* of trees and connections (seatLocked, owner.go:467).
THEOREM ValidationsCappedAlways == ASSUME OneRunPerProcess PROVE Spec => []ValidationsCapped
<1>1. Spec => []SeatsMeant
  BY SeatsMeantAlways
<1>2. SeatsMeant => ValidationsCapped
  <2> SUFFICES ASSUME SeatsMeant, NEW t, t # NoTree
               PROVE  Cardinality(RunsOf(t, {"park", "once"}) \ Forced(t)) <= MaxValidations
    BY DEF ValidationsCapped
  <2> DEFINE runs == RunsOf(t, {"park", "once"}) \ Forced(t)
             held == SeatedRuns(t) \ Forced(t)
  <2>1. runs \subseteq held
    <3>1. ASSUME NEW r \in Request, Tree[ReqConn[r]] = t, Kind[r] \in {"park", "once"},
                 st[r] = "granted"
          PROVE  RunKey(r) \in SeatedRuns(t)
      BY <3>1, RunKeyNamed, BrokerAssumption DEF SeatsMeant, Capped, SeatedRuns
    <3>. QED  BY <3>1 DEF RunsOf
  <2>2. IsFiniteSet(held)
    BY SeatedAsked, FS_Subset
  <2>3. Cardinality(held) <= MaxValidations
    BY DEF SeatsMeant
  <2>4. IsFiniteSet(runs) /\ Cardinality(runs) <= Cardinality(held)
    BY <2>1, <2>2, FS_Subset
  <2>5. Cardinality(runs) \in Nat /\ Cardinality(held) \in Nat /\ MaxValidations \in Nat
    BY <2>2, <2>4, FS_CardinalityType, BrokerAssumption
  <2> HIDE DEF runs, held
  <2>6. Cardinality(runs) <= MaxValidations
    BY <2>3, <2>4, <2>5 DEF held
  <2>. QED  BY <2>6 DEF runs
<1>. QED  BY <1>1, <1>2, PTL

-----------------------------------------------------------------------------
(* No wake is lost.                                                          *)

\* What a parked request is judged behind: the head, when it keeps its room from it.
KeptAhead(r) ==
  IF /\ queue # <<>> /\ r # Head(queue)
     /\ Starved(Head(queue)) \/ (Head(queue) \in gate /\ r \notin gate)
  THEN {Head(queue)} ELSE {}

HeldAgainst(r) == Beside(KeptAhead(r))

\* The broker would not seat r beside held; strictly, not on a free seat either.
NoRoom(r, held, strict) ==
  MaySit(r) => /\ FitsAlone(r)
               /\ ~FitsHeld(r, held)
               /\ strict => FreeSeats(r, held) = {}

LEMMA AheadInQueue ==
  ASSUME StateTypeOK, NoDuplicate, GatesLead, NEW i \in 1..Len(queue)
  PROVE  Ahead(queue[i], queue[i] \in gate, i = 1) = KeptAhead(queue[i])
<1> DEFINE r == queue[i]
           h == queue[1]
<1>1. Len(queue) \in Nat /\ 1 \in 1..Len(queue) /\ queue # <<>> /\ Head(queue) = h
  BY QueueElements
<1>2. i = 1 <=> r = h
  BY <1>1 DEF NoDuplicate
<1>3. StarvedHead = IF Starved(h) THEN {h} ELSE {}
  BY <1>1 DEF StarvedHead
<1>4. CASE r \in gate
  BY <1>1, <1>2, <1>3, <1>4 DEF Ahead, KeptAhead
<1>5. CASE r \notin gate /\ h \in gate
  <2>1. FirstGate(r) = {h}
    BY <1>1, <1>5 DEF FirstGate
  <2>. QED  BY <1>1, <1>5, <2>1 DEF Ahead, KeptAhead
<1>6. CASE r \notin gate /\ h \notin gate
  <2>1. FirstGate(r) = {}
    BY <1>1, <1>6 DEF FirstGate, GatesLead
  <2>. QED  BY <1>1, <1>2, <1>3, <1>6, <2>1 DEF Ahead, KeptAhead
<1>. QED  BY <1>4, <1>5, <1>6

LEMMA AheadArriving ==
  ASSUME StateTypeOK, GatesLead, NEW r \in Request, r \notin Elems, NEW isGate \in BOOLEAN
  PROVE  Ahead(r, isGate, FALSE) =
           IF /\ queue # <<>>
              /\ Starved(Head(queue)) \/ (Head(queue) \in gate /\ ~isGate)
           THEN {Head(queue)} ELSE {}
<1> DEFINE h == queue[1]
<1>1. CASE queue = <<>>
  <2>1. FirstGate(r) = {} /\ StarvedHead = {}
    BY <1>1 DEF FirstGate, StarvedHead
  <2>. QED  BY <1>1, <2>1 DEF Ahead
<1>2. CASE queue # <<>>
  <2>1. Len(queue) \in Nat /\ 1 \in 1..Len(queue) /\ Head(queue) = h /\ h # r
    BY <1>2, QueueElements DEF Elems
  <2>2. StarvedHead = IF Starved(h) THEN {h} ELSE {}
    BY <1>2, <2>1 DEF StarvedHead
  <2>3. CASE h \in gate
    <3>1. FirstGate(r) = {h}
      BY <2>1, <2>3 DEF FirstGate
    <3>. QED  BY <1>2, <2>1, <2>2, <2>3, <3>1 DEF Ahead
  <2>4. CASE h \notin gate
    <3>1. FirstGate(r) = {}
      BY <2>1, <2>4 DEF FirstGate, GatesLead
    <3>. QED  BY <1>2, <2>1, <2>2, <2>4, <3>1 DEF Ahead
  <2>. QED  BY <2>3, <2>4
<1>. QED  BY <1>1, <1>2

\* What did not fit does not fit beside more.
LEMMA MoreFitsNot ==
  ASSUME NEW r \in Request, NEW G \in SUBSET Request, NEW H \in SUBSET G, ~FitsHeld(r, H)
  PROVE  ~FitsHeld(r, G)
<1>1. H \ Excused(r, H) \in SUBSET (G \ Excused(r, G)) /\ G \ Excused(r, G) \in SUBSET Request
  BY DEF Excused
<1>2. FitsBeside(r, G \ Excused(r, G)) => FitsBeside(r, H \ Excused(r, H))
  BY <1>1, FewerFit
<1>. QED  BY <1>2 DEF FitsHeld

\* More claims give no free seat, unless one is the first of an ancestor's.
LEMMA MoreSeatsNot ==
  ASSUME NEW r \in Request, NEW G \in SUBSET Request, NEW H \in SUBSET G,
         FreeSeats(r, H) = {},
         \A a \in AncestorsOf(r) \ Wrapper : \A q \in G \ H :
           Claim[q].invocation = a => \E p \in H : Claim[p].invocation = a
  PROVE  FreeSeats(r, G) = {}
<1> SUFFICES ASSUME NEW a \in FreeSeats(r, G) PROVE a \in FreeSeats(r, H)
  OBVIOUS
<1>1. PICK q \in G : Claim[q].invocation \notin Wrapper /\ Claim[q].invocation = a
  BY DEF FreeSeats
<1>2. a \in AncestorsOf(r) \ Wrapper
  BY <1>1 DEF FreeSeats
<1>3. PICK p \in H : Claim[p].invocation = a
  BY <1>1, <1>2
<1>4. \A s \in G : Claim[s].invocation \notin Wrapper => a \notin AncestorsOf(s)
  BY DEF FreeSeats
<1>. QED  BY <1>2, <1>3, <1>4 DEF FreeSeats

\* Who had no room has none once more is held, and it may not sit where it might not.
LEMMA StillNoRoom ==
  ASSUME NEW q \in Request, NEW strict \in BOOLEAN,
         NEW H \in SUBSET Request, NoRoom(q, H, strict), MaySit(q)' => MaySit(q),
         NEW G \in SUBSET Request, G = HeldAgainst(q)', H \subseteq G,
         strict => \A a \in AncestorsOf(q) \ Wrapper : \A p \in G \ H :
                     Claim[p].invocation = a => \E s \in H : Claim[s].invocation = a
  PROVE  NoRoom(q, HeldAgainst(q), strict)'
<1>1. MaySit(q)' => FitsAlone(q) /\ ~FitsHeld(q, G) /\ (strict => FreeSeats(q, G) = {})
  BY MoreFitsNot, MoreSeatsNot DEF NoRoom
<1>. QED
  BY <1>1 DEF NoRoom, FitsAlone, FitsHeld, FitsBeside, FreeSeats, Excused, AncestorsOf,
              SumSlots, SumMB, SlotsOf

\* A seat taken by one run is in the way of the others: nobody may sit who might not.
LEMMA SitsOnly ==
  ASSUME OneRunPerProcess, StateTypeOK, SeatsMeant, NEW r \in Request, TrySit(r),
         Kind[r] # "hold", NEW q \in Request, Kind[q] # "hold", MaySit(q)'
  PROVE  MaySit(q)
<1> DEFINE c == ReqConn[q]
           d == ReqConn[r]
<1>1. c \in Conn /\ d \in Conn /\ seat \in [Conn -> RunKeys]
  BY BrokerAssumption DEF StateTypeOK
<1>2. CASE ~MaySit(r)
  <2>1. seat' = seat
    BY <1>2 DEF TrySit
  <2>. QED  BY <2>1 DEF MaySit, Capped, SeatedRuns, RunKey, Run
<1>3. CASE ~Capped(c)
  BY <1>3 DEF MaySit
<1>4. CASE MaySit(r) /\ Capped(c)
  <2>1. seat' = IF Capped(d) /\ seat[d] = NoRun THEN [seat EXCEPT ![d] = RunKey(r)] ELSE seat
    BY <1>4 DEF TrySit, Sit
  <2>2. CASE seat[c] # NoRun
    BY <2>2 DEF MaySit
  <2>3. CASE seat[c] = NoRun /\ seat'[c] # NoRun
    <3>1. d = c
      BY <1>1, <2>1, <2>3
    <3>2. RunKey(q) = RunKey(r)
      BY <1>4, <3>1 DEF OneRunPerProcess
    <3>. QED  BY <1>4, <3>1, <3>2 DEF MaySit
  <2>4. CASE seat[c] = NoRun /\ seat'[c] = NoRun
    <3> DEFINE old == SeatedRuns(Tree[c]) \ {RunKey(q)}
               new == SeatedRuns(Tree[c])' \ {RunKey(q)}
    <3>1. Cardinality(new) < MaxValidations
      BY <1>4, <2>4 DEF MaySit, Capped, RunKey, Run
    <3>2. \A e \in Conn : seat[e] # NoRun => seat'[e] = seat[e]
      BY <1>1, <2>1
    <3>3. old \subseteq new
      BY <3>2 DEF SeatedRuns
    <3>4. IsFiniteSet(new)
      <4>1. new \subseteq AskedRuns /\ IsFiniteSet(AskedRuns)
        <5>1. SeatedRuns(Tree[c]) \subseteq AskedRuns /\ IsFiniteSet(AskedRuns)
          BY <1>4, SeatedAsked DEF Capped
        <5>2. \A e \in Conn : seat'[e] = seat[e] \/ seat'[e] = RunKey(r)
          BY <1>1, <2>1
        <5>. QED  BY <5>1, <5>2 DEF SeatedRuns, AskedRuns
      <4>. QED  BY <4>1, FS_Subset
    <3>5. /\ Cardinality(old) <= Cardinality(new)
          /\ Cardinality(old) \in Nat /\ Cardinality(new) \in Nat /\ MaxValidations \in Nat
      BY <3>3, <3>4, FS_Subset, FS_CardinalityType, BrokerAssumption
    <3> HIDE DEF old, new
    <3>6. Cardinality(old) < MaxValidations
      BY <3>1, <3>5
    <3>. QED  BY <3>6 DEF MaySit, old
  <2>. QED  BY <2>2, <2>3, <2>4
<1>. QED  BY <1>2, <1>3, <1>4

\* Someone is still to wake the queue: a goroutine, the release of a claim its session
\* has let go of, or a hang-up that holds s.mu.
WakeDue ==
  \/ \E c \in Conn : owed[c] > 0
  \/ \E r \in Request : st[r] = "unlinked"
  \/ ~MuFree /\ conn[mu] = "leaving"

\* The requests a wake that holds s.mu has yet to try.
Unjudged == IF MuFree THEN {} ELSE {queue[i] : i \in cursor..Len(queue)}

Judged(strict) == \A r \in Elems \ Unjudged : NoRoom(r, HeldAgainst(r), strict)

WakeInv(strict) == WakeDue \/ (MuFree /\ StarvedBehindGate) \/ Judged(strict)

\* A wake starts at the head of the queue.
CursorStarts == MuFree \/ conn[mu] = "leaving" => cursor = 1

LEMMA CursorStep ==
  ASSUME StateTypeOK, CursorStarts, System \/ Environment
  PROVE  CursorStarts'
<1> USE DEF reqVars, budgetVars, queueVars, connVars, muVars, serveVars
<1>1. ASSUME UNCHANGED <<mu, cursor>>,
             \A c \in Conn : conn'[c] = "leaving" => conn[c] = "leaving"
      PROVE  CursorStarts'
  BY <1>1 DEF CursorStarts, MuFree, StateTypeOK
<1>2. ASSUME NEW r \in Request, Handler(r) \/ Cancel(r) \/ Free(r) \/ LoseFrame(r)
                                \/ Release(r) \/ SendCancel(r)
      PROVE  CursorStarts'
  <2>1. UNCHANGED <<mu, cursor, conn>>
    BY <1>2 DEF Handler, TurnAway, Park, Once, Reassert, Hold, Cancel, Free, LoseFrame,
                Release, SendCancel
  <2>. QED  BY <1>1, <2>1
<1>3. ASSUME NEW r \in Request, FreeClosed(r) \/ Send(r) PROVE CursorStarts'
  BY <1>1, <1>3 DEF FreeClosed, Send, StateTypeOK
<1>4. ASSUME NEW c \in Conn, HangUp(c) PROVE CursorStarts'
  BY <1>1, <1>4 DEF HangUp, StateTypeOK
<1>5. ASSUME NEW c \in Conn, Forget(c) PROVE CursorStarts'
  BY <1>5 DEF Forget, CursorStarts, MuFree
<1>6. ASSUME NEW c \in Conn, DropParked(c) PROVE CursorStarts'
  BY <1>1, <1>6 DEF DropParked
<1>7. ASSUME NEW c \in Conn, EndForget(c) PROVE CursorStarts'
  BY <1>7 DEF EndForget, CursorStarts
<1>8. ASSUME NEW c \in Conn, BeginWake(c) PROVE CursorStarts'
  BY <1>8 DEF BeginWake, CursorStarts
<1>9. CASE JudgeNext
  BY <1>9 DEF JudgeNext, Waking, CursorStarts, MuFree
<1>10. CASE EndWake
  BY <1>10 DEF EndWake, CursorStarts
<1>11. CASE CloseConns
  BY <1>1, <1>11 DEF CloseConns, StateTypeOK
<1>12. CASE \/ RefuseParked \/ CountHeld \/ NoticeRelease \/ BeginClose \/ Exit
            \/ StartDrain \/ Stop
  BY <1>1, <1>12 DEF RefuseParked, CountHeld, NoticeRelease, BeginClose, Exit, StartDrain, Stop
<1>. QED
  BY <1>2, <1>3, <1>4, <1>5, <1>6, <1>7, <1>8, <1>9, <1>10, <1>11, <1>12
     DEF System, Environment, Forgets, Wake, Closing

\* What frees room leaves a wake due, and so does what a wake was due for: only a wake
\* that begins has no other to wait for.
LEMMA FreeingOwes ==
  ASSUME StateTypeOK, QueueAccounted, System \/ Environment,
         ~\E c \in Conn : BeginWake(c),
         \/ WakeDue
         \/ \E r \in Request : \/ Reassert(r) \/ Free(r) \/ FreeClosed(r)
                               \/ Cancel(r) /\ st[r] = "parked"
         \/ \E c \in Conn : Forgets(c)
  PROVE  WakeDue'
<1> USE DEF reqVars, budgetVars, queueVars, connVars, muVars, serveVars
<1>1. /\ st \in [Request -> ReqState] /\ owed \in [Conn -> Nat] /\ mu \in Conn \cup {NoConn}
      /\ \A r \in Request : ReqConn[r] \in Conn
      /\ \A r \in Elems : st[r] = "parked"
  BY BrokerAssumption DEF StateTypeOK, QueueAccounted
<1>2. ASSUME NEW c \in Conn, owed'[c] > 0 PROVE WakeDue'
  BY <1>2 DEF WakeDue
<1>3. ASSUME NEW r \in Request, Reassert(r) \/ Free(r) \/ (Cancel(r) /\ st[r] = "parked")
      PROVE  WakeDue'
  BY <1>1, <1>2, <1>3 DEF Reassert, Free, noteRelease, Cancel, WakeAsCancelled, OweWake
<1>4. ASSUME NEW r \in Request, FreeClosed(r) PROVE WakeDue'
  <2> DEFINE c == ReqConn[r]
  <2>1. CASE \A q \in Of(c) \ {r} : st[q] # "unlinked"
    <3>1. owed'[c] = owed[c] + 2 /\ owed[c] \in Nat
      BY <1>1, <1>4, <2>1 DEF FreeClosed
    <3>. QED  BY <1>1, <1>2, <3>1
  <2>2. ASSUME NEW q \in Of(c) \ {r}, st[q] = "unlinked" PROVE WakeDue'
    <3>1. q \in Request /\ st'[q] = "unlinked"
      BY <1>1, <1>4, <2>2 DEF FreeClosed, Answer, Of
    <3>. QED  BY <3>1 DEF WakeDue
  <2>. QED  BY <2>1, <2>2
<1>5. ASSUME NEW c \in Conn, EndForget(c) PROVE WakeDue'
  <2>1. CASE HasClaims(c)
    BY <1>5, <2>1 DEF EndForget, HasClaims, Of, WakeDue
  <2>2. CASE ~HasClaims(c)
    BY <1>1, <1>2, <1>5, <2>2 DEF EndForget, WakeAsForgotten, OweWake
  <2>. QED  BY <2>1, <2>2
<1>6. ASSUME NEW c \in Conn, Forget(c) PROVE WakeDue'
  <2>1. mu' = c /\ c # NoConn /\ conn'[c] = "leaving"
    BY <1>6, BrokerAssumption DEF Forget, StateTypeOK
  <2>. QED  BY <2>1 DEF WakeDue, MuFree
<1>7. ASSUME NEW c \in Conn, DropParked(c) PROVE WakeDue'
  <2>1. mu' = c /\ c # NoConn /\ conn'[c] = "leaving"
    BY <1>7, BrokerAssumption DEF DropParked, StateTypeOK
  <2>. QED  BY <2>1 DEF WakeDue, MuFree
<1>8. ASSUME WakeDue,
             \A c \in Conn : owed[c] > 0 => owed'[c] > 0,
             \A r \in Request : st[r] = "unlinked" => st'[r] = "unlinked",
             ~MuFree /\ conn[mu] = "leaving" => mu' = mu /\ conn'[mu] = "leaving"
      PROVE  WakeDue'
  BY <1>1, <1>8 DEF WakeDue, MuFree
<1>9. ASSUME WakeDue, UNCHANGED <<owed, conn, mu>>,
             \A r \in Request : st[r] = "unlinked" => st'[r] = "unlinked"
      PROVE  WakeDue'
  BY <1>9 DEF WakeDue, MuFree
<1>10. ASSUME WakeDue, NEW r \in Request,
              TurnAway(r) \/ Hold(r) \/ Release(r) \/ LoseFrame(r) \/ SendCancel(r)
              \/ (Cancel(r) /\ st[r] # "parked")
       PROVE  WakeDue'
  BY <1>1, <1>9, <1>10 DEF TurnAway, Hold, Release, LoseFrame, SendCancel, Cancel, Answer,
                           Arrived
<1>11. ASSUME WakeDue, NEW r \in Request, Park(r) \/ Once(r) PROVE WakeDue'
  <2>1. /\ UNCHANGED <<conn, mu>> /\ st[r] = "sent"
        /\ \E how : Answer(r, how)
        /\ UNCHANGED owed \/ OweWake(ReqConn[r])
    BY <1>11 DEF Park, Once, Arrived
  <2>2. \A c \in Conn : owed[c] > 0 => owed'[c] > 0
    BY <1>1, <2>1 DEF OweWake
  <2>3. \A q \in Request : st[q] = "unlinked" => st'[q] = "unlinked"
    BY <1>1, <2>1 DEF Answer
  <2>. QED  BY <1>8, <1>11, <2>1, <2>2, <2>3
<1>12. ASSUME WakeDue, NEW r \in Request, Send(r) PROVE WakeDue'
  BY <1>1, <1>8, <1>12 DEF Send, MuFree, StateTypeOK
<1>13. ASSUME WakeDue, NEW c \in Conn, HangUp(c) PROVE WakeDue'
  BY <1>1, <1>8, <1>13 DEF HangUp, MuFree, StateTypeOK
<1>14. CASE WakeDue /\ JudgeNext
  <2>1. queue[cursor] \in Elems /\ queue[cursor] \in Request
    BY <1>14, QueueElements DEF JudgeNext, Elems, StateTypeOK
  <2>2. UNCHANGED st \/ \E how : Answer(queue[cursor], how)
    BY <1>14 DEF JudgeNext
  <2>3. \A q \in Request : st[q] = "unlinked" => st'[q] = "unlinked"
    BY <1>1, <2>1, <2>2 DEF Answer
  <2>. QED  BY <1>9, <1>14, <2>3 DEF JudgeNext
<1>15. CASE WakeDue /\ EndWake
  BY <1>1, <1>8, <1>15 DEF EndWake, Waking
<1>16. CASE WakeDue /\ RefuseParked
  BY <1>1, <1>9, <1>16 DEF RefuseParked
<1>17. CASE WakeDue /\ CloseConns
  BY <1>1, <1>8, <1>17 DEF CloseConns, MuFree, StateTypeOK
<1>18. CASE WakeDue /\ (\/ CountHeld \/ NoticeRelease \/ BeginClose \/ Exit
                        \/ StartDrain \/ Stop)
  BY <1>9, <1>18 DEF CountHeld, NoticeRelease, BeginClose, Exit, StartDrain, Stop
<1>. QED
  BY <1>3, <1>4, <1>5, <1>6, <1>7, <1>10, <1>11, <1>12, <1>13, <1>14, <1>15, <1>16, <1>17, <1>18
     DEF System, Environment, Handler, Forgets, Wake, Closing

\* A head that keeps its room from r is still the head once r is parked, unless r is a
\* gate and the head is none.
LEMMA HeadStays ==
  ASSUME StateTypeOK, queue # <<>>, NEW r \in Request, r \notin Elems,
         NEW isGate \in BOOLEAN, Enqueue(r, isGate),
         Starved(Head(queue)) \/ Head(queue) \in gate,
         Head(queue) \in gate \/ ~isGate
  PROVE  /\ queue' # <<>> /\ Head(queue') = Head(queue)
         /\ Starved(Head(queue)) => overtaken'[Head(queue)] >= MaxOvertakes
         /\ Head(queue) \in gate <=> Head(queue) \in gate'
<1> DEFINE h  == Head(queue)
           at == Place(r, isGate)
<1>1. Len(queue) \in Nat /\ 1 \in 1..Len(queue) /\ h = queue[1] /\ h \in Request /\ h # r
  BY QueueElements DEF Elems
<1>2. at # 1
  <2>1. CASE isGate
    <3>1. h \in gate
      BY <2>1
    <3>2. at <= Len(queue) => queue[at] \notin gate
      BY <2>1, PlaceProperties
    <3> HIDE DEF at
    <3>. QED  BY <1>1, <3>1, <3>2
  <2>2. CASE ~isGate
    <3>1. Holds(h, r)
      BY DEF Holds
    <3>. QED  BY <1>1, <2>2, <3>1, PlaceProperties
  <2>. QED  BY <2>1, <2>2
<1>3. /\ at \in 1..(Len(queue) + 1) /\ Len(queue') = Len(queue) + 1
      /\ \A i \in 1..(Len(queue) + 1) :
           queue'[i] = IF i < at THEN queue[i] ELSE IF i = at THEN r ELSE queue[i - 1]
  BY EnqueueShape
<1> HIDE DEF at
<1>4. Len(queue') \in Nat /\ Len(queue') > 0 /\ queue'[1] = h
  BY <1>1, <1>2, <1>3
<1>5. queue' # <<>> /\ Head(queue') = queue'[1]
  <2>1. queue' \in Seq(Request)
    BY EnqueueType
  <2>. QED  BY <1>4, <2>1, EmptySeq
<1>6. Starved(h) => overtaken'[h] >= MaxOvertakes
  <2>1. overtaken'[h] \in {overtaken[h], overtaken[h] + 1} /\ overtaken[h] \in Nat
    BY <1>1 DEF Enqueue, StateTypeOK
  <2>. QED  BY <2>1, BrokerAssumption DEF Starved
<1>7. h \in gate <=> h \in gate'
  BY <1>1 DEF Enqueue
<1>. QED  BY <1>4, <1>5, <1>6, <1>7

\* A request that waits was judged behind what it is parked behind, and those before it
\* are judged behind no less; but a gate takes a starved head's place.
LEMMA ParkedAhead ==
  ASSUME StateTypeOK, QueueAccounted, GatesLead, MarksQueued,
         NEW r \in Request, r \notin Elems, NEW isGate \in BOOLEAN, Enqueue(r, isGate)
  PROVE  \/ StarvedBehindGate'
         \/ /\ Ahead(r, isGate, FALSE) \subseteq KeptAhead(r)'
            /\ \A q \in Elems : KeptAhead(q) \subseteq KeptAhead(q)'
<1> DEFINE h == Head(queue)
<1>1. Elems' = Elems \cup {r}
  BY EnqueueElements DEF QueueAccounted
<1>2. queue # <<>> => h \in Elems /\ h # r /\ h \in Request
  BY QueueElements DEF Elems
<1>3. gate' = (IF isGate THEN gate \cup {r} ELSE gate) /\ r \notin gate
  BY DEF Enqueue, MarksQueued
<1>4. CASE queue = <<>>
  <2>1. Ahead(r, isGate, FALSE) = {} /\ \A q : KeptAhead(q) = {}
    BY <1>4, AheadArriving DEF KeptAhead
  <2>. QED  BY <2>1
<1>5. CASE queue # <<>> /\ Starved(h) /\ h \notin gate /\ isGate
  <2>1. h \in Elems' \ gate' /\ gate' # {}
    BY <1>1, <1>2, <1>3, <1>5
  <2>2. overtaken'[h] >= MaxOvertakes
    <3>1. overtaken'[h] = overtaken[h]
      BY <1>2, <1>5 DEF Enqueue
    <3>. QED  BY <1>5, <3>1 DEF Starved
  <2> HIDE DEF h
  <2>. QED  BY <2>1, <2>2 DEF StarvedBehindGate, Starved
<1>6. CASE queue # <<>> /\ ~(Starved(h) \/ h \in gate)
  <2>1. Ahead(r, isGate, FALSE) = {} /\ \A q : KeptAhead(q) = {}
    BY <1>6, AheadArriving DEF KeptAhead
  <2>. QED  BY <2>1
<1>7. CASE queue # <<>> /\ (Starved(h) \/ h \in gate) /\ (h \in gate \/ ~isGate)
  <2>1. /\ queue' # <<>> /\ Head(queue') = h
        /\ Starved(h) => overtaken'[h] >= MaxOvertakes
        /\ h \in gate <=> h \in gate'
    BY <1>7, HeadStays
  <2>2. ASSUME NEW q, q # h, Starved(h) \/ (h \in gate /\ q \notin gate')
        PROVE  h \in KeptAhead(q)'
    BY <2>1, <2>2 DEF KeptAhead, Starved
  <2>3. Ahead(r, isGate, FALSE) \subseteq KeptAhead(r)'
    <3>1. CASE Starved(h) \/ (h \in gate /\ ~isGate)
      <4>1. Ahead(r, isGate, FALSE) = {h}
        BY <1>7, <3>1, AheadArriving
      <4>2. h \in KeptAhead(r)'
        BY <1>2, <1>3, <1>7, <2>2, <3>1
      <4>. QED  BY <4>1, <4>2
    <3>2. CASE ~(Starved(h) \/ (h \in gate /\ ~isGate))
      BY <3>2, AheadArriving
    <3>. QED  BY <3>1, <3>2
  <2>4. ASSUME NEW q \in Elems PROVE KeptAhead(q) \subseteq KeptAhead(q)'
    <3>1. CASE q # h /\ (Starved(h) \/ (h \in gate /\ q \notin gate))
      <4>1. q \notin gate => q \notin gate'
        BY <1>3
      <4>2. h \in KeptAhead(q)'
        BY <2>2, <3>1, <4>1
      <4>. QED  BY <4>2 DEF KeptAhead
    <3>2. CASE ~(q # h /\ (Starved(h) \/ (h \in gate /\ q \notin gate)))
      BY <3>2 DEF KeptAhead
    <3>. QED  BY <3>1, <3>2
  <2>. QED  BY <2>3, <2>4
<1>. QED  BY <1>4, <1>5, <1>6, <1>7

LEMMA KeptIsQueued ==
  ASSUME StateTypeOK, NEW q
  PROVE  KeptAhead(q) \subseteq Elems /\ KeptAhead(q) \subseteq Request
BY QueueElements DEF KeptAhead, Elems

\* What a wait says of a request the broker tried.
LEMMA WaitsNoRoom ==
  ASSUME NEW r, NEW ahead, Waits(r, ahead), NEW strict \in BOOLEAN
  PROVE  NoRoom(r, Beside(ahead), strict)
BY DEF Waits, Seats, Refuses, Admits, NoRoom

\* Parking keeps everyone judged: nothing is freed, and more is kept.
LEMMA ParkWaits ==
  ASSUME OneRunPerProcess, StateTypeOK, StateTypeOK', QueueAccounted, QueueAccounted',
         GatesLead, MarksQueued, OnlyParkedWait, SeatsMeant,
         NEW strict \in BOOLEAN, strict => AncestorsFirst', Judged(strict),
         NEW r \in Request, NEW isGate \in BOOLEAN,
         MuFree, st[r] = "sent", Kind[r] = "park", TrySit(r),
         Waits(r, Ahead(r, isGate, FALSE)), Enqueue(r, isGate), UNCHANGED <<budget, mu>>
  PROVE  StarvedBehindGate' \/ Judged(strict)'
<1>1. r \notin Elems /\ Elems \subseteq Request /\ budget \subseteq Request
  BY QueueElements DEF QueueAccounted, StateTypeOK
<1>2. Elems' = Elems \cup {r}
  BY <1>1, EnqueueElements DEF QueueAccounted
<1>3. Unjudged = {} /\ Unjudged' = {}
  BY DEF Unjudged, MuFree
<1> SUFFICES ASSUME ~StarvedBehindGate' PROVE Judged(strict)'
  OBVIOUS
<1>4. /\ Ahead(r, isGate, FALSE) \subseteq KeptAhead(r)'
      /\ \A q \in Elems : KeptAhead(q) \subseteq KeptAhead(q)'
  BY <1>1, ParkedAhead
<1>5. ASSUME NEW q \in Elems' PROVE NoRoom(q, HeldAgainst(q), strict)'
  <2> DEFINE ahead == IF q = r THEN Ahead(r, isGate, FALSE) ELSE KeptAhead(q)
             H == Beside(ahead)
             G == HeldAgainst(q)'
  <2>1. q \in Request /\ Kind[q] # "hold"
    BY <1>1, <1>2 DEF QueueAccounted, OnlyParkedWait
  <2>2. MaySit(q)' => MaySit(q)
    BY <2>1, SitsOnly
  <2>3. NoRoom(q, H, strict)
    <3>1. CASE q = r
      BY <3>1, WaitsNoRoom
    <3>2. CASE q # r
      BY <1>2, <1>3, <3>2 DEF Judged, HeldAgainst
    <3>. QED  BY <3>1, <3>2
  <2>4. ahead \subseteq KeptAhead(q)'
    BY <1>2, <1>4
  <2>5. G = budget \cup KeptAhead(q)' /\ KeptAhead(q)' \subseteq Elems' /\ Elems' \subseteq Request
    <3>1. KeptAhead(q)' \subseteq Elems'
      <4>1. queue' \in Seq(Request)
        BY DEF StateTypeOK
      <4>2. queue' # <<>> => Head(queue') = queue'[1] /\ 1 \in 1..Len(queue')
        BY <4>1, EmptySeq, LenProperties
      <4>. QED  BY <4>2 DEF KeptAhead, Elems
    <3>. QED  BY <1>1, <1>2, <3>1 DEF HeldAgainst, Beside
  <2>6. H = budget \cup ahead
    BY DEF Beside
  <2> HIDE DEF ahead
  <2>7. H \subseteq G /\ G \subseteq Request /\ G \ H \subseteq Elems' /\ budget \subseteq H
    BY <1>1, <2>4, <2>5, <2>6
  <2>8. ASSUME strict, NEW a \in AncestorsOf(q) \ Wrapper, NEW p \in G \ H,
               Claim[p].invocation = a
        PROVE  \E s \in H : Claim[s].invocation = a
    <3>1. p \in Request /\ st'[p] = "parked"
      BY <2>7 DEF QueueAccounted
    <3>2. \/ \E s \in budget' : Claim[s].invocation = a
          \/ \A s \in Request : Claim[s].invocation = a => st'[s] # "parked"
      BY <2>8 DEF AncestorsFirst, AncestorsOf
    <3>. QED  BY <2>7, <2>8, <3>1, <3>2
  <2> HIDE DEF H, G
  <2>. QED  BY <2>1, <2>2, <2>3, <2>7, <2>8, StillNoRoom DEF G
<1>. QED  BY <1>5 DEF Judged

\* Where the queue loses position k, what is before it stays where it was.
LEMMA StillBefore ==
  ASSUME StateTypeOK, NoDuplicate, NEW k \in 1..Len(queue), NEW over,
         Dequeue(queue[k], k, over)
  PROVE  /\ k > 1 => queue' # <<>> /\ Head(queue') = Head(queue)
         /\ \A q \in Elems' : q \notin {queue'[i] : i \in k..Len(queue')}
              => k > 1 /\ q \in Elems /\ q \notin {queue[i] : i \in k..Len(queue)}
<1> DEFINE n == Len(queue)
<1>1. n \in Nat /\ queue \in Seq(Request) /\ k \in 1..n /\ queue # <<>> /\ Head(queue) = queue[1]
  BY QueueElements DEF StateTypeOK
<1>2. /\ Len(queue') = n - 1
      /\ \A i \in 1..(n - 1) : queue'[i] = IF i < k THEN queue[i] ELSE queue[i + 1]
  BY DequeueShape
<1>3. queue' \in Seq(Request)
  BY <1>1, RemoveProperties DEF Dequeue
<1>4. \A i, j \in 1..n : i # j => queue[i] # queue[j]
  BY DEF NoDuplicate
<1> HIDE DEF n
<1>5. ASSUME k > 1 PROVE queue' # <<>> /\ Head(queue') = Head(queue)
  <2>1. Len(queue') > 0 /\ queue'[1] = queue[1]
    BY <1>1, <1>2, <1>5
  <2>. QED  BY <1>1, <1>3, <2>1, EmptySeq
<1>6. ASSUME NEW q \in Elems', q \notin {queue'[i] : i \in k..(n - 1)}
      PROVE  k > 1 /\ q \in Elems /\ q \notin {queue[i] : i \in k..n}
  <2>1. PICK i \in 1..(n - 1) : q = queue'[i]
    BY <1>2 DEF Elems
  <2>2. i < k /\ q = queue[i] /\ i \in 1..n
    BY <1>1, <1>2, <1>6, <2>1
  <2>3. q \in Elems
    BY <2>2 DEF Elems, n
  <2>4. ASSUME NEW j \in k..n PROVE q # queue[j]
    BY <1>1, <1>4, <2>2, <2>4
  <2>. QED  BY <1>1, <2>2, <2>3, <2>4
<1>. QED  BY <1>2, <1>5, <1>6 DEF n

\* A try answers the request it is at, or leaves it judged with those before it.
LEMMA JudgesNext ==
  ASSUME OneRunPerProcess, StateTypeOK, QueueAccounted, GatesLead, OnlyParkedWait,
         SeatsMeant, NEW strict \in BOOLEAN, strict => AncestorsFirst, Judged(strict),
         JudgeNext
  PROVE  Judged(strict)'
<1> DEFINE r     == queue[cursor]
           h     == Head(queue)
           ahead == Ahead(r, r \in gate, cursor = 1)
<1> USE DEF budgetVars, queueVars
<1>1. /\ cursor \in 1..Len(queue) /\ Len(queue) \in Nat /\ r \in Elems /\ r \in Request
      /\ queue # <<>> /\ h \in Elems /\ h = queue[1]
  BY QueueElements DEF JudgeNext, Elems, StateTypeOK
<1>2. \A q \in Elems : q \in Request /\ st[q] = "parked" /\ Kind[q] = "park"
  BY DEF QueueAccounted, OnlyParkedWait
<1>3. ~MuFree /\ ~MuFree' /\ TrySit(r)
  BY DEF JudgeNext, Waking, MuFree
<1>4. \A q \in Elems : MaySit(q)' => MaySit(q)
  BY <1>1, <1>2, <1>3, SitsOnly
<1>5. Unjudged = {queue[i] : i \in cursor..Len(queue)} /\ NoDuplicate
  BY <1>3 DEF Unjudged, QueueAccounted
<1>6. ASSUME NEW over, Dequeue(r, cursor, over), UNCHANGED cursor,
             \A q \in Request : over[q] >= overtaken[q], over \in [Request -> Nat],
             budget \subseteq budget', budget' \subseteq budget \cup {r}
      PROVE  Judged(strict)'
  <2>1. Unjudged' = {queue'[i] : i \in cursor..Len(queue')}
    BY <1>3, <1>6 DEF Unjudged
  <2>2. ASSUME NEW q \in Elems' \ Unjudged' PROVE NoRoom(q, HeldAgainst(q), strict)'
    <3>1. /\ cursor > 1 /\ q \in Elems /\ q \notin Unjudged
          /\ queue' # <<>> /\ Head(queue') = h
      <4> HIDE DEF r, h
      <4>1. Dequeue(queue[cursor], cursor, over)
        BY <1>6 DEF r
      <4>. QED  BY <1>1, <1>5, <2>1, <2>2, <4>1, StillBefore DEF h
    <3>2. h # r /\ q # r
      <4>1. h # r
        BY <1>1, <1>5, <3>1 DEF NoDuplicate
      <4>2. r \in Unjudged
        BY <1>1, <1>5
      <4>. QED  BY <3>1, <4>1, <4>2
    <3> DEFINE H == HeldAgainst(q)
               G == HeldAgainst(q)'
    <3>3. NoRoom(q, H, strict)
      BY <3>1 DEF Judged
    <3>4. KeptAhead(q) \subseteq KeptAhead(q)' /\ KeptAhead(q)' \subseteq {h}
      <4>1. gate' = gate \ {r} /\ overtaken' = [over EXCEPT ![r] = 0]
        BY <1>6 DEF Dequeue
      <4>2. overtaken'[h] >= overtaken[h] /\ overtaken'[h] \in Nat /\ overtaken[h] \in Nat
        BY <1>1, <1>2, <1>6, <3>2, <4>1 DEF StateTypeOK
      <4>3. Starved(h) => overtaken'[h] >= MaxOvertakes
        BY <4>2, BrokerAssumption DEF Starved
      <4> HIDE DEF r
      <4>4. h \in gate /\ q \notin gate => h \in gate' /\ q \notin gate'
        BY <3>2, <4>1
      <4>5. KeptAhead(q)' = IF q # h /\ (overtaken'[h] >= MaxOvertakes \/ (h \in gate' /\ q \notin gate'))
                            THEN {h} ELSE {}
        BY <3>1 DEF KeptAhead, Starved
      <4> HIDE DEF h
      <4>. QED  BY <4>3, <4>4, <4>5 DEF KeptAhead, h
    <3>5. H = budget \cup KeptAhead(q) /\ G = budget' \cup KeptAhead(q)'
      BY DEF HeldAgainst, Beside
    <3>6. /\ H \subseteq G /\ G \subseteq Request /\ G \ H \subseteq Elems
          /\ budget \subseteq H /\ H \subseteq Request
      <4>1. budget \subseteq Request /\ h \in Request
        BY <1>1, <1>2 DEF StateTypeOK
      <4> HIDE DEF h, r, H, G
      <4>. QED  BY <1>1, <1>2, <1>6, <3>4, <3>5, <4>1
    <3>7. ASSUME strict, NEW a \in AncestorsOf(q) \ Wrapper, NEW p \in G \ H,
                 Claim[p].invocation = a
          PROVE  \E s \in H : Claim[s].invocation = a
      <4>1. p \in Request /\ st[p] = "parked"
        BY <1>2, <3>6
      <4>2. \/ \E s \in budget : Claim[s].invocation = a
            \/ \A s \in Request : Claim[s].invocation = a => st[s] # "parked"
        BY <3>1, <3>7 DEF AncestorsFirst
      <4>. QED  BY <3>6, <3>7, <4>1, <4>2
    <3>8. q \in Request /\ (MaySit(q)' => MaySit(q))
      BY <1>2, <1>4, <3>1
    <3> HIDE DEF H, G
    <3>. QED  BY <3>3, <3>6, <3>7, <3>8, StillNoRoom DEF G
  <2>. QED  BY <2>2 DEF Judged
<1>7. CASE /\ Grant(r, ahead)
           /\ Dequeue(r, cursor, BumpHead(r, ahead))
           /\ UNCHANGED cursor
  <2>1. BumpHead(r, ahead) \in [Request -> Nat]
    BY <1>1, BumpHeadType
  <2>2. \A q \in Request : BumpHead(r, ahead)[q] >= overtaken[q]
    <3> HIDE DEF ahead, r
    <3>. QED  BY <1>1, <1>2 DEF BumpHead, StateTypeOK
  <2>3. budget' = budget \cup {r}
    BY <1>7 DEF Grant
  <2> HIDE DEF r, ahead
  <2>. QED  BY <1>6, <1>7, <2>1, <2>2, <2>3
<1>8. CASE /\ Dequeue(r, cursor, overtaken)
           /\ UNCHANGED <<budgetVars, cursor>>
  <2>1. overtaken \in [Request -> Nat] /\ \A q \in Request : overtaken[q] >= overtaken[q]
    BY DEF StateTypeOK
  <2> HIDE DEF r
  <2>. QED  BY <1>6, <1>8, <2>1
<1>9. CASE /\ Waits(r, ahead)
           /\ cursor' = cursor + 1
           /\ UNCHANGED <<st, budgetVars, queueVars>>
  <2>1. Elems' = Elems /\ Unjudged' = {queue[i] : i \in (cursor + 1)..Len(queue)}
    BY <1>3, <1>9 DEF Elems, Unjudged
  <2>2. ASSUME NEW q \in Elems' \ Unjudged' PROVE NoRoom(q, HeldAgainst(q), strict)'
    <3>1. q \in Elems /\ (q \in Unjudged => q = r)
      BY <1>1, <1>5, <2>1, <2>2
    <3>2. NoRoom(q, HeldAgainst(q), strict)
      <4>1. ahead = KeptAhead(r)
        BY <1>1, <1>5, AheadInQueue
      <4>2. CASE q = r
        BY <1>9, <4>1, <4>2, WaitsNoRoom DEF HeldAgainst
      <4>3. CASE q # r
        BY <3>1, <4>3 DEF Judged
      <4>. QED  BY <4>2, <4>3
    <3>3. HeldAgainst(q)' = HeldAgainst(q)
      BY <1>9 DEF HeldAgainst, Beside, KeptAhead, Starved
    <3>4. HeldAgainst(q) \in SUBSET Request
      BY KeptIsQueued DEF HeldAgainst, Beside, StateTypeOK
    <3>. QED  BY <1>2, <1>4, <3>1, <3>2, <3>3, <3>4, StillNoRoom
  <2>. QED  BY <2>2 DEF Judged
<1>. QED  BY <1>7, <1>8, <1>9 DEF JudgeNext

\* Nothing but the hold of a command changes what the queue is judged beside.
LEMMA BesideOneMore ==
  ASSUME StateTypeOK, QueueAccounted, NEW strict \in BOOLEAN, strict => AncestorsFirst,
         Judged(strict), UNCHANGED <<queueVars, muVars>>,
         \A q \in Elems : MaySit(q)' => MaySit(q),
         budget \subseteq budget', budget' \subseteq Request,
         \A p \in budget' \ budget : Kind[p] = "hold" /\ st[p] = "sent"
  PROVE  Judged(strict)'
<1> USE DEF queueVars, muVars
<1>1. Elems' = Elems /\ Unjudged' = Unjudged
  BY DEF Elems, Unjudged, MuFree
<1>2. ASSUME NEW q \in Elems \ Unjudged PROVE NoRoom(q, HeldAgainst(q), strict)'
  <2> DEFINE H == HeldAgainst(q)
             G == HeldAgainst(q)'
  <2>1. q \in Request /\ NoRoom(q, H, strict) /\ (MaySit(q)' => MaySit(q))
    BY <1>2 DEF QueueAccounted, Judged
  <2>2. KeptAhead(q)' = KeptAhead(q)
    BY DEF KeptAhead, Starved
  <2>3. H = budget \cup KeptAhead(q) /\ G = budget' \cup KeptAhead(q) /\ KeptAhead(q) \subseteq Request
    BY <2>2, KeptIsQueued DEF HeldAgainst, Beside
  <2>4. H \subseteq G /\ G \subseteq Request /\ G \ H \subseteq budget' \ budget /\ budget \subseteq H
    BY <2>3
  <2>5. ASSUME strict, NEW a \in AncestorsOf(q) \ Wrapper, NEW p \in G \ H,
               Claim[p].invocation = a
        PROVE  \E s \in H : Claim[s].invocation = a
    <3>1. p \in Request /\ Kind[p] = "hold" /\ st[p] = "sent"
      BY <2>4
    <3>2. \/ \E s \in budget : Claim[s].invocation = a
          \/ \A s \in Request : Claim[s].invocation = a => ~(Kind[s] = "hold" /\ st[s] = "sent")
      BY <1>2, <2>5 DEF AncestorsFirst
    <3>. QED  BY <2>4, <2>5, <3>1, <3>2
  <2> HIDE DEF H, G
  <2>. QED  BY <2>1, <2>4, <2>5, StillNoRoom DEF G
<1>. QED  BY <1>1, <1>2 DEF Judged

LEMMA WakeStep ==
  ASSUME OneRunPerProcess, StateTypeOK, StateTypeOK', QueueAccounted, QueueAccounted',
         GatesLead, MarksQueued, OnlyParkedWait, SeatsMeant, CursorStarts,
         NEW strict \in BOOLEAN, strict => AncestorsFirst /\ AncestorsFirst',
         WakeInv(strict), System \/ Environment
  PROVE  WakeInv(strict)'
<1> SUFFICES ASSUME ~WakeDue' PROVE (MuFree /\ StarvedBehindGate)' \/ Judged(strict)'
  BY DEF WakeInv
<1> USE DEF reqVars, budgetVars, connVars, serveVars
<1>1. \A q \in Elems : q \in Request /\ Kind[q] = "park"
  BY DEF QueueAccounted, OnlyParkedWait
<1>2. ASSUME Elems' = {} PROVE Judged(strict)'
  BY <1>2 DEF Judged
<1>3. ASSUME NEW c \in Conn, BeginWake(c) PROVE Judged(strict)'
  <2>1. CASE queue = <<>>
    <3>1. Elems' = {}
      BY <1>3, <2>1 DEF BeginWake, queueVars, Elems
    <3>. QED  BY <1>2, <3>1
  <2>2. CASE queue # <<>>
    <3>1. mu' # NoConn /\ cursor' = 1 /\ queue' = queue
      BY <1>3, <2>2, BrokerAssumption DEF BeginWake, queueVars, CursorStarts
    <3>2. Unjudged' = Elems'
      BY <3>1 DEF Unjudged, MuFree, Elems
    <3>. QED  BY <3>2 DEF Judged
  <2>. QED  BY <2>1, <2>2
<1> SUFFICES ASSUME ~\E c \in Conn : BeginWake(c)
             PROVE  (MuFree /\ StarvedBehindGate)' \/ Judged(strict)'
  BY <1>3
<1>4. /\ ~WakeDue
      /\ \A r \in Request : /\ ~Reassert(r) /\ ~Free(r) /\ ~FreeClosed(r)
                            /\ ~(Cancel(r) /\ st[r] = "parked")
      /\ \A c \in Conn : ~Forgets(c)
  BY FreeingOwes
<1>5. (MuFree /\ StarvedBehindGate) \/ Judged(strict)
  BY <1>4 DEF WakeInv
<1>6. ASSUME UNCHANGED <<budget, queueVars, muVars>>,
             \A q \in Elems : MaySit(q)' => MaySit(q)
      PROVE  (MuFree /\ StarvedBehindGate)' \/ Judged(strict)'
  <2>1. CASE MuFree /\ StarvedBehindGate
    BY <1>6, <2>1 DEF queueVars, muVars, MuFree, StarvedBehindGate, Elems, Starved
  <2>2. CASE Judged(strict)
    BY <1>6, <2>2, BesideOneMore DEF StateTypeOK
  <2>. QED  BY <1>5, <2>1, <2>2
<1>7. ASSUME UNCHANGED <<budget, queueVars, muVars, seat>>
      PROVE  (MuFree /\ StarvedBehindGate)' \/ Judged(strict)'
  <2>1. \A q \in Elems : MaySit(q)' => MaySit(q)
    BY <1>7 DEF MaySit, Capped, SeatedRuns, RunKey, Run
  <2>. QED  BY <1>6, <1>7, <2>1
<1>8. ASSUME NEW r \in Request, Park(r)
      PROVE  (MuFree /\ StarvedBehindGate)' \/ Judged(strict)'
  <2> DEFINE isGate == UnderGate(r)
             ahead  == Ahead(r, isGate, FALSE)
  <2>1. /\ MuFree /\ st[r] = "sent" /\ Kind[r] = "park" /\ TrySit(r)
        /\ UNCHANGED <<mu, cursor>> /\ isGate \in BOOLEAN
    BY <1>8 DEF Park, Arrived, UnderGate, muVars
  <2>2. CASE IF queue # <<>> THEN OweWake(ReqConn[r]) ELSE UNCHANGED <<owed, queue>>
    <3>1. CASE queue # <<>>
      <4>1. ReqConn[r] \in Conn /\ owed'[ReqConn[r]] > 0
        BY <2>2, <3>1, BrokerAssumption DEF OweWake, StateTypeOK
      <4>. QED  BY <4>1 DEF WakeDue
    <3>2. CASE queue = <<>>
      BY <1>2, <2>2, <3>2 DEF Elems
    <3>. QED  BY <3>1, <3>2
  <2>3. CASE UNCHANGED <<budgetVars, queueVars, owed>>
    <3>1. \A q \in Elems : MaySit(q)' => MaySit(q)
      BY <1>1, <2>1, SitsOnly
    <3>. QED  BY <1>6, <2>1, <2>3, <3>1 DEF muVars
  <2>4. CASE Waits(r, ahead) /\ Enqueue(r, isGate) /\ UNCHANGED <<budgetVars, owed>>
    <3> HIDE DEF isGate
    <3>1. CASE StarvedBehindGate
      <4>1. r \notin Elems /\ Elems' = Elems \cup {r}
        BY <2>1, <2>4, EnqueueElements DEF QueueAccounted
      <4>2. PICK q \in Elems \ gate : overtaken[q] >= MaxOvertakes /\ gate # {}
        BY <3>1 DEF StarvedBehindGate, Starved
      <4>3. q \in Elems' \ gate' /\ gate' # {}
        BY <2>4, <4>1, <4>2 DEF Enqueue
      <4>4. overtaken'[q] \in {overtaken[q], overtaken[q] + 1} /\ overtaken[q] \in Nat
        BY <1>1, <2>4, <4>2 DEF Enqueue, StateTypeOK
      <4>5. overtaken'[q] >= MaxOvertakes
        BY <4>2, <4>4, BrokerAssumption
      <4>. QED  BY <2>1, <4>3, <4>5 DEF StarvedBehindGate, Starved, MuFree
    <3>2. CASE Judged(strict)
      <4>1. StarvedBehindGate' \/ Judged(strict)'
        BY <2>1, <2>4, <3>2, ParkWaits
      <4>. QED  BY <2>1, <4>1 DEF MuFree
    <3>. QED  BY <1>5, <3>1, <3>2
  <2>. QED  BY <1>8, <2>2, <2>3, <2>4 DEF Park
<1>9. ASSUME NEW r \in Request, Once(r)
      PROVE  (MuFree /\ StarvedBehindGate)' \/ Judged(strict)'
  <2>1. CASE OweWake(ReqConn[r])
    <3>1. ReqConn[r] \in Conn /\ owed'[ReqConn[r]] > 0
      BY <2>1, BrokerAssumption DEF OweWake, StateTypeOK
    <3>. QED  BY <3>1 DEF WakeDue
  <2>2. CASE UNCHANGED <<budgetVars, owed>>
    <3>1. TrySit(r) /\ Kind[r] # "hold"
      BY <1>9 DEF Once, Arrived
    <3>2. \A q \in Elems : MaySit(q)' => MaySit(q)
      BY <1>1, <3>1, SitsOnly
    <3>. QED  BY <1>6, <1>9, <2>2, <3>2 DEF Once
  <2>. QED  BY <1>9, <2>1, <2>2 DEF Once
<1>10. ASSUME NEW r \in Request, Hold(r)
       PROVE  (MuFree /\ StarvedBehindGate)' \/ Judged(strict)'
  <2>1. CASE MuFree /\ StarvedBehindGate
    BY <1>10, <2>1 DEF Hold, queueVars, muVars, MuFree, StarvedBehindGate, Elems, Starved
  <2>2. CASE Judged(strict)
    <3>1. \A q \in Elems : MaySit(q)' => MaySit(q)
      BY <1>10 DEF Hold, MaySit, Capped, SeatedRuns, RunKey, Run
    <3>2. /\ st[r] = "sent" /\ Kind[r] = "hold" /\ budget' = budget \cup {r}
          /\ UNCHANGED <<queueVars, muVars>>
      BY <1>10 DEF Hold, Arrived
    <3>. QED  BY <2>2, <3>1, <3>2, BesideOneMore DEF StateTypeOK
  <2>. QED  BY <1>5, <2>1, <2>2
<1>11. CASE JudgeNext
  <2>1. Judged(strict)
    BY <1>5, <1>11 DEF JudgeNext, Waking
  <2>. QED  BY <1>11, <2>1, JudgesNext
<1>12. CASE EndWake
  <2>1. Judged(strict) /\ ~MuFree /\ cursor > Len(queue)
    BY <1>5, <1>12 DEF EndWake, Waking
  <2>2. Unjudged = {}
    BY <2>1, QueueElements DEF Unjudged, StateTypeOK
  <2>3. ASSUME NEW q \in Elems' PROVE NoRoom(q, HeldAgainst(q), strict)'
    <3>1. UNCHANGED <<budget, queue, overtaken, gate, seat>>
      BY <1>12 DEF EndWake, queueVars
    <3>2. q \in Elems /\ NoRoom(q, HeldAgainst(q), strict)
      BY <2>1, <2>2, <3>1 DEF Judged, Elems
    <3>3. HeldAgainst(q)' = HeldAgainst(q) /\ HeldAgainst(q) \in SUBSET Request
      BY <3>1, KeptIsQueued DEF HeldAgainst, Beside, KeptAhead, Starved, StateTypeOK
    <3>4. MaySit(q)' => MaySit(q)
      BY <3>1 DEF MaySit, Capped, SeatedRuns, RunKey, Run
    <3>. QED  BY <1>1, <3>2, <3>3, <3>4, StillNoRoom
  <2>. QED  BY <2>3 DEF Judged
<1>13. CASE RefuseParked
  BY <1>2, <1>13 DEF RefuseParked, Elems
<1>14. ASSUME NEW r \in Request,
              \/ TurnAway(r) \/ LoseFrame(r) \/ Release(r) \/ Send(r) \/ SendCancel(r)
              \/ Cancel(r) /\ st[r] # "parked"
       PROVE  UNCHANGED <<budget, queueVars, muVars, seat>>
  BY <1>14 DEF TurnAway, LoseFrame, Release, Send, SendCancel, Cancel
<1>15. ASSUME NEW c \in Conn, HangUp(c) PROVE UNCHANGED <<budget, queueVars, muVars, seat>>
  BY <1>15 DEF HangUp
<1>16. CASE \/ CountHeld \/ NoticeRelease \/ BeginClose \/ CloseConns \/ Exit
            \/ StartDrain \/ Stop
  BY <1>7, <1>16 DEF CountHeld, NoticeRelease, BeginClose, CloseConns, Exit, StartDrain, Stop
<1>. QED
  BY <1>4, <1>7, <1>8, <1>9, <1>10, <1>11, <1>12, <1>13, <1>14, <1>15, <1>16
     DEF System, Environment, Handler, Forgets, Wake, Closing

\* A wake that begins finds the cursor at the head (wake's range over s.queue).
LEMMA CursorAlways == Spec => []CursorStarts
<1>1. Init => CursorStarts
  BY DEF Init, CursorStarts
<1>2. TypeOK /\ CursorStarts /\ [Next]_vars => CursorStarts'
  <2>1. ASSUME CursorStarts, UNCHANGED vars PROVE CursorStarts'
    BY <2>1 DEF vars, muVars, connVars, CursorStarts, MuFree
  <2>. QED  BY <2>1, CursorStep DEF TypeOK, Next, Exited
<1>. QED  BY <1>1, <1>2, TypeCorrect, PTL DEF Spec

\* Everything a wake is argued from.
WakeFacts ==
  /\ StateTypeOK /\ QueueAccounted /\ GatesLead /\ MarksQueued
  /\ OnlyParkedWait /\ SeatsMeant /\ CursorStarts

LEMMA WakeFactsAlways == ASSUME OneRunPerProcess PROVE Spec => []WakeFacts
<1>1. Spec => []SeatsMeant
  BY SeatsMeantAlways
<1>2. TypeOK /\ Accounted => StateTypeOK /\ QueueAccounted
  BY DEF TypeOK, Accounted, QueueAccounted, NoDuplicate
<1>. QED
  BY <1>1, <1>2, TypeCorrect, AccountedCorrect, GatesMarked, OnlyParkedWaitAlways,
     CursorAlways, PTL DEF WakeFacts

LEMMA WakeNext ==
  ASSUME OneRunPerProcess, NEW strict \in BOOLEAN, WakeFacts, WakeFacts',
         strict => AncestorsFirst /\ AncestorsFirst', WakeInv(strict), [Next]_vars
  PROVE  WakeInv(strict)'
<1>1. CASE System \/ Environment
  BY <1>1, WakeStep DEF WakeFacts
<1>2. CASE UNCHANGED vars
  <2> USE DEF vars, reqVars, budgetVars, queueVars, connVars, muVars
  <2>1. CASE WakeDue
    BY <1>2, <2>1 DEF WakeDue, MuFree, WakeInv
  <2>2. CASE MuFree /\ StarvedBehindGate
    BY <1>2, <2>2 DEF MuFree, StarvedBehindGate, Elems, Starved, WakeInv
  <2>3. CASE Judged(strict)
    <3>1. \A q \in Elems : MaySit(q)' => MaySit(q)
      BY <1>2 DEF MaySit, Capped, SeatedRuns, RunKey, Run
    <3>2. UNCHANGED <<queueVars, muVars, budget>>
      BY <1>2
    <3>3. Judged(strict)'
      BY <2>3, <3>1, <3>2, BesideOneMore DEF WakeFacts, StateTypeOK
    <3>. QED  BY <3>3 DEF WakeInv
  <2>. QED  BY <2>1, <2>2, <2>3 DEF WakeInv
<1>. QED  BY <1>1, <1>2 DEF Next, Exited

LEMMA WakeInit == ASSUME NEW strict \in BOOLEAN, Init PROVE WakeInv(strict)
<1>1. Elems = {}
  BY DEF Init, Elems
<1>. QED  BY <1>1 DEF WakeInv, Judged

\* At rest no wake is under way or due: everyone in the queue has been judged.
LEMMA JudgedAtRest ==
  ASSUME WakeFacts, NEW strict \in BOOLEAN, WakeInv(strict), Settled, ~StarvedBehindGate,
         NEW i \in 1..Len(queue)
  PROVE  NoRoom(queue[i], Beside(Ahead(queue[i], queue[i] \in gate, i = 1)), strict)
<1>1. ~WakeDue
  <2>1. \A c \in Conn : ~(owed[c] > 0)
    BY DEF Settled
  <2>. QED  BY <2>1 DEF WakeDue, Settled
<1>2. Judged(strict) /\ Unjudged = {}
  BY <1>1 DEF WakeInv, Unjudged, Settled
<1>3. NoRoom(queue[i], HeldAgainst(queue[i]), strict)
  BY <1>2 DEF Judged, Elems
<1>. QED  BY <1>3, AheadInQueue DEF WakeFacts, QueueAccounted, HeldAgainst

\* The room a release, a hang-up, a cancel or a grant gives back is never left lying:
\* once nobody is still to wake the queue, a parked request that may sit does not fit
\* beside what is held and kept, for any number of processes and however their frames,
\* wakes and hang-ups interleave (wake, budget.go:153).
THEOREM NoLostRoomAlways == ASSUME OneRunPerProcess PROVE Spec => []NoLostRoom
<1>1. Spec => []WakeFacts
  BY WakeFactsAlways
<1>2. Init => WakeInv(FALSE)
  BY WakeInit
<1>3. WakeFacts /\ WakeFacts' /\ WakeInv(FALSE) /\ [Next]_vars => WakeInv(FALSE)'
  BY WakeNext
<1>4. WakeFacts /\ WakeInv(FALSE) => NoLostRoom
  <2> SUFFICES ASSUME WakeFacts, WakeInv(FALSE), Settled, ~StarvedBehindGate,
                      NEW i \in 1..Len(queue),
                      MaySit(queue[i])
               PROVE  LET ahead == Ahead(queue[i], queue[i] \in gate, i = 1)
                      IN  /\ FitsAlone(queue[i])
                          /\ ~FitsHeld(queue[i], Beside(ahead))
    BY DEF NoLostRoom
  <2>. QED  BY JudgedAtRest DEF NoRoom
<1>. QED  BY <1>1, <1>2, <1>3, <1>4, PTL DEF Spec

\* As long as a claim is recorded before the claims underneath it wait, the broker that
\* has come to rest would answer none of its parked requests, on a free seat neither,
\* unless a gate has taken the place of a head that was overtaken its fill.
THEOREM NoLostWakeAlways ==
  ASSUME OneRunPerProcess
  PROVE  Spec /\ []AncestorsFirst => [](StarvedBehindGate \/ NoLostWake)
<1>1. Spec => []WakeFacts
  BY WakeFactsAlways
<1>2. Init => WakeInv(TRUE)
  BY WakeInit
<1>3. WakeFacts /\ WakeFacts' /\ AncestorsFirst /\ AncestorsFirst' /\ WakeInv(TRUE)
        /\ [Next]_vars => WakeInv(TRUE)'
  BY WakeNext
<1>4. WakeFacts /\ WakeInv(TRUE) => StarvedBehindGate \/ NoLostWake
  <2> SUFFICES ASSUME WakeFacts, WakeInv(TRUE), Settled, ~StarvedBehindGate,
                      NEW i \in 1..Len(queue)
               PROVE  Waits(queue[i], Ahead(queue[i], queue[i] \in gate, i = 1))
    BY DEF NoLostWake
  <2>. QED  BY JudgedAtRest DEF NoRoom, Waits, Seats, Refuses, Admits
<1>. QED  BY <1>1, <1>2, <1>3, <1>4, PTL DEF Spec

NobodyGated == gate = {}

LEMMA NoGateWaits == ASSUME Gate = {} PROVE Spec => []NobodyGated
<1>1. Init => NobodyGated
  BY DEF Init, NobodyGated
<1>2. TypeOK /\ NobodyGated /\ [Next]_vars => NobodyGated'
  <2> USE DEF queueVars, NobodyGated
  <2>1. ASSUME NEW r \in Request, Park(r), gate = {} PROVE gate' = {}
    <3>1. ~UnderGate(r)
      BY DEF UnderGate
    <3>. QED  BY <2>1, <3>1 DEF Park, Enqueue
  <2>2. ASSUME NEW r \in Request, gate = {},
               \/ TurnAway(r) \/ Once(r) \/ Reassert(r) \/ Hold(r) \/ Cancel(r) \/ Free(r)
               \/ FreeClosed(r) \/ LoseFrame(r) \/ Release(r) \/ Send(r) \/ SendCancel(r)
        PROVE  gate' = {}
    BY <2>2 DEF TurnAway, Once, Reassert, Hold, Cancel, Dequeue, Free, FreeClosed,
                LoseFrame, Release, Send, SendCancel
  <2>3. ASSUME NEW c \in Conn, gate = {}, Forgets(c) \/ BeginWake(c) \/ HangUp(c)
        PROVE  gate' = {}
    BY <2>3 DEF Forgets, Forget, DropParked, Dequeue, EndForget, BeginWake, HangUp
  <2>4. ASSUME gate = {}, Wake \/ Closing \/ StartDrain \/ Stop PROVE gate' = {}
    BY <2>4 DEF Wake, JudgeNext, Dequeue, EndWake, Closing, RefuseParked, CountHeld,
                NoticeRelease, BeginClose, CloseConns, Exit, StartDrain, Stop
  <2>5. ASSUME gate = {}, UNCHANGED vars PROVE gate' = {}
    BY <2>5 DEF vars
  <2>. QED  BY <2>1, <2>2, <2>3, <2>4, <2>5 DEF Next, System, Environment, Handler, Exited
<1>. QED  BY <1>1, <1>2, TypeCorrect, PTL DEF Spec

\* Where no run is a gate, the broker at rest would answer none of its parked requests.
THEOREM NoLostWakeUngated ==
  ASSUME OneRunPerProcess, Gate = {}
  PROVE  Spec /\ []AncestorsFirst => []NoLostWake
<1>1. Spec /\ []AncestorsFirst => [](StarvedBehindGate \/ NoLostWake)
  BY NoLostWakeAlways
<1>2. Spec => []NobodyGated
  BY NoGateWaits
<1>3. NobodyGated => ~StarvedBehindGate
  BY DEF StarvedBehindGate, NobodyGated
<1>. QED  BY <1>1, <1>2, <1>3, PTL

-----------------------------------------------------------------------------
(* The drain and the end of Serve.                                           *)

QueueRefused == (draining /\ loop # "refusing") \/ loop \in {"hangup", "waiting", "exited"}

\* Where a connection is on its way out says what its requests have come to.
HandedBack(c, s) ==
  /\ conn[c] = "absent"  => s = "idle"
  /\ conn[c] = "leaving" => s \in {"idle", "over", "orphaned", "unlinked", "parked"}
  /\ conn[c] = "left"    => s \in {"idle", "over", "orphaned", "unlinked"}
  /\ conn[c] = "gone"    => s \in {"idle", "over", "orphaned"}

\* The strengthening: what was refused stays refused, and who leaves holds s.mu
\* until nothing of it is parked.
EndInv ==
  /\ loop \in {"closing", "hangup", "waiting", "exited"} => closing
  /\ QueueRefused => queue = <<>>
  /\ \A c \in Conn : conn[c] = "leaving" => mu = c
  /\ \A r \in Request : HandedBack(ReqConn[r], st[r])
  /\ loop = "exited" => MuFree /\ \A c \in Conn : conn[c] \in {"absent", "gone"} /\ owed[c] = 0

\* A broker that drains or stops parks nothing.
LEMMA NothingParks ==
  ASSUME StateTypeOK, EndInv, QueueRefused, System \/ Environment
  PROVE  queue' = <<>>
<1> USE DEF budgetVars, queueVars
<1>1. queue = <<>> /\ 1..Len(queue) = {}
  BY DEF EndInv
<1>2. ASSUME NEW r \in Request, Park(r) PROVE FALSE
  BY <1>2 DEF Park, Parks, EndInv, QueueRefused
<1>3. ASSUME NEW r \in Request,
             \/ TurnAway(r) \/ Once(r) \/ Reassert(r) \/ Hold(r) \/ Free(r)
             \/ FreeClosed(r) \/ LoseFrame(r) \/ Release(r) \/ Send(r) \/ SendCancel(r)
      PROVE  queue' = queue
  BY <1>3 DEF TurnAway, Once, Reassert, Hold, Free, FreeClosed, LoseFrame, Release, Send,
              SendCancel
<1>4. ASSUME NEW r \in Request, Cancel(r) PROVE queue' = queue
  BY <1>1, <1>4 DEF Cancel
<1>5. ASSUME NEW c \in Conn, DropParked(c) PROVE FALSE
  BY <1>1, <1>5 DEF DropParked
<1>6. ASSUME NEW c \in Conn,
             Forget(c) \/ EndForget(c) \/ BeginWake(c) \/ HangUp(c)
      PROVE  queue' = queue
  BY <1>6 DEF Forget, EndForget, BeginWake, HangUp
<1>7. ASSUME JudgeNext PROVE FALSE
  <2>1. Len(queue) = 0
    BY <1>1
  <2>. QED  BY <1>7, <2>1 DEF JudgeNext, StateTypeOK
<1>8. CASE EndWake \/ Closing \/ StartDrain \/ Stop
  BY <1>1, <1>8 DEF EndWake, Closing, RefuseParked, CountHeld, NoticeRelease, BeginClose,
                    CloseConns, Exit, StartDrain, Stop
<1>. QED
  BY <1>1, <1>2, <1>3, <1>4, <1>5, <1>6, <1>7, <1>8 DEF System, Environment, Handler, Forgets, Wake

\* Where Serve goes next: nothing refuses the queue but emptying it, nothing ends
\* the closing, and nothing but the last handler's return ends the wait.
LEMMA LoopStep ==
  ASSUME StateTypeOK, EndInv, System \/ Environment
  PROVE  /\ loop' \in {"closing", "hangup", "waiting", "exited"} => closing'
         /\ QueueRefused' => queue' = <<>>
         /\ loop' = "exited" => loop = "exited" \/ Exit
<1> USE DEF ServeStep, serveVars
<1>1. ASSUME loop' = loop, draining' = draining, closing' = closing
      PROVE  /\ loop' \in {"closing", "hangup", "waiting", "exited"} => closing'
             /\ QueueRefused' => queue' = <<>>
             /\ loop' = "exited" => loop = "exited"
  BY <1>1, NothingParks DEF EndInv, QueueRefused
<1>2. ASSUME NEW r \in Request,
             \/ Park(r) \/ TurnAway(r) \/ Once(r) \/ Reassert(r) \/ Hold(r) \/ Cancel(r)
             \/ LoseFrame(r) \/ Release(r) \/ Send(r) \/ SendCancel(r)
      PROVE  loop' = loop /\ draining' = draining /\ closing' = closing
  BY <1>2 DEF Park, TurnAway, Once, Reassert, Hold, Cancel, LoseFrame, Release, Send, SendCancel
<1>3. ASSUME NEW r \in Request, Free(r) \/ FreeClosed(r)
      PROVE  loop' = loop /\ draining' = draining /\ closing' = closing
  BY <1>3 DEF Free, FreeClosed
<1>4. ASSUME NEW c \in Conn,
             Forget(c) \/ DropParked(c) \/ EndForget(c) \/ BeginWake(c) \/ HangUp(c)
      PROVE  loop' = loop /\ draining' = draining /\ closing' = closing
  BY <1>4 DEF Forget, DropParked, EndForget, BeginWake, HangUp
<1>5. CASE JudgeNext \/ EndWake
  BY <1>1, <1>5 DEF JudgeNext, EndWake
<1>6. CASE RefuseParked
  BY <1>6 DEF RefuseParked, EndInv, QueueRefused
<1>7. CASE StartDrain \/ Stop \/ BeginClose \/ CountHeld \/ NoticeRelease
  <2>1. UNCHANGED queue
    BY <1>7 DEF StartDrain, Stop, BeginClose, CountHeld, NoticeRelease, queueVars
  <2>. QED
    BY <1>7, <2>1 DEF StartDrain, Stop, BeginClose, CountHeld, NoticeRelease, EndInv, QueueRefused
<1>8. CASE CloseConns \/ Exit
  BY <1>8 DEF CloseConns, Exit, EndInv, QueueRefused, queueVars
<1>. QED
  BY <1>1, <1>2, <1>3, <1>4, <1>5, <1>6, <1>7, <1>8
     DEF System, Environment, Handler, Forgets, Wake, Closing

\* One request answered on a connection that stays where it is.
LEMMA AnsweredInPlace ==
  ASSUME StateTypeOK, EndInv, UNCHANGED conn, NEW r \in Request,
         NEW how \in ReqState, Answer(r, how), HandedBack(ReqConn[r], how)
  PROVE  \A q \in Request : HandedBack(ReqConn[q], st[q])'
BY BrokerAssumption DEF StateTypeOK, EndInv, HandedBack, Answer

\* A request that is asked or seated is one of an open connection, or of one whose
\* end is yet to be handled.
LEMMA WhoseIsOpen ==
  ASSUME StateTypeOK, EndInv, NEW r \in Request, st[r] \in {"sent", "granted"}
  PROVE  conn[ReqConn[r]] \in {"open", "eof"}
BY BrokerAssumption DEF StateTypeOK, EndInv, HandedBack

LEMMA HandedBackStep ==
  ASSUME StateTypeOK, QueueAccounted, EndInv, System \/ Environment
  PROVE  \A q \in Request : HandedBack(ReqConn[q], st[q])'
<1> DEFINE Good == \A q \in Request : HandedBack(ReqConn[q], st[q])'
<1> USE DEF reqVars, budgetVars, queueVars, connVars, muVars, serveVars
<1>1. /\ st \in [Request -> ReqState] /\ \A r \in Request : ReqConn[r] \in Conn
      /\ conn \in [Conn -> {"absent", "open", "eof", "leaving", "left", "gone"}]
      /\ \A q \in Request : HandedBack(ReqConn[q], st[q])
  BY BrokerAssumption DEF StateTypeOK, EndInv
<1>2. ASSUME UNCHANGED <<st, conn>> PROVE Good
  BY <1>1, <1>2 DEF HandedBack
<1>3. ASSUME NEW r \in Request, conn[ReqConn[r]] \in {"open", "eof"}, UNCHANGED conn,
             NEW how \in ReqState, Answer(r, how)
      PROVE  Good
  BY <1>3, AnsweredInPlace DEF HandedBack
<1>4. ASSUME NEW r \in Request, Handler(r) PROVE Good
  <2>1. conn[ReqConn[r]] \in {"open", "eof"}
    BY <1>4, WhoseIsOpen DEF Handler, TurnAway, Park, Once, Reassert, Hold, Arrived
  <2>2. UNCHANGED conn /\ \E how \in {"over", "granted", "parked"} : Answer(r, how)
    BY <1>4 DEF Handler, TurnAway, Park, Once, Reassert, Hold
  <2>. QED  BY <1>3, <2>1, <2>2 DEF ReqState
<1>5. ASSUME NEW r \in Request, Cancel(r) PROVE Good
  <2>1. CASE st[r] = "parked"
    <3>1. UNCHANGED conn /\ Answer(r, "over") /\ HandedBack(ReqConn[r], "over")
      BY <1>1, <1>5, <2>1 DEF Cancel, HandedBack
    <3>. QED  BY <3>1, AnsweredInPlace DEF ReqState
  <2>2. CASE st[r] # "parked"
    BY <1>2, <1>5, <2>2 DEF Cancel
  <2>. QED  BY <2>1, <2>2
<1>6. ASSUME NEW r \in Request, Free(r) PROVE Good
  BY <1>3, <1>6 DEF Free, Live, ReqState
<1>7. ASSUME NEW r \in Request, FreeClosed(r) PROVE Good
  <2>1. Answer(r, "over") /\ conn[ReqConn[r]] = "left" /\ st[r] = "unlinked"
    BY <1>7 DEF FreeClosed
  <2>2. CASE UNCHANGED conn
    BY <2>1, <2>2, AnsweredInPlace DEF HandedBack, ReqState
  <2>3. CASE /\ conn' = [conn EXCEPT ![ReqConn[r]] = "gone"]
             /\ \A q \in Of(ReqConn[r]) \ {r} : st[q] # "unlinked"
    <3> SUFFICES ASSUME NEW q \in Request PROVE HandedBack(ReqConn[q], st[q])'
      OBVIOUS
    <3>1. CASE ReqConn[q] = ReqConn[r]
      BY <1>1, <2>1, <2>3, <3>1 DEF HandedBack, Of, Answer
    <3>2. CASE ReqConn[q] # ReqConn[r]
      BY <1>1, <2>1, <2>3, <3>2 DEF HandedBack, Answer
    <3>. QED  BY <3>1, <3>2
  <2>. QED  BY <1>7, <2>2, <2>3 DEF FreeClosed
<1>8. ASSUME NEW r \in Request, LoseFrame(r) PROVE Good
  BY <1>1, <1>8 DEF LoseFrame, HandedBack
<1>9. ASSUME NEW r \in Request, Release(r) PROVE Good
  BY <1>3, <1>9 DEF Release, ReqState
<1>10. ASSUME NEW r \in Request, Send(r) PROVE Good
  BY <1>1, <1>10 DEF Send, HandedBack
<1>11. ASSUME NEW c \in Conn, Forget(c) PROVE Good
  <2> SUFFICES ASSUME NEW q \in Request PROVE HandedBack(ReqConn[q], st[q])'
    OBVIOUS
  <2>1. CASE ReqConn[q] = c
    <3>1. st[q] \in {"idle", "over", "orphaned", "parked", "granted"}
      BY <1>1, <1>11, <2>1 DEF Forget, Of, ReqState
    <3>2. conn'[c] = "leaving" /\ st'[q] \in {"idle", "over", "orphaned", "unlinked", "parked"}
      BY <1>1, <1>11, <2>1, <3>1 DEF Forget
    <3>. QED  BY <2>1, <3>2 DEF HandedBack
  <2>2. CASE ReqConn[q] # c
    BY <1>1, <1>11, <2>2 DEF Forget, HandedBack
  <2>. QED  BY <2>1, <2>2
<1>12. ASSUME NEW c \in Conn, DropParked(c) PROVE Good
  <2>1. PICK i \in 1..Len(queue) : ReqConn[queue[i]] = c /\ Answer(queue[i], "over")
    BY <1>12 DEF DropParked
  <2>2. queue[i] \in Request /\ UNCHANGED conn /\ conn[c] = "leaving"
    BY <1>12, QueueElements DEF DropParked
  <2>. QED  BY <2>1, <2>2, AnsweredInPlace DEF HandedBack, ReqState
<1>13. ASSUME NEW c \in Conn, EndForget(c) PROVE Good
  <2> SUFFICES ASSUME NEW q \in Request PROVE HandedBack(ReqConn[q], st[q])'
    OBVIOUS
  <2>1. CASE ReqConn[q] = c
    <3>1. st[q] \in {"idle", "over", "orphaned", "unlinked"}
      BY <1>1, <1>13, <2>1 DEF EndForget, HandedBack, QueueAccounted
    <3>2. conn'[c] = IF HasClaims(c) THEN "left" ELSE "gone"
      BY <1>1, <1>13 DEF EndForget
    <3>3. st'[q] = st[q] /\ (st[q] = "unlinked" => HasClaims(c))
      BY <1>13, <2>1 DEF EndForget, HasClaims, Of
    <3>. QED  BY <2>1, <3>1, <3>2, <3>3 DEF HandedBack
  <2>2. CASE ReqConn[q] # c
    BY <1>1, <1>13, <2>2 DEF EndForget, HandedBack
  <2>. QED  BY <2>1, <2>2
<1>14. ASSUME NEW c \in Conn, HangUp(c) PROVE Good
  BY <1>1, <1>14 DEF HangUp, HandedBack
<1>15. ASSUME NEW c \in Conn, BeginWake(c) PROVE Good
  BY <1>2, <1>15 DEF BeginWake
<1>16. CASE JudgeNext
  <2> DEFINE r == queue[cursor]
  <2>1. r \in Request /\ st[r] = "parked"
    <3>1. cursor \in 1..Len(queue)
      BY <1>16, QueueElements DEF JudgeNext, StateTypeOK
    <3>. QED  BY <3>1 DEF QueueAccounted, Elems
  <2>2. conn[ReqConn[r]] \notin {"absent", "leaving", "left", "gone"}
    BY <1>1, <1>16, <2>1 DEF JudgeNext, Waking, HandedBack, EndInv
  <2>3. UNCHANGED conn /\ (UNCHANGED st \/ \E how \in {"over", "granted"} : Answer(r, how))
    BY <1>16 DEF JudgeNext
  <2> HIDE DEF r
  <2>. QED  BY <1>1, <1>2, <1>3, <2>1, <2>2, <2>3 DEF ReqState
<1>17. CASE RefuseParked
  <2>1. UNCHANGED conn /\ \A r \in Request : st'[r] = IF st[r] = "parked" THEN "over" ELSE st[r]
    BY <1>17 DEF RefuseParked, QueueAccounted
  <2>. QED  BY <1>1, <2>1 DEF HandedBack
<1>18. CASE CloseConns
  BY <1>1, <1>18 DEF CloseConns, HandedBack
<1>19. ASSUME NEW r \in Request, SendCancel(r) PROVE Good
  BY <1>2, <1>19 DEF SendCancel
<1>20. CASE EndWake \/ CountHeld \/ NoticeRelease \/ BeginClose \/ Exit \/ StartDrain \/ Stop
  BY <1>2, <1>20 DEF EndWake, CountHeld, NoticeRelease, BeginClose, Exit, StartDrain, Stop
<1>. QED
  BY <1>4, <1>5, <1>6, <1>7, <1>8, <1>9, <1>10, <1>11, <1>12, <1>13, <1>14, <1>15, <1>16,
     <1>17, <1>18, <1>19, <1>20 DEF System, Environment, Forgets, Wake, Closing

\* Whoever leaves keeps s.mu to the end of its leaving.
LEMMA LeavingStep ==
  ASSUME StateTypeOK, EndInv, System \/ Environment
  PROVE  \A c \in Conn : conn'[c] = "leaving" => mu' = c
<1> USE DEF reqVars, budgetVars, queueVars, connVars, muVars, serveVars
<1>1. /\ conn \in [Conn -> {"absent", "open", "eof", "leaving", "left", "gone"}]
      /\ \A r \in Request : ReqConn[r] \in Conn
      /\ NoConn \notin Conn /\ mu \in Conn \cup {NoConn}
      /\ \A c \in Conn : conn[c] = "leaving" => mu = c
  BY BrokerAssumption DEF StateTypeOK, EndInv
<1>2. ASSUME UNCHANGED mu, \A c \in Conn : conn'[c] = "leaving" => conn[c] = "leaving"
      PROVE  \A c \in Conn : conn'[c] = "leaving" => mu' = c
  BY <1>1, <1>2
<1>3. ASSUME MuFree, UNCHANGED conn PROVE \A c \in Conn : conn'[c] # "leaving"
  BY <1>1, <1>3 DEF MuFree
<1>4. ASSUME NEW r \in Request, Handler(r) \/ Cancel(r) \/ Free(r) \/ LoseFrame(r) \/ Release(r) \/ SendCancel(r)
      PROVE  UNCHANGED <<mu, conn>>
  BY <1>4 DEF Handler, TurnAway, Park, Once, Reassert, Hold, Cancel, Free, LoseFrame, Release,
              SendCancel
<1>5. ASSUME NEW r \in Request, FreeClosed(r) \/ Send(r)
      PROVE  UNCHANGED mu /\ \A c \in Conn : conn'[c] = "leaving" => conn[c] = "leaving"
  BY <1>1, <1>5 DEF FreeClosed, Send
<1>6. ASSUME NEW c \in Conn, Forget(c) PROVE \A d \in Conn : conn'[d] = "leaving" => mu' = d
  BY <1>1, <1>6 DEF Forget, MuFree
<1>7. ASSUME NEW c \in Conn, EndForget(c) PROVE \A d \in Conn : conn'[d] # "leaving"
  BY <1>1, <1>7 DEF EndForget
<1>8. ASSUME NEW c \in Conn, DropParked(c) \/ HangUp(c)
      PROVE  UNCHANGED mu /\ \A d \in Conn : conn'[d] = "leaving" => conn[d] = "leaving"
  BY <1>1, <1>8 DEF DropParked, HangUp
<1>9. ASSUME NEW c \in Conn, BeginWake(c) PROVE MuFree /\ UNCHANGED conn
  BY <1>9 DEF BeginWake
<1>10. CASE JudgeNext
  BY <1>2, <1>10 DEF JudgeNext
<1>11. CASE EndWake
  BY <1>1, <1>11 DEF EndWake, Waking, MuFree
<1>12. CASE RefuseParked \/ CountHeld \/ NoticeRelease \/ BeginClose \/ Exit \/ StartDrain \/ Stop
  BY <1>2, <1>12 DEF RefuseParked, CountHeld, NoticeRelease, BeginClose, Exit, StartDrain, Stop
<1>13. CASE CloseConns
  BY <1>1, <1>2, <1>13 DEF CloseConns
<1>. QED
  BY <1>2, <1>3, <1>4, <1>5, <1>6, <1>7, <1>8, <1>9, <1>10, <1>11, <1>12, <1>13
     DEF System, Environment, Forgets, Wake, Closing

\* Once Serve has returned no goroutine of the broker is left to take a step.
LEMMA ExitStays ==
  ASSUME StateTypeOK, EndInv, loop = "exited", System \/ Environment
  PROVE  UNCHANGED <<conn, owed, mu>>
<1> USE DEF ServeStep
<1>1. /\ closing /\ queue = <<>> /\ 1..Len(queue) = {} /\ mu = NoConn
      /\ \A c \in Conn : conn[c] \in {"absent", "gone"} /\ owed[c] = 0
      /\ \A r \in Request : ReqConn[r] \in Conn /\ st[r] \in {"idle", "over", "orphaned"}
  <2>1. \A c \in Conn : conn[c] \in {"absent", "gone"} /\ owed[c] = 0
    BY DEF EndInv
  <2>2. \A r \in Request : ReqConn[r] \in Conn /\ HandedBack(ReqConn[r], st[r])
    BY BrokerAssumption DEF EndInv
  <2>3. \A r \in Request : st[r] \in {"idle", "over", "orphaned"}
    BY <2>1, <2>2 DEF HandedBack
  <2>. QED  BY <2>1, <2>2, <2>3 DEF EndInv, QueueRefused, MuFree
<1>2. ASSUME NEW r \in Request, Handler(r) \/ Free(r) \/ FreeClosed(r) \/ Release(r) \/ LoseFrame(r) \/ Send(r)
      PROVE  FALSE
  BY <1>1, <1>2 DEF Handler, TurnAway, Park, Once, Reassert, Hold, Arrived, Free, FreeClosed,
                    Release, LoseFrame, Send
<1>3. ASSUME NEW r \in Request, Cancel(r) \/ SendCancel(r) PROVE UNCHANGED <<conn, owed, mu>>
  BY <1>1, <1>3 DEF Cancel, SendCancel, connVars, muVars
<1>4. ASSUME NEW c \in Conn, Forgets(c) \/ BeginWake(c) \/ HangUp(c) PROVE FALSE
  BY <1>1, <1>4 DEF Forgets, Forget, DropParked, EndForget, BeginWake, HangUp
<1>5. ASSUME Wake PROVE FALSE
  BY <1>1, <1>5 DEF Wake, JudgeNext, EndWake, Waking, MuFree
<1>6. ASSUME Closing \/ StartDrain \/ Stop PROVE FALSE
  BY <1>6 DEF Closing, RefuseParked, CountHeld, NoticeRelease, BeginClose, CloseConns, Exit,
              StartDrain, Stop
<1>. QED
  BY <1>2, <1>3, <1>4, <1>5, <1>6 DEF System, Environment

LEMMA EndStep ==
  ASSUME StateTypeOK, QueueAccounted, EndInv, System \/ Environment
  PROVE  EndInv'
<1>1. loop' = "exited" => MuFree' /\ \A c \in Conn : conn'[c] \in {"absent", "gone"} /\ owed'[c] = 0
  <2>1. CASE loop = "exited"
    BY <2>1, ExitStays DEF EndInv, MuFree
  <2>2. CASE Exit
    BY <2>2 DEF Exit, MuFree, connVars, muVars
  <2>. QED  BY <2>1, <2>2, LoopStep
<1>. QED  BY <1>1, LoopStep, LeavingStep, HandedBackStep DEF EndInv

\* A hang-up holds s.mu until nothing of its connection is parked, a connection is
\* gone only once its goroutines have answered for all it asked, what closeConns
\* refused stays refused (server.go:269), and Serve returns after the last of them.
THEOREM EndInvAlways == Spec => []EndInv
<1>1. Init => EndInv
  BY BrokerAssumption DEF Init, EndInv, QueueRefused, HandedBack
<1>2. TypeOK /\ Accounted /\ EndInv /\ [Next]_vars => EndInv'
  <2>1. ASSUME EndInv, UNCHANGED vars PROVE EndInv'
    BY <2>1 DEF vars, reqVars, queueVars, connVars, muVars, serveVars, EndInv, QueueRefused,
                HandedBack, MuFree
  <2>2. Accounted => QueueAccounted
    BY DEF Accounted, QueueAccounted, NoDuplicate
  <2>. QED  BY <2>1, <2>2, EndStep DEF Next, Exited, TypeOK
<1>. QED  BY <1>1, <1>2, TypeCorrect, AccountedCorrect, PTL DEF Spec

\* What a drain or a close emptied the queue of nothing parks in again, and when
\* Serve returns every request is answered and every claim handed back, in every
\* interleaving of its handlers, hang-ups and wakes (park, budget.go:86; forget,
\* server.go:449-456; serve, server.go:336).
THEOREM StrandsNobodyAlways == Spec => []StrandsNobody
<1>1. EndInv => StrandsNobody
  <2> SUFFICES ASSUME EndInv PROVE StrandsNobody
    OBVIOUS
  <2>1. ASSUME loop = "exited"
        PROVE  \A r \in Request : st[r] \in {"idle", "over", "orphaned"}
    BY <2>1, BrokerAssumption DEF EndInv, HandedBack
  <2>2. loop = "exited" => Settled
    BY <2>1 DEF EndInv, Settled
  <2>. QED  BY <2>1, <2>2 DEF EndInv, QueueRefused, StrandsNobody
<1>. QED  BY <1>1, EndInvAlways, PTL

\* Past the refusal of its queue a draining broker seats nothing but what a run
\* re-asserts, whichever handler or wake comes next (WithDrain, server.go:83-87).
THEOREM DrainSeatsNothingAlways == Spec => DrainSeatsNothing
<1> DEFINE Drained ==
      draining /\ loop # "refusing" => budget' \ budget \subseteq {r \in Request : Kind[r] = "reassert"}
<1>1. TypeOK /\ EndInv /\ [Next]_vars => [Drained]_vars
  <2> SUFFICES ASSUME TypeOK, EndInv, System \/ Environment, draining, loop # "refusing"
               PROVE  budget' \ budget \subseteq {r \in Request : Kind[r] = "reassert"}
    BY DEF Next, Exited
  <2> USE DEF budgetVars
  <2>1. Len(queue) = 0
    BY DEF EndInv, QueueRefused
  <2>2. ASSUME NEW r \in Request, Park(r) \/ Once(r) \/ Hold(r) PROVE FALSE
    BY <2>2 DEF Park, Parks, Once, Hold
  <2>3. ASSUME JudgeNext PROVE FALSE
    BY <2>1, <2>3 DEF JudgeNext, TypeOK, StateTypeOK
  <2>4. ASSUME NEW r \in Request, Reassert(r)
        PROVE  budget' \ budget \subseteq {q \in Request : Kind[q] = "reassert"}
    BY <2>4 DEF Reassert, Arrived
  <2>5. ASSUME NEW r \in Request,
               \/ TurnAway(r) \/ Cancel(r) \/ Free(r) \/ FreeClosed(r) \/ LoseFrame(r)
               \/ Release(r) \/ Send(r) \/ SendCancel(r)
        PROVE  budget' \subseteq budget
    BY <2>5 DEF TurnAway, Cancel, Free, FreeClosed, LoseFrame, Release, Send, SendCancel
  <2>6. ASSUME NEW c \in Conn, Forgets(c) \/ BeginWake(c) \/ HangUp(c) PROVE budget' = budget
    BY <2>6 DEF Forgets, Forget, DropParked, EndForget, BeginWake, HangUp
  <2>7. CASE EndWake \/ Closing \/ StartDrain \/ Stop
    BY <2>7 DEF EndWake, Closing, RefuseParked, CountHeld, NoticeRelease, BeginClose,
                CloseConns, Exit, StartDrain, Stop
  <2>. QED
    BY <2>2, <2>3, <2>4, <2>5, <2>6, <2>7 DEF System, Environment, Handler, Wake
<1>. QED  BY <1>1, TypeCorrect, EndInvAlways, PTL DEF Spec, DrainSeatsNothing

-----------------------------------------------------------------------------
(* Who is blocked in exec holds a claim, or its process is gone.             *)

\* The step q, whose command is still to end, holds its claim until its connection is
\* forgotten.
Blocked(q) ==
  \/ st[q] = "granted"
  \/ conn[ReqConn[q]] = "leaving" /\ st[q] \in {"unlinked", "orphaned"}
  \/ conn[ReqConn[q]] \in {"left", "gone"}

Beneath(r) ==
  Parent[r] # NoParent /\ Kind[Parent[r]] # "hold" /\ st[r] \notin {"idle", "over"}
    => Blocked(Parent[r])

\* No handler, wake or hang-up takes a claim from a step that is blocked in exec.
LEMMA BlockedStep ==
  ASSUME StateTypeOK, QueueAccounted, EndInv, System \/ Environment,
         NEW q \in Request, Blocked(q), Kind[q] # "hold",
         NEW r \in Request, Parent[r] = q, st[r] \notin {"idle", "over"}
  PROVE  Blocked(q)'
<1> USE DEF reqVars, budgetVars, queueVars, connVars, muVars, serveVars
<1>1. /\ st \in [Request -> ReqState] /\ \A s \in Request : ReqConn[s] \in Conn
      /\ conn \in [Conn -> {"absent", "open", "eof", "leaving", "left", "gone"}]
      /\ \A s \in Request : HandedBack(ReqConn[s], st[s])
      /\ mu \in Conn \cup {NoConn} /\ NoConn \notin Conn
      /\ \A c \in Conn : conn[c] = "leaving" => mu = c
  BY BrokerAssumption DEF StateTypeOK, EndInv
<1> DEFINE c == ReqConn[q]
<1> HIDE DEF c
<1>2. c \in Conn /\ c = ReqConn[q] BY <1>1 DEF c
<1>3. ASSUME UNCHANGED conn, st'[q] = st[q] PROVE Blocked(q)'
  BY <1>3 DEF Blocked
<1>4. ASSUME UNCHANGED conn, NEW s \in Request, st[s] \notin {"granted", "unlinked", "orphaned"},
             NEW how \in ReqState, Answer(s, how)
      PROVE  Blocked(q)'
  BY <1>1, <1>4 DEF Blocked, Answer
<1>5. ASSUME NEW s \in Request, Handler(s) PROVE Blocked(q)'
  <2>1. st[s] = "sent"
    BY <1>5 DEF Handler, TurnAway, Park, Once, Reassert, Hold, Arrived
  <2>2. UNCHANGED conn /\ \E how \in {"over", "granted", "parked"} : Answer(s, how)
    BY <1>5 DEF Handler, TurnAway, Park, Once, Reassert, Hold
  <2>. QED  BY <1>4, <2>1, <2>2 DEF ReqState
<1>6. ASSUME NEW s \in Request, Cancel(s) \/ LoseFrame(s) \/ SendCancel(s) PROVE Blocked(q)'
  BY <1>1, <1>6 DEF Blocked, Cancel, Answer, LoseFrame, SendCancel
<1>7. ASSUME NEW s \in Request, Free(s) PROVE Blocked(q)'
  <2>1. st[s] = "unlinked" /\ conn[ReqConn[s]] \in {"open", "eof"} /\ UNCHANGED conn
        /\ st' = [st EXCEPT ![s] = "over"]
    BY <1>7 DEF Free, Live, Answer
  <2>. QED  BY <1>1, <2>1 DEF Blocked
<1>8. ASSUME NEW s \in Request, FreeClosed(s) PROVE Blocked(q)'
  <2>1. /\ st[s] = "unlinked" /\ conn[ReqConn[s]] = "left"
        /\ st' = [st EXCEPT ![s] = "over"]
        /\ conn' = conn \/ conn' = [conn EXCEPT ![ReqConn[s]] = "gone"]
    BY <1>8 DEF FreeClosed, Answer
  <2>. QED  BY <1>1, <2>1 DEF Blocked
<1>9. ASSUME NEW s \in Request, Release(s) PROVE Blocked(q)'
  <2>1. s # q
    BY <1>9 DEF Release, Ended
  <2>. QED  BY <1>1, <1>3, <1>9, <2>1 DEF Release, Answer
<1>10. ASSUME NEW s \in Request, Send(s) PROVE Blocked(q)'
  <2>1. st[s] = "idle" /\ conn[ReqConn[s]] \in {"open", "absent"}
        /\ st' = [st EXCEPT ![s] = "sent"] /\ conn' = [conn EXCEPT ![ReqConn[s]] = "open"]
    BY <1>10 DEF Send
  <2>. QED  BY <1>1, <2>1 DEF Blocked
<1>11. ASSUME NEW d \in Conn, Forget(d) PROVE Blocked(q)'
  <2>1. /\ conn[d] = "eof" /\ conn' = [conn EXCEPT ![d] = "leaving"]
        /\ \A s \in Request : st'[s] = IF ReqConn[s] = d /\ st[s] = "granted"
              THEN IF Kind[s] = "hold" /\ closing THEN "orphaned" ELSE "unlinked" ELSE st[s]
    BY <1>11 DEF Forget
  <2>. QED  BY <1>1, <2>1 DEF Blocked
<1>12. ASSUME NEW d \in Conn, DropParked(d) PROVE Blocked(q)'
  <2>1. PICK i \in 1..Len(queue) : ReqConn[queue[i]] = d /\ Answer(queue[i], "over")
    BY <1>12 DEF DropParked
  <2>2. queue[i] \in Request /\ st[queue[i]] = "parked" /\ UNCHANGED conn
    BY <1>12, QueueElements DEF DropParked, QueueAccounted, Elems
  <2>. QED  BY <1>4, <2>1, <2>2 DEF ReqState
<1>13. ASSUME NEW d \in Conn, EndForget(d) PROVE Blocked(q)'
  <2>1. /\ conn[d] = "leaving" /\ UNCHANGED st
        /\ \E to \in {"left", "gone"} : conn' = [conn EXCEPT ![d] = to]
    BY <1>13 DEF EndForget
  <2>. QED  BY <1>1, <2>1 DEF Blocked
<1>14. ASSUME NEW d \in Conn, HangUp(d) PROVE Blocked(q)'
  BY <1>1, <1>14 DEF HangUp, Blocked
<1>15. ASSUME NEW d \in Conn, BeginWake(d) PROVE Blocked(q)'
  BY <1>3, <1>15 DEF BeginWake
<1>16. CASE JudgeNext
  <2> DEFINE s == queue[cursor]
  <2>1. s \in Request /\ st[s] = "parked"
    <3>1. cursor \in 1..Len(queue)
      BY <1>16, QueueElements DEF JudgeNext, StateTypeOK
    <3>. QED  BY <3>1 DEF QueueAccounted, Elems
  <2>2. UNCHANGED conn /\ (UNCHANGED st \/ \E how \in {"over", "granted"} : Answer(s, how))
    BY <1>16 DEF JudgeNext
  <2> HIDE DEF s
  <2>. QED  BY <1>3, <1>4, <2>1, <2>2 DEF ReqState
<1>17. CASE RefuseParked
  <2>1. UNCHANGED conn /\ \A s \in Request : st'[s] = IF st[s] = "parked" THEN "over" ELSE st[s]
    BY <1>17 DEF RefuseParked, QueueAccounted
  <2>. QED  BY <1>1, <2>1 DEF Blocked
<1>18. CASE CloseConns
  BY <1>1, <1>18 DEF CloseConns, Blocked
<1>19. CASE EndWake \/ CountHeld \/ NoticeRelease \/ BeginClose \/ Exit \/ StartDrain \/ Stop
  BY <1>3, <1>19 DEF EndWake, CountHeld, NoticeRelease, BeginClose, Exit, StartDrain, Stop
<1>. QED
  BY <1>5, <1>6, <1>7, <1>8, <1>9, <1>10, <1>11, <1>12, <1>13, <1>14, <1>15, <1>16,
     <1>17, <1>18, <1>19 DEF System, Environment, Forgets, Wake, Closing

\* Only a client's frame makes a request that was not asked one that is.
LEMMA Asked ==
  ASSUME StateTypeOK, QueueAccounted, EndInv, System \/ Environment, NEW r \in Request,
         st[r] \in {"idle", "over"}, st'[r] \notin {"idle", "over"}
  PROVE  Send(r)
<1> USE DEF reqVars
<1>1. st \in [Request -> ReqState]
  BY DEF StateTypeOK
<1>2. ASSUME NEW s \in Request, st[s] \notin {"idle", "over"}, NEW how, Answer(s, how) PROVE FALSE
  BY <1>1, <1>2 DEF Answer
<1>3. ASSUME NEW s \in Request, Handler(s) \/ Free(s) \/ FreeClosed(s) \/ Release(s) PROVE FALSE
  <2>1. st[s] \notin {"idle", "over"}
    BY <1>3 DEF Handler, TurnAway, Park, Once, Reassert, Hold, Arrived, Free, FreeClosed, Release
  <2>2. \E how \in ReqState : Answer(s, how)
    BY <1>3 DEF Handler, TurnAway, Park, Once, Reassert, Hold, Free, FreeClosed, Release, ReqState
  <2>. QED  BY <1>2, <2>1, <2>2
<1>4. ASSUME NEW s \in Request, Cancel(s) \/ LoseFrame(s) \/ SendCancel(s) PROVE FALSE
  BY <1>1, <1>4 DEF Cancel, Answer, LoseFrame, SendCancel
<1>5. ASSUME NEW s \in Request, Send(s) PROVE s = r
  BY <1>1, <1>5 DEF Send
<1>6. ASSUME NEW c \in Conn, Forget(c) PROVE FALSE
  BY <1>6 DEF Forget
<1>7. ASSUME NEW c \in Conn, DropParked(c) PROVE FALSE
  <2>1. PICK i \in 1..Len(queue) : Answer(queue[i], "over")
    BY <1>7 DEF DropParked
  <2>2. queue[i] \in Request /\ st[queue[i]] = "parked"
    BY QueueElements DEF QueueAccounted, Elems
  <2>. QED  BY <1>2, <2>1, <2>2
<1>8. ASSUME NEW c \in Conn, EndForget(c) \/ HangUp(c) \/ BeginWake(c) PROVE FALSE
  BY <1>8 DEF EndForget, HangUp, BeginWake
<1>9. ASSUME JudgeNext PROVE FALSE
  <2>1. cursor \in 1..Len(queue)
    BY <1>9, QueueElements DEF JudgeNext, StateTypeOK
  <2>2. queue[cursor] \in Request /\ st[queue[cursor]] = "parked"
    BY <2>1, QueueElements DEF QueueAccounted, Elems
  <2>3. UNCHANGED st \/ \E how \in ReqState : Answer(queue[cursor], how)
    BY <1>9 DEF JudgeNext, ReqState
  <2>. QED  BY <1>2, <2>2, <2>3
<1>10. ASSUME RefuseParked PROVE FALSE
  BY <1>10 DEF RefuseParked
<1>11. ASSUME EndWake \/ CountHeld \/ NoticeRelease \/ BeginClose \/ CloseConns \/ Exit
              \/ StartDrain \/ Stop
       PROVE  FALSE
  BY <1>11 DEF EndWake, CountHeld, NoticeRelease, BeginClose, CloseConns, Exit, StartDrain, Stop
<1>. QED
  BY <1>3, <1>4, <1>5, <1>6, <1>7, <1>8, <1>9, <1>10, <1>11
     DEF System, Environment, Forgets, Wake, Closing

LEMMA BeneathAlways == Spec => [](\A r \in Request : Beneath(r))
<1> DEFINE Inv == \A r \in Request : Beneath(r)
<1>1. Init => Inv
  BY DEF Init, Beneath
<1>2. TypeOK /\ Accounted /\ EndInv /\ Inv /\ [Next]_vars => Inv'
  <2>1. ASSUME Inv, UNCHANGED vars PROVE Inv'
    BY <2>1 DEF vars, reqVars, connVars, Beneath, Blocked
  <2>2. ASSUME StateTypeOK, QueueAccounted, EndInv, Inv, System \/ Environment,
               NEW r \in Request, Parent[r] # NoParent, Kind[Parent[r]] # "hold",
               st'[r] \notin {"idle", "over"}
        PROVE  Blocked(Parent[r])'
    <3>1. Parent[r] \in Request
      BY <2>2, BrokerAssumption
    <3>2. CASE st[r] \notin {"idle", "over"}
      <4>1. Blocked(Parent[r])
        BY <2>2, <3>2 DEF Beneath
      <4>. QED  BY <2>2, <3>1, <3>2, <4>1, BlockedStep
    <3>3. CASE st[r] \in {"idle", "over"}
      <4>1. Send(r)
        BY <2>2, <3>3, Asked
      <4>2. st[Parent[r]] = "granted" /\ Parent[r] # r
        BY <2>2, <4>1 DEF Send
      <4>3. st'[Parent[r]] = st[Parent[r]]
        BY <3>1, <4>1, <4>2 DEF Send, StateTypeOK
      <4>. QED  BY <4>2, <4>3 DEF Blocked
    <3>. QED  BY <3>2, <3>3
  <2>3. Accounted => QueueAccounted
    BY DEF Accounted, QueueAccounted, NoDuplicate
  <2>. QED  BY <2>1, <2>2, <2>3 DEF Beneath, Next, Exited, TypeOK
<1>. QED  BY <1>1, <1>2, TypeCorrect, AccountedCorrect, EndInvAlways, PTL DEF Spec

\* Where nesting is one level deep, claims are recorded before those underneath wait.
LEMMA OneLevelFirst ==
  ASSUME OneLevel, StateTypeOK, Accounted, OnlyParkedWait, EndInv, \A r \in Request : Beneath(r)
  PROVE  AncestorsFirst
<1> SUFFICES ASSUME NEW r \in Elems, NEW a \in AncestorsOf(r) \ Wrapper,
                    ~\E q \in budget : Claim[q].invocation = a,
                    NEW q \in Request, Claim[q].invocation = a
             PROVE  st[q] # "parked" /\ st[q] # "sent"
  BY DEF AncestorsFirst
<1>1. r \in Request /\ st[r] = "parked" /\ Kind[r] = "park"
  BY DEF Accounted, OnlyParkedWait
<1> DEFINE p == Parent[r]
<1>2. /\ p # NoParent /\ p \in Request /\ Kind[p] # "hold" /\ Claim[p].invocation = a
  BY <1>1, BrokerAssumption DEF OneLevel
<1>3. a \in Invocation \ Wrapper
  <2>1. Claim[r].ancestors \in Seq(Invocation)
    BY <1>1, BudgetAssumption DEF ClaimType
  <2>. QED  BY <2>1 DEF AncestorsOf, ToSet
<1>4. Blocked(p) /\ st[p] \notin {"granted", "unlinked", "orphaned"}
  BY <1>1, <1>2 DEF Beneath, Accounted
<1>5. conn[ReqConn[p]] \in {"left", "gone"} /\ ReqConn[q] = ReqConn[p]
  BY <1>2, <1>3, <1>4 DEF Blocked, OneLevel
<1>. QED  BY <1>5 DEF EndInv, HandedBack

\* "runs after anything that frees room" (wake, budget.go:153): where nesting is one
\* level deep, whatever is killed and whatever hangs up, the broker at rest would answer
\* none of its parked requests unless a gate stands before a starved head.
THEOREM NoLostWakeOneLevel ==
  ASSUME OneRunPerProcess, OneLevel
  PROVE  Spec => [](StarvedBehindGate \/ NoLostWake)
<1>1. OneLevel /\ TypeOK /\ Accounted /\ OnlyParkedWait /\ EndInv /\ (\A r \in Request : Beneath(r))
        => AncestorsFirst
  BY OneLevelFirst DEF TypeOK
<1>2. Spec => []AncestorsFirst
  BY <1>1, TypeCorrect, AccountedCorrect, OnlyParkedWaitAlways, EndInvAlways, BeneathAlways, PTL
<1>. QED  BY <1>2, NoLostWakeAlways, PTL
=============================================================================
