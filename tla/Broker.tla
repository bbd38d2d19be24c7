------------------------------- MODULE Broker -------------------------------
(***************************************************************************)
(* One broker process (broker/server.go, budget.go, gate.go and the seats  *)
(* of owner.go): it grants, queues and turns away the machine claims of    *)
(* the magus processes connected to it, from the first connection to the   *)
(* return of Serve.                                                        *)
(*                                                                         *)
(* Every frame is handled by a goroutine of its own.  Two mutexes order    *)
(* them: s.mu, over the queue and the sessions, and the budget's own.  A   *)
(* step that takes s.mu is one action, except a wake and a hang-up, which  *)
(* hold s.mu over several budget calls: a claim may be freed between two   *)
(* of those, since MachineBudget.Release takes the budget's mutex alone.   *)
(*                                                                         *)
(* A request is one claim a client asks for once.  What the client was     *)
(* told (the parked frames and their order) is left out, and so are the    *)
(* shared services and the process groups riding a claim.                  *)
(***************************************************************************)
EXTENDS MachineBudget

CONSTANTS
  Conn,            \* the connections, one per magus process
  NoConn,
  ReqConn,         \* the connection each request goes over
  Kind,            \* how each request asks for its claim, see ASSUME
  Parent,          \* the step whose command is the asking magus
  NoParent,
  Gate,            \* the connections whose hello says gate
  Tree,            \* the job tree of each hello whose validations are capped
  NoTree,
  PidRun,          \* the run a connection's unstamped claim belongs to ("pid N")
  MaxValidations,
  MaxOvertakes,
  DefaultWeight,   \* the weight of a claim that names none
  Stops,           \* how Serve may be told to end
  Quits,           \* bound: the connections that may close
  Cancels          \* bound: the requests whose client may give up waiting

ASSUME BrokerAssumption ==
  /\ NoConn \notin Conn
  /\ NoParent \notin Request
  /\ ReqConn \in [Request -> Conn]
  \* a parked Claim, an unparked Request, a Reassert, or job exec's Hold
  /\ Kind \in [Request -> {"park", "once", "reassert", "hold"}]
  /\ Parent \in [Request -> Request \cup {NoParent}]
  /\ Gate \subseteq Conn
  /\ DOMAIN Tree = Conn
  /\ DOMAIN PidRun = Conn
  /\ \A c \in Conn : PidRun[c] # NoRun
  /\ \A r \in Request : Claim[r].invocation \in Wrapper => Kind[r] = "hold"
  /\ MaxValidations \in Nat \ {0}
  /\ MaxOvertakes \in Nat \ {0}
  /\ DefaultWeight \in Nat
  \* a drain, or at once: ctx, a shutdown frame, the grace, the idle window
  /\ Stops \subseteq {"drain", "stop"}
  /\ Quits \subseteq Conn
  /\ Cancels \subseteq {r \in Request : Kind[r] = "park"}

VARIABLES
  st,         \* of each request: what became of it
  cancel,     \* of each request: its cancel frame is not sent, sent, or handled
  budget,     \* MachineBudget's table: the requests whose claim is recorded
  charged,    \* history: the ancestors whose free seat a request was given
  queue,      \* s.queue
  overtaken,  \* of each parked request, 0 for any other
  gate,       \* the parked requests whose claim runs under a gate
  conn,       \* of each connection: where its handler is
  seat,       \* of each session: the run it holds a validation seat for
  gateRun,    \* of each session: the run of a gate that has asked
  owed,       \* of each connection: the wakes its goroutines have yet to run
  mu,         \* who holds s.mu between two actions
  cursor,     \* where in the queue the wake that holds s.mu is
  loop,       \* where Serve is
  draining, closing,
  poked,      \* s.released holds a token
  behind      \* history: the requests seated past the room the queue's head keeps

reqVars    == <<st, cancel>>
budgetVars == <<budget, charged>>
queueVars  == <<queue, overtaken, gate>>
connVars   == <<conn, seat, gateRun, owed>>
muVars     == <<mu, cursor>>
serveVars  == <<loop, draining, closing, poked>>

vars == <<reqVars, budgetVars, queueVars, connVars, muVars, serveVars, behind>>

-----------------------------------------------------------------------------
Unasked == {r \in Request : Kind[r] \in {"reassert", "hold"}}

Of(c) == {r \in Request : ReqConn[r] = c}
Elems == {queue[i] : i \in 1..Len(queue)}

MuFree == mu = NoConn

\* s.conns holds a session from its hello to its forget.
Live(c) == conn[c] \in {"open", "eof"}

\* The run a claim belongs to, as seats and gates name it.
RunKey(r) == IF Run(r) = NoRun THEN PidRun[ReqConn[r]] ELSE Run(r)

Init ==
  /\ st = [r \in Request |-> "idle"]
  /\ cancel = [r \in Request |-> "no"]
  /\ budget = {}
  /\ charged = [r \in Request |-> {}]
  /\ queue = <<>>
  /\ overtaken = [r \in Request |-> 0]
  /\ gate = {}
  /\ conn = [c \in Conn |-> "absent"]
  /\ seat = [c \in Conn |-> NoRun]
  /\ gateRun = [c \in Conn |-> NoRun]
  /\ owed = [c \in Conn |-> 0]
  /\ mu = NoConn
  /\ cursor = 1
  /\ loop = "serving"
  /\ draining = FALSE
  /\ closing = FALSE
  /\ poked = FALSE
  /\ behind = {}

-----------------------------------------------------------------------------
(* Validation seats: at most MaxValidations runs of one tree, a seat kept    *)
(* until its connection closes.                                              *)

Capped(c) == Tree[c] # NoTree

SeatedRuns(t) == {seat[c] : c \in {d \in Conn : Tree[d] = t}} \ {NoRun}

\* Mutant of MaySit: one run too many.
MaySitOneMore(r) ==
  LET c == ReqConn[r]
  IN  \/ ~Capped(c)
      \/ seat[c] # NoRun
      \/ Cardinality(SeatedRuns(Tree[c]) \ {RunKey(r)}) <= MaxValidations

\* What seatLocked finds without force: no cap, a seat already, or one free.
MaySit(r) ==
  LET c == ReqConn[r]
  IN  \/ ~Capped(c)
      \/ seat[c] # NoRun
      \/ Cardinality(SeatedRuns(Tree[c]) \ {RunKey(r)}) < MaxValidations

Sit(r) ==
  LET c == ReqConn[r]
  IN  seat' = IF Capped(c) /\ seat[c] = NoRun
              THEN [seat EXCEPT ![c] = RunKey(r)] ELSE seat

-----------------------------------------------------------------------------
(* Gates, and the room kept ahead.                                           *)

\* A gate session records its run when it first asks.
MarkGate(r) ==
  LET c == ReqConn[r]
  IN  gateRun' = IF c \in Gate /\ gateRun[c] = NoRun
                 THEN [gateRun EXCEPT ![c] = RunKey(r)] ELSE gateRun

\* r's session is a gate, or r runs underneath a gate that has asked.
UnderGate(r) ==
  \/ ReqConn[r] \in Gate
  \/ /\ Run(r) # NoRun
     /\ \E g \in Gate : Live(g) /\ gateRun[g] = Run(r)

Starved(r) == overtaken[r] >= MaxOvertakes

\* Mutant of StarvedHead: the head keeps no room however often it is overtaken.
StarvedNever == {}

StarvedHead == IF queue # <<>> /\ Starved(Head(queue)) THEN {Head(queue)} ELSE {}

\* The first of the gates waiting, r aside.
FirstGate(r) ==
  LET gates == {i \in 1..Len(queue) : queue[i] \in gate /\ queue[i] # r}
  IN  {queue[i] : i \in {k \in gates : \A j \in gates : k <= j}}

\* The request r is judged as if it already held its seat, none or one.
Ahead(r, isGate, atHead) ==
  IF ~isGate /\ FirstGate(r) # {} THEN FirstGate(r)
  ELSE IF atHead THEN {} ELSE StarvedHead

\* claimTry, with the claim of the request ahead asserted beside the table.
Beside(ahead) == budget \cup ahead

\* Mutant of Seats: the budget is asked as if nothing were held.
SeatsAlone(r, ahead) == MaySit(r) /\ FitsAlone(r)

Seats(r, ahead)   == MaySit(r) /\ Admits(r, Beside(ahead))
Refuses(r)        == MaySit(r) /\ ~FitsAlone(r)
Waits(r, ahead)   == ~Seats(r, ahead) /\ ~Refuses(r)

\* A seat taken on the way to a wait for room is kept.
TrySit(r) == IF MaySit(r) THEN Sit(r) ELSE UNCHANGED seat

Grant(r, ahead) ==
  /\ budget' = budget \cup {r}
  /\ charged' = [charged EXCEPT ![r] = ChargeOf(r, Beside(ahead))]

\* A grant judged behind nobody overtakes the head it is not.
BumpHead(r, ahead) ==
  IF ahead = {} /\ queue # <<>> /\ Head(queue) # r
  THEN [overtaken EXCEPT ![Head(queue)] = @ + 1]
  ELSE overtaken

-----------------------------------------------------------------------------
(* The queue.                                                                *)

Weight(r) == IF Claim[r].weight = 0 THEN DefaultWeight ELSE Claim[r].weight

\* Mutant of Holds: a starved request is overtaken by what weighs more.
HoldsByWeight(q, r) == q \in gate \/ Weight(q) >= Weight(r)

\* A parked request nothing lighter than itself goes ahead of.
Holds(q, r) == q \in gate \/ Starved(q) \/ Weight(q) >= Weight(r)

\* Mutant of Place: first come, first served.
PlaceLast(r, isGate) == Len(queue) + 1

\* Where r goes: a gate ahead of the first that is none, any other behind the
\* last that holds its place.
Place(r, isGate) ==
  1 + Cardinality(
        IF isGate
        THEN {i \in 1..Len(queue) : \A j \in 1..i : queue[j] \in gate}
        ELSE {i \in 1..Len(queue) : \E j \in i..Len(queue) : Holds(queue[j], r)})

Enqueue(r, isGate) ==
  LET at     == Place(r, isGate)
      passed == IF isGate THEN {} ELSE {queue[i] : i \in at..Len(queue)}
  IN  /\ queue' = InsertAt(queue, at, r)
      /\ overtaken' = [q \in Request |->
                         IF q \in passed THEN overtaken[q] + 1 ELSE overtaken[q]]
      /\ gate' = IF isGate THEN gate \cup {r} ELSE gate

\* r leaves position i of the queue; over is what overtaken was made before.
Dequeue(r, i, over) ==
  /\ queue' = RemoveAt(queue, i)
  /\ overtaken' = [over EXCEPT ![r] = 0]
  /\ gate' = gate \ {r}

-----------------------------------------------------------------------------
(* The clients: what each process sends over its connection.                 *)

\* The first request dials.  A client re-asserts what it holds, one claim after
\* the other, before it asks for anything else (Client.connect).
Send(r) ==
  LET c == ReqConn[r]
      reasserts == {q \in Of(c) : Kind[q] = "reassert"}
  IN  /\ st[r] = "idle"
      /\ conn[c] = "open" \/ (conn[c] = "absent" /\ ~closing)
      /\ Parent[r] # NoParent => st[Parent[r]] = "granted" /\ cancel[Parent[r]] = "no"
      /\ \A q \in reasserts : st[q] # "sent"
      /\ r \notin reasserts => \A q \in reasserts : st[q] # "idle"
      /\ st' = [st EXCEPT ![r] = "sent"]
      /\ conn' = [conn EXCEPT ![c] = "open"]
      /\ UNCHANGED <<cancel, budgetVars, queueVars, seat, gateRun, owed, muVars, serveVars>>

\* The client's context ends while it waits: it tells the broker, on a frame
\* whose goroutine may run before the claim's own.
SendCancel(r) ==
  /\ r \in Cancels
  /\ st[r] \in {"sent", "parked"}
  /\ conn[ReqConn[r]] = "open"
  /\ cancel[r] = "no"
  /\ cancel' = [cancel EXCEPT ![r] = "sent"]
  /\ UNCHANGED <<st, budgetVars, queueVars, connVars, muVars, serveVars>>

\* The process ends, however it ends.
HangUp(c) ==
  /\ c \in Quits
  /\ conn[c] = "open"
  /\ conn' = [conn EXCEPT ![c] = "eof"]
  /\ UNCHANGED <<reqVars, budgetVars, queueVars, seat, gateRun, owed, muVars, serveVars>>

-----------------------------------------------------------------------------
(* The handlers of a claim.                                                  *)

Answer(r, how)  == st' = [st EXCEPT ![r] = how]
OweWake(c)      == owed' = [owed EXCEPT ![c] = @ + 1]
Arrived(r, kind) == MuFree /\ st[r] = "sent" /\ Kind[r] = kind

\* Mutant of Parks: a stopping broker parks.
ParksClosing == ~draining

\* Mutant of Parks: a draining broker seats what would be parked.
ParksDraining == ~closing

\* A claim is parked only by a broker that neither drains nor stops.
Parks == ~draining /\ ~closing

\* A draining broker turns away what it has not seated, a stopping one what it
\* would have to queue.
TurnAway(r) ==
  /\ MuFree
  /\ st[r] = "sent"
  /\ (draining /\ Kind[r] # "reassert") \/ (closing /\ Kind[r] = "park")
  /\ Answer(r, "over")
  /\ UNCHANGED <<cancel, budgetVars, queueVars, connVars, muVars, serveVars>>

Park(r) ==
  LET isGate == UnderGate(r)
      ahead  == Ahead(r, isGate, FALSE)
  IN  /\ Arrived(r, "park")
      /\ Parks
      /\ MarkGate(r)
      /\ TrySit(r)
      /\ \/ /\ Seats(r, ahead)
            /\ Answer(r, "granted")
            /\ Grant(r, ahead)
            /\ overtaken' = BumpHead(r, ahead)
            /\ IF queue # <<>> THEN OweWake(ReqConn[r]) ELSE UNCHANGED owed
            /\ UNCHANGED <<queue, gate>>
         \/ /\ Refuses(r)
            /\ Answer(r, "over")
            /\ UNCHANGED <<budgetVars, queueVars, owed>>
         \/ /\ Waits(r, ahead)
            /\ Answer(r, "parked")
            /\ Enqueue(r, isGate)
            /\ UNCHANGED <<budgetVars, owed>>
      /\ UNCHANGED <<cancel, conn, muVars, serveVars>>

\* An unparked claim is answered at once, and waits behind gates alone.
Once(r) ==
  LET ahead == Ahead(r, UnderGate(r), TRUE)
  IN  /\ Arrived(r, "once")
      /\ ~draining
      /\ TrySit(r)
      /\ IF MaySit(r) THEN MarkGate(r) ELSE UNCHANGED gateRun
      /\ IF Seats(r, ahead)
         THEN Answer(r, "granted") /\ Grant(r, ahead) /\ OweWake(ReqConn[r])
         ELSE Answer(r, "over") /\ UNCHANGED <<budgetVars, owed>>
      /\ UNCHANGED <<cancel, queueVars, conn, muVars, serveVars>>

\* A step that already runs is recorded whatever the budget or the seats say.
Reassert(r) ==
  /\ Arrived(r, "reassert")
  /\ Sit(r)
  /\ Answer(r, "granted")
  /\ budget' = budget \cup {r}
  /\ OweWake(ReqConn[r])
  /\ UNCHANGED <<cancel, charged, queueVars, conn, gateRun, muVars, serveVars>>

\* So is a command job exec started under a deadline.
Hold(r) ==
  /\ Arrived(r, "hold")
  /\ ~draining
  /\ Answer(r, "granted")
  /\ budget' = budget \cup {r}
  /\ UNCHANGED <<cancel, charged, queueVars, connVars, muVars, serveVars>>

\* What the cancelled request kept from others may be theirs now.
WakeAsCancelled(c) == OweWake(c)

Cancel(r) ==
  /\ MuFree
  /\ cancel[r] = "sent"
  /\ cancel' = [cancel EXCEPT ![r] = "handled"]
  /\ IF st[r] = "parked"
     THEN /\ Answer(r, "over")
          /\ \E i \in 1..Len(queue) : queue[i] = r /\ Dequeue(r, i, overtaken)
          /\ WakeAsCancelled(ReqConn[r])
     ELSE UNCHANGED <<st, queueVars, owed>>
  /\ UNCHANGED <<budgetVars, conn, seat, gateRun, muVars, serveVars>>

-----------------------------------------------------------------------------
(* Giving a claim back.                                                      *)

\* Nothing r started still asks or runs: its command has ended.  A deadline
\* ends job exec's command whatever runs underneath.
Ended(r) ==
  \/ Kind[r] = "hold"
  \/ \A q \in Request : Parent[q] = r => st[q] \in {"idle", "over"}

\* The session lets go of the claim under s.mu, then the budget frees it.
Release(r) ==
  /\ MuFree
  /\ st[r] = "granted"
  /\ conn[ReqConn[r]] = "open"
  /\ Ended(r)
  /\ Answer(r, "unlinked")
  /\ UNCHANGED <<cancel, budgetVars, queueVars, connVars, muVars, serveVars>>

\* Mutant of noteRelease: the queue is not told.
noteReleaseSilent(c) == poked' = TRUE /\ UNCHANGED owed

\* Mutant of noteRelease: Serve is not told.
noteReleaseTokenless(c) == OweWake(c) /\ UNCHANGED poked

noteRelease(c) == poked' = TRUE /\ OweWake(c)

Free(r) ==
  /\ st[r] = "unlinked"
  /\ Live(ReqConn[r])
  /\ Answer(r, "over")
  /\ budget' = budget \ {r}
  /\ noteRelease(ReqConn[r])
  /\ UNCHANGED <<cancel, charged, queueVars, conn, seat, gateRun, muVars, loop, draining, closing>>

\* A closed connection whose goroutines have all answered is forgotten, and
\* what it holds goes with it; a stopping broker leaves a hold's claim alone.
Forget(c) ==
  /\ MuFree
  /\ conn[c] = "eof"
  /\ owed[c] = 0
  /\ \A r \in Of(c) : st[r] \notin {"sent", "unlinked"} /\ cancel[r] # "sent"
  /\ conn' = [conn EXCEPT ![c] = "leaving"]
  /\ st' = [r \in Request |->
              IF ReqConn[r] = c /\ st[r] = "granted"
              THEN IF Kind[r] = "hold" /\ closing THEN "orphaned" ELSE "unlinked"
              ELSE st[r]]
  /\ seat' = [seat EXCEPT ![c] = NoRun]
  /\ mu' = c
  /\ UNCHANGED <<cancel, budgetVars, queueVars, gateRun, owed, cursor, serveVars>>

\* dropLocked, one request after the other.
DropParked(c) ==
  /\ mu = c
  /\ conn[c] = "leaving"
  /\ \E i \in 1..Len(queue) :
       /\ ReqConn[queue[i]] = c
       /\ \A j \in 1..(i - 1) : ReqConn[queue[j]] # c
       /\ Answer(queue[i], "over")
       /\ Dequeue(queue[i], i, overtaken)
  /\ UNCHANGED <<cancel, budgetVars, connVars, muVars, serveVars>>

HasClaims(c) == \E r \in Of(c) : st[r] = "unlinked"

\* A seat or a parked request frees room with no claim released.
WakeAsForgotten(c) == OweWake(c)

\* The claims are freed without s.mu; with none to free, the wake is due.
EndForget(c) ==
  LET frees == HasClaims(c)
  IN  /\ mu = c
      /\ conn[c] = "leaving"
      /\ \A q \in Elems : ReqConn[q] # c
      /\ mu' = NoConn
      /\ conn' = [conn EXCEPT ![c] = IF frees THEN "left" ELSE "gone"]
      /\ IF frees THEN UNCHANGED owed ELSE WakeAsForgotten(c)
      /\ UNCHANGED <<reqVars, budgetVars, queueVars, seat, gateRun, cursor, serveVars>>

\* After the last, one wake for noteRelease and one as forget returns.
FreeClosed(r) ==
  LET c    == ReqConn[r]
      last == \A q \in Of(c) \ {r} : st[q] # "unlinked"
  IN  /\ st[r] = "unlinked"
      /\ conn[c] = "left"
      /\ Answer(r, "over")
      /\ budget' = budget \ {r}
      /\ IF last
         THEN /\ conn' = [conn EXCEPT ![c] = "gone"]
              /\ owed' = [owed EXCEPT ![c] = @ + 2]
              /\ poked' = TRUE
         ELSE UNCHANGED <<conn, owed, poked>>
      /\ UNCHANGED <<cancel, charged, queueVars, seat, gateRun, muVars, loop, draining, closing>>

-----------------------------------------------------------------------------
(* A wake tries every parked request in order, under s.mu throughout.        *)

BeginWake(c) ==
  /\ MuFree
  /\ owed[c] > 0
  /\ owed' = [owed EXCEPT ![c] = @ - 1]
  /\ mu' = IF queue = <<>> THEN NoConn ELSE c
  /\ UNCHANGED <<reqVars, budgetVars, queueVars, conn, seat, gateRun, cursor, serveVars>>

Waking == ~MuFree /\ conn[mu] # "leaving"

JudgeNext ==
  /\ Waking
  /\ cursor <= Len(queue)
  /\ LET r     == queue[cursor]
         ahead == Ahead(r, r \in gate, cursor = 1)
     IN  /\ TrySit(r)
         /\ \/ /\ Seats(r, ahead)
               /\ Answer(r, "granted")
               /\ Grant(r, ahead)
               /\ Dequeue(r, cursor, BumpHead(r, ahead))
               /\ UNCHANGED cursor
            \/ /\ Refuses(r)
               /\ Answer(r, "over")
               /\ Dequeue(r, cursor, overtaken)
               /\ UNCHANGED <<budgetVars, cursor>>
            \/ /\ Waits(r, ahead)
               /\ cursor' = cursor + 1
               /\ UNCHANGED <<st, budgetVars, queueVars>>
  /\ UNCHANGED <<cancel, conn, gateRun, owed, mu, serveVars>>

EndWake ==
  /\ Waking
  /\ cursor > Len(queue)
  /\ mu' = NoConn
  /\ cursor' = 1
  /\ UNCHANGED <<reqVars, budgetVars, queueVars, connVars, serveVars>>

-----------------------------------------------------------------------------
(* Serve's loop, and how it ends.                                            *)

ServeStep(from, to) == loop \in from /\ loop' = to

StartDrain ==
  /\ "drain" \in Stops
  /\ MuFree
  /\ ServeStep({"serving"}, "refusing")
  /\ draining' = TRUE
  /\ UNCHANGED <<reqVars, budgetVars, queueVars, connVars, muVars, closing, poked>>

\* Mutant of RefuseParked: the requests are answered and left in the queue.
RefuseKeepsQueue ==
  /\ MuFree
  /\ ServeStep({"refusing"}, "counting") \/ ServeStep({"closing"}, "hangup")
  /\ st' = [r \in Request |-> IF r \in Elems THEN "over" ELSE st[r]]
  /\ UNCHANGED <<cancel, queueVars, budgetVars, connVars, muVars, draining, closing, poked>>

\* refuseParked, once as a drain starts and once as the broker closes.
RefuseParked ==
  /\ MuFree
  /\ ServeStep({"refusing"}, "counting") \/ ServeStep({"closing"}, "hangup")
  /\ st' = [r \in Request |-> IF r \in Elems THEN "over" ELSE st[r]]
  /\ queue' = <<>>
  /\ overtaken' = [r \in Request |-> 0]
  /\ gate' = {}
  /\ UNCHANGED <<cancel, budgetVars, connVars, muVars, draining, closing, poked>>

CountHeld ==
  /\ ServeStep({"counting"}, IF budget = {} THEN "stopping" ELSE "draining")
  /\ UNCHANGED <<reqVars, budgetVars, queueVars, connVars, muVars, draining, closing, poked>>

\* A token of s.released is taken whether or not the broker drains.
NoticeRelease ==
  /\ poked
  /\ poked' = FALSE
  /\ \/ ServeStep({"serving"}, "serving")
     \/ ServeStep({"draining"}, IF budget = {} THEN "stopping" ELSE "draining")
  /\ UNCHANGED <<reqVars, budgetVars, queueVars, connVars, muVars, draining, closing>>

Stop ==
  /\ "stop" \in Stops
  /\ ServeStep({"serving", "draining"}, "stopping")
  /\ UNCHANGED <<reqVars, budgetVars, queueVars, connVars, muVars, draining, closing, poked>>

BeginClose ==
  /\ MuFree
  /\ ServeStep({"stopping"}, "closing")
  /\ closing' = TRUE
  /\ UNCHANGED <<reqVars, budgetVars, queueVars, connVars, muVars, draining, poked>>

CloseConns ==
  /\ MuFree
  /\ ServeStep({"hangup"}, "waiting")
  /\ conn' = [c \in Conn |-> IF conn[c] = "open" THEN "eof" ELSE conn[c]]
  /\ UNCHANGED <<reqVars, budgetVars, queueVars, seat, gateRun, owed, muVars, draining, closing, poked>>

\* A frame no one has read by the time the broker closes the connection.
LoseFrame(r) ==
  /\ loop = "waiting"
  /\ conn[ReqConn[r]] = "eof"
  /\ st[r] = "sent" \/ cancel[r] = "sent"
  /\ st' = [st EXCEPT ![r] = IF @ = "sent" THEN "over" ELSE @]
  /\ cancel' = [cancel EXCEPT ![r] = IF @ = "sent" THEN "handled" ELSE @]
  /\ UNCHANGED <<budgetVars, queueVars, connVars, muVars, serveVars>>

\* s.wg.Wait: every handler has returned.
Exit ==
  /\ ServeStep({"waiting"}, "exited")
  /\ MuFree
  /\ \A c \in Conn : conn[c] \in {"absent", "gone"} /\ owed[c] = 0
  /\ UNCHANGED <<reqVars, budgetVars, queueVars, connVars, muVars, draining, closing, poked>>

Exited == loop = "exited" /\ UNCHANGED <<vars>>

-----------------------------------------------------------------------------
\* The head's room is not r's to take: it was overtaken its fill, which a request
\* answered at once does not ask, or it is a gate's and r is judged as none.
KeepsRoomFrom(h, r) ==
  \/ Starved(h) /\ Kind[r] # "once"
  \/ h \in gate /\ ~(IF r \in Elems THEN r \in gate ELSE UnderGate(r))

Behind ==
  behind' = IF queue = <<>> \/ queue' = <<>> \/ queue[1] # queue'[1] THEN {}
            ELSE {r \in (behind \cup (budget' \ (budget \cup Unasked))) \cap budget' :
                    r \in behind \/ KeepsRoomFrom(queue[1], r)}

Handler(r) == TurnAway(r) \/ Park(r) \/ Once(r) \/ Reassert(r) \/ Hold(r)
Forgets(c) == Forget(c) \/ DropParked(c) \/ EndForget(c)
Wake       == JudgeNext \/ EndWake
Closing    == RefuseParked \/ CountHeld \/ NoticeRelease \/ BeginClose \/ CloseConns \/ Exit

\* What happens whether or not a client does anything more: goroutines run, and a
\* step ends once nothing it started still runs.
System ==
  \/ \E r \in Request : \/ Handler(r) \/ Cancel(r) \/ Free(r) \/ FreeClosed(r)
                        \/ LoseFrame(r) \/ Release(r)
  \/ \E c \in Conn : Forgets(c) \/ BeginWake(c)
  \/ Wake \/ Closing

Environment ==
  \/ \E r \in Request : Send(r) \/ SendCancel(r)
  \/ \E c \in Conn : HangUp(c)
  \/ StartDrain \/ Stop

Next == ((System \/ Environment) /\ Behind) \/ Exited

Spec == Init /\ [][Next]_vars

\* Nothing is asked twice, so a behaviour takes finitely many steps, and that the
\* system goes on while it can is all the fairness there is to ask for.
Fairness == WF_vars(System /\ Behind)

FairSpec == Spec /\ Fairness

-----------------------------------------------------------------------------
ReqState ==
  {"idle", "sent", "parked", "granted", "unlinked", "orphaned", "over"}

RunKeys == Invocation \cup {NoRun} \cup {PidRun[c] : c \in Conn}

StateTypeOK ==
  /\ st \in [Request -> ReqState]
  /\ cancel \in [Request -> {"no", "sent", "handled"}]
  /\ budget \subseteq Request
  /\ charged \in [Request -> SUBSET Invocation]
  /\ queue \in Seq(Request)
  /\ overtaken \in [Request -> Nat]
  /\ gate \subseteq Request
  /\ conn \in [Conn -> {"absent", "open", "eof", "leaving", "left", "gone"}]
  /\ seat \in [Conn -> RunKeys]
  /\ gateRun \in [Conn -> RunKeys]
  /\ owed \in [Conn -> Nat]
  /\ mu \in Conn \cup {NoConn}
  /\ cursor \in Nat \ {0}
  /\ loop \in {"serving", "refusing", "counting", "draining", "stopping",
              "closing", "hangup", "waiting", "exited"}
  /\ draining \in BOOLEAN /\ closing \in BOOLEAN /\ poked \in BOOLEAN

TypeOK == StateTypeOK /\ behind \subseteq Request

\* The table, the sessions and the queue agree whatever was interrupted: a claim
\* is charged to the budget exactly while a session or a goroutine freeing it
\* answers for it, and a request is in the queue once, exactly while it is owed
\* an answer.
Accounted ==
  /\ budget = {r \in Request : st[r] \in {"granted", "unlinked", "orphaned"}}
  /\ Elems = {r \in Request : st[r] = "parked"}
  /\ \A i, j \in 1..Len(queue) : i # j => queue[i] # queue[j]

\* No goroutine is still to free a claim or to wake the queue.
Settled ==
  /\ MuFree
  /\ \A c \in Conn : owed[c] = 0
  /\ \A r \in Request : st[r] # "unlinked"

\* "wake tries every parked request in order ... It runs after anything that
\* frees room" (budget.go:153): once the broker comes to rest, no parked request
\* is one it would answer if it looked (but see GatesGoFirst).
NoLostWake ==
  Settled => \A i \in 1..Len(queue) :
               Waits(queue[i], Ahead(queue[i], queue[i] \in gate, i = 1))

\* A gate parks ahead of a head that has been overtaken its fill (enqueueLocked puts it
\* first whoever waits): the room the head kept is kept for it no more, and no wake
\* looks whether someone fits there.
StarvedBehindGate == \E r \in Elems \ gate : Starved(r) /\ gate # {}

\* An invocation a parked request runs underneath holds a claim, its step being blocked
\* in exec (freeSlot, internal/cache/machine.go:354), or nothing of it waits to hold one:
\* no claim seated later has a free seat to give to who was judged before.
AncestorsFirst ==
  \A r \in Elems : \A a \in AncestorsOf(r) \ Wrapper :
    \/ \E q \in budget : Claim[q].invocation = a
    \/ \A q \in Request : Claim[q].invocation = a =>
         st[q] # "parked" /\ ~(Kind[q] = "hold" /\ st[q] = "sent")

\* The room a claim, a seat or a place in the queue gives back is never left lying: at
\* rest, a parked request that may take a validation seat does not fit beside what is
\* held and kept, whichever wakes, hang-ups and cancels let go of what (wake,
\* budget.go:153).
NoLostRoom ==
  Settled /\ ~StarvedBehindGate =>
    \A i \in 1..Len(queue) :
      LET ahead == Ahead(queue[i], queue[i] \in gate, i = 1)
      IN  MaySit(queue[i]) => /\ FitsAlone(queue[i])
                              /\ ~FitsHeld(queue[i], Beside(ahead))

\* "A gate goes first" (concurrency.md:338), and what keeps the room of a starved head is
\* "everything behind" it (budget.go:15-17): at rest, the gate at the queue's head is not
\* one the broker has room for.
GatesGoFirst == Settled /\ queue # <<>> /\ Head(queue) \in gate => Waits(Head(queue), {})

\* enqueueLocked, judgeLocked and wake each count an overtaking: together they
\* never take a request past maxOvertakes.
OvertakenBounded == \A r \in Request : overtaken[r] <= MaxOvertakes

\* A gate is never behind a request that is none, so the first gate waiting,
\* which is what keeps room, is the head of the queue (enqueueLocked, gate.go:74).
GatesLead ==
  \A i, j \in 1..Len(queue) : i < j /\ queue[j] \in gate => queue[i] \in gate

\* r belongs to a run one of whose steps a connected gate has seated.
InGateRun(r) ==
  \E g \in Gate : /\ Live(g)
                 /\ \E q \in Of(g) : st[q] = "granted" /\ RunKey(q) = RunKey(r)

\* "Its claims, and those of every magus it runs, queue ahead of other runs'"
\* (hello.Gate, wire.go): told by what runs, not by what the broker noted of it.
GateRunsLead ==
  \A i, j \in 1..Len(queue) : i < j /\ InGateRun(queue[j]) => InGateRun(queue[i])

\* What was seated behind the head's back and runs now, less what got in on its
\* ancestor's free seat or under the head's own invocation.
SeatedBehind ==
  {r \in behind :
     /\ charged[r] = {}
     /\ Claim[queue[1]].invocation \notin AncestorsOf(r)
     /\ \A q \in budget : Claim[r].invocation \notin AncestorsOf(q)}

\* "Past it, everything behind the head is judged as if the head held its seat"
\* (budget.go:15-17): however many claims were seated behind a starved head or a
\* waiting gate, they fit beside it together.
HeadKeepsRoom ==
  queue # <<>> /\ SeatedBehind # {} => FitsBeside(queue[1], SeatedBehind)

\* "Once the head of the queue has been passed four times nothing behind it takes
\* its room" (concurrency.md:351-352), claims that are answered at once too.
NothingPassesStarved ==
  [][queue # <<>> /\ Starved(Head(queue)) =>
       \A r \in budget' \ (budget \cup Unasked \cup {Head(queue)}) :
         Admits(r, budget \cup {Head(queue)})]_vars

\* The runs of a tree with a step seated, less those a restart seated by force.
RunsOf(t, kinds) ==
  {RunKey(r) : r \in {q \in Request : /\ Tree[ReqConn[q]] = t
                                      /\ Kind[q] \in kinds
                                      /\ st[q] = "granted"}}
Forced(t) == {RunKey(r) : r \in {q \in Request : Tree[ReqConn[q]] = t /\ Kind[q] = "reassert"}}

\* A connection is one magus process, and the steps a process of a job asks for are
\* of one run; a command it holds a seat for is of none.
OneRunPerProcess ==
  \A q, r \in {s \in Request : Kind[s] # "hold"} :
    ReqConn[q] = ReqConn[r] /\ Capped(ReqConn[r]) => RunKey(q) = RunKey(r)

\* What parks runs underneath one step that claimed, its own magus's wrappers aside
\* (AppendInvocationAncestor, types/ancestry.go:78), and the steps of an invocation, which
\* is one process, ask over one connection.
OneLevel ==
  /\ \A r \in Request : Kind[r] = "park" /\ AncestorsOf(r) \ Wrapper # {} =>
       /\ Parent[r] # NoParent /\ Kind[Parent[r]] # "hold"
       /\ AncestorsOf(r) \ Wrapper = {Claim[Parent[r]].invocation}
  /\ \A p, q \in Request :
       Claim[p].invocation = Claim[q].invocation /\ Claim[p].invocation \in Invocation \ Wrapper
         => ReqConn[p] = ReqConn[q]

\* seatLocked caps the runs of one job tree that validate at once, through every
\* wait and hang-up: a run counts while one of its steps is seated.
ValidationsCapped ==
  \A t \in {Tree[c] : c \in Conn} \ {NoTree} :
    Cardinality(RunsOf(t, {"park", "once"}) \ Forced(t)) <= MaxValidations

\* What can still change without a request being answered first: a message under
\* way, a step that can end, a run between two steps that holds a seat.
SomeoneMoves ==
  \/ \E r \in Request : \/ st[r] = "sent" \/ cancel[r] = "sent"
                        \/ st[r] = "granted" /\ Ended(r)
  \/ \E c \in Conn : \/ conn[c] \in {"eof", "leaving", "left"}
                     \/ conn[c] = "open" /\ seat[c] # NoRun /\ Of(c) \cap Elems = {}

\* claimTry parks a claim "while anything a release can clear keeps it out"
\* (budget.go:258-259): whoever waits waits on something that can end.
WaitsOnSomeone == Settled /\ queue # <<>> => SomeoneMoves

\* "From then on Serve seats no new claim ... A claim a run re-asserts is still
\* recorded" (WithDrain, server.go:83-87): past the refusal of the queue, no
\* interleaving of handlers and wakes seats anything else.
DrainSeatsNothing ==
  [][draining /\ loop # "refusing" => budget' \ budget \subseteq {r \in Request : Kind[r] = "reassert"}]_vars

\* A broker that ends leaves nobody behind: what a drain or a close emptied the queue
\* of, nothing parks in again where no wake will answer it (park, budget.go:86), and
\* Serve returns with every request answered and every claim handed back.  A hold's
\* dies with the process (forget, server.go:449-456).
StrandsNobody ==
  /\ (draining /\ loop # "refusing") \/ loop \in {"hangup", "waiting", "exited"}
       => queue = <<>>
  /\ loop = "exited" =>
       /\ \A r \in Request : st[r] \in {"idle", "over", "orphaned"}
       /\ Settled

-----------------------------------------------------------------------------
\* A parked request is answered in the end, by a seat or by a refusal.
ParkedAnswered == \A r \in Request : st[r] = "parked" ~> st[r] # "parked"

\* A drain ends by itself once the runs that hold the broker have finished: the
\* last release is noticed however its token races the count (server.go:336).
DrainEnds == draining ~> loop = "exited"

-----------------------------------------------------------------------------
\* The queue, the gates, the seats and the drain only choose when a request is
\* seated: the broker implements Admission.
Phase(r) ==
  CASE st[r] = "idle"               -> "idle"
    [] st[r] \in {"sent", "parked"} -> "waiting"
    [] st[r] = "over"               -> "over"
    [] OTHER                        -> "seated"

Adm == INSTANCE Admission WITH phase <- [r \in Request |-> Phase(r)]

ImplementsAdmission == Adm!AdmissionSpec
=============================================================================
