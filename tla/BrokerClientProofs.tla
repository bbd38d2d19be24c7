------------------------- MODULE BrokerClientProofs -------------------------
(***************************************************************************)
(* That a race of any number of processes to start a broker leaves one     *)
(* that serves; and that a client's running steps keep their seats and are *)
(* known to whatever broker answers, for any steps and number of deaths.   *)
(***************************************************************************)
EXTENDS BrokerClientMC, TLAPS

PStage == {"out", "stale", "probing", "removing", "binding", "bound", "listening", "serving",
           "closing", "over", "loser", "dead"}

NoneGone == \A p \in Proc : ppc[p] \notin {"closing", "over", "dead"}

\* While none is gone, whoever removed a socket is yet to bind one, a stale socket has
\* made nobody lose, and any other leads to its broker.
ElectionInv ==
  /\ ppc \in [Proc -> PStage] /\ path \in Proc \cup {NoProc}
  /\ NoneGone =>
       /\ path = NoProc => \/ \E p \in Proc : ppc[p] = "binding"
                           \/ \A p \in Proc : ppc[p] \in {"out", "stale"}
       /\ path # NoProc => \/ ppc[path] \in {"bound", "listening", "serving"}
                           \/ /\ ppc[path] = "stale"
                              /\ \A p \in Proc : ppc[p] \in {"out", "stale", "probing", "removing"}

LEMMA ElectionStep ==
  ASSUME ElectionInv, Election!Next PROVE ElectionInv'
<1> USE ElectionAssumption
    DEF Election!BrokerElectionAssumption, ElectionInv, NoneGone, PStage,
        Election!Listens, Election!Starting, Election!To
<1>1. ASSUME NEW p \in Proc, Election!Bind(p) PROVE ElectionInv' BY <1>1 DEF Election!Bind
<1>2. ASSUME NEW p \in Proc, Election!Listen(p) PROVE ElectionInv' BY <1>2 DEF Election!Listen
<1>3. ASSUME NEW p \in Proc, Election!Probe(p) PROVE ElectionInv' BY <1>3 DEF Election!Probe
<1>4. ASSUME NEW p \in Proc, Election!Remove(p) PROVE ElectionInv' BY <1>4 DEF Election!Remove
<1>5. ASSUME NEW p \in Proc, Election!Rebind(p) PROVE ElectionInv' BY <1>5 DEF Election!Rebind
<1>6. ASSUME NEW p \in Proc, Election!Serve(p) PROVE ElectionInv' BY <1>6 DEF Election!Serve
<1>7. ASSUME NEW p \in Proc, Election!CloseListener(p) PROVE ElectionInv'
  BY <1>7 DEF Election!CloseListener
<1>8. ASSUME NEW p \in Proc, Election!Exit(p) PROVE ElectionInv' BY <1>8 DEF Election!Exit
<1>9. ASSUME NEW p \in Proc, Election!Die(p) PROVE ElectionInv' BY <1>9 DEF Election!Die
<1>10. ASSUME NEW c \in Dialer, Election!ClientNext(c) PROVE ElectionInv'
  BY <1>10 DEF Election!ClientNext, Election!Dial, Election!Greet, Election!Hello,
               Election!HangUp, Election!Goes
<1> QED BY <1>1, <1>2, <1>3, <1>4, <1>5, <1>6, <1>7, <1>8, <1>9, <1>10
        DEF Election!Next, Election!ProcNext

\* When the processes that raced to start a broker (Listen, listen.go:62) are done and
\* none was killed or is gone, the socket leads to one that serves: the last of them
\* never loses, whichever removed whose socket and whichever probe missed a live one.
THEOREM RaceIsWonAlways == AllSpec => []RaceIsWon
<1>1. AllInit => ElectionInv
  BY ElectionAssumption
     DEF AllInit, Election!Init, ElectionInv, PStage, Election!BrokerElectionAssumption
<1>2. ElectionInv /\ [AllNext]_<<vars, election, scene>> => ElectionInv'
  <2> SUFFICES ASSUME ElectionInv, [AllNext]_<<vars, election, scene>> PROVE ElectionInv' OBVIOUS
  <2>1. CASE UNCHANGED election BY <2>1 DEF election, ElectionInv, NoneGone
  <2>2. CASE Election!Next BY <2>2, ElectionStep
  <2> QED BY <2>1, <2>2 DEF AllNext, ClientNext
<1>3. ElectionInv => RaceIsWon
  BY ElectionAssumption
     DEF ElectionInv, NoneGone, RaceIsWon, Election!RaceIsWon, Election!Settled, Election!BrokerElectionAssumption
<1> QED BY <1>1, <1>2, <1>3, PTL DEF AllSpec
-----------------------------------------------------------------------------
\* A client beside its brokers' deaths.

\* No two running steps were granted one id.
KeysApart ==
  \A s, t \in Step : pc[s] = "running" /\ pc[t] = "running" /\ s # t => key[s] # key[t]

Asserting == op # NoOne /\ op.stage = "asserting"
Known(s) == seat[s] # 0 /\ remote[s] = seat[s]

Shape ==
  /\ seat \in [Step -> Nat] /\ remote \in [Step -> Nat] /\ key \in [Step -> Nat]
  /\ pc \in [Step -> Stage] /\ con \in [Step -> 0..conn]
  /\ seq \in Nat /\ conn \in Nat /\ cur \in {0, conn}
  /\ \A i \in DOMAIN held : i \in Nat /\ held[i] \in Step
  /\ op \in Opening \cup {NoOne}

\* An open connection is the published one or the one its opener re-asserts on, and on
\* that one no step has asked.
OneLink ==
  /\ alive => up /\ unheard = {} /\ conn # 0 /\ (Asserting \/ (cur = conn /\ ~closed))
  /\ Asserting => cur = 0 /\ conn # 0 /\ \A s \in Step : con[s] # conn

\* A connection's ids are its own, and a grant read off it names its step's seat.
Seating ==
  /\ \A s \in Step : seat[s] # 0 => alive /\ seat[s] <= seq
  /\ \A s, t \in Step : seat[s] # 0 /\ seat[s] = seat[t] => s = t
  /\ \A s \in Step : Rides(s) /\ pc[s] \in {"granted", "grantedLate"}
                       => seat[s] = key[s] /\ seat[s] # 0

\* The client holds what runs.
Holding ==
  ~closed => /\ \A s \in Step : pc[s] = "running" => key[s] \in DOMAIN held /\ held[key[s]] = s
             /\ \A i \in DOMAIN held : pc[held[i]] = "running" /\ key[held[i]] = i

\* An opener's snapshot is of steps that still run or are done.
Snapshot ==
  op # NoOne => /\ op.by \in Step => pc[op.by] = "dialing"
                /\ \A p \in op.snap : p[1] = key[p[2]] /\ pc[p[2]] \in {"running", "done"}

\* What it has re-asserted has the seat the client knows it by.
Reasserts ==
  Asserting =>
    /\ op.at # NoOne => op.at \in op.todo /\ (alive => seat[op.at] = op.id /\ op.id # 0)
    /\ alive => /\ \A p \in op.snap : p[2] \in op.todo \/ Known(p[2])
                /\ ~closed => \A s \in Step : pc[s] = "running" => s \in op.todo \/ Known(s)

\* What it hands back is a seat of a step that is done.
HandsBack ==
  Opened /\ alive =>
    \A i \in op.back : i <= seq /\ \A s \in Step : i # 0 /\ seat[s] = i => pc[s] = "done"

\* On a published connection every running step has the seat the client knows it by.
Knows == ~closed /\ alive /\ ~Asserting => \A s \in Step : pc[s] = "running" => Known(s)

ClientInv ==
  Shape /\ OneLink /\ Seating /\ Holding /\ Snapshot /\ Reasserts /\ HandsBack /\ Knows

\* A connection that closes takes every seat with it.
LEMMA DropStep ==
  ASSUME ClientInv, Die \/ TimeOut \/ OpenFails PROVE ClientInv'
<1> USE BrokerClientAssumption DEF Drops
<1>1. CASE Die \/ TimeOut
  <2> USE <1>1 DEF Die, TimeOut, client, steps
  <2>1. (Shape /\ OneLink /\ Seating)'
    BY DEF ClientInv, Shape, OneLink, Seating, Asserting, Rides
  <2>2. (Holding /\ Snapshot)' BY DEF ClientInv, Holding, Snapshot
  <2>3. (Reasserts /\ HandsBack /\ Knows)'
    BY DEF ClientInv, Reasserts, Asserting, HandsBack, Opened, Knows
  <2> QED BY <2>1, <2>2, <2>3 DEF ClientInv
<1>2. CASE OpenFails
  <2> USE <1>2 DEF OpenFails
  <2>1. op.by \in Step => pc[op.by] = "dialing" BY DEF ClientInv, Snapshot
  <2>2. (Shape /\ OneLink /\ Seating)'
    BY DEF ClientInv, Shape, Stage, OneLink, Seating, Asserting, Rides
  <2>3. Holding' BY <2>1 DEF ClientInv, Holding, Shape
  <2>4. (Snapshot /\ Reasserts /\ HandsBack /\ Knows)'
    BY DEF Snapshot, ClientInv, Reasserts, Asserting, HandsBack, Opened, OneLink, Knows
  <2> QED BY <2>2, <2>3, <2>4 DEF ClientInv
<1> QED BY <1>1, <1>2

\* A new broker, and a connection's callback, while nothing is open.
LEMMA ShutStep ==
  ASSUME ClientInv, Start \/ \E n \in unheard : Lost(n) PROVE ClientInv'
<1>1. ~alive /\ ~alive' BY DEF ClientInv, OneLink, Start, Lost, link
<1>2. /\ UNCHANGED <<seat, conn, held, op, closed, pc, key, con>>
      /\ seq' \in Nat /\ cur' \in {0, conn} /\ remote' \in [Step -> Nat]
      /\ cur = 0 => cur' = 0
  BY DEF ClientInv, Shape, Start, Lost, link, client, steps, broker
<1>3. (Shape /\ OneLink /\ Seating)'
  BY <1>1, <1>2 DEF ClientInv, Shape, OneLink, Seating, Asserting, Rides
<1>4. (Holding /\ Snapshot)' BY <1>2 DEF ClientInv, Holding, Snapshot
<1>5. (Reasserts /\ HandsBack /\ Knows)'
  BY <1>1, <1>2 DEF ClientInv, Reasserts, Asserting, HandsBack, Opened, Knows
<1> QED BY <1>3, <1>4, <1>5 DEF ClientInv

\* An opener dials, with no step on its connection yet and all the client holds to do.
LEMMA DialStep ==
  ASSUME ClientInv, NEW by \in Step \cup {Redialer}, unheard = {}, Dial(by) PROVE ClientInv'
<1> USE BrokerClientAssumption DEF Dial, broker
<1>1. Held \subseteq Step /\ {<<i, held[i]>> : i \in DOMAIN held} \subseteq Nat \X Step
  BY DEF ClientInv, Shape, Held
<1>2. /\ op' \in Opening /\ op' # NoOne
      /\ op'.by = by /\ op'.stage = "asserting" /\ op'.at = NoOne /\ op'.todo = Held
      /\ op'.snap = {<<i, held[i]>> : i \in DOMAIN held}
  BY <1>1 DEF Opening
<1>3. ~alive /\ conn \in Nat /\ pc \in [Step -> Stage] BY DEF ClientInv, Shape, OneLink, Asserting, Live
<1>4. Shape' BY <1>2, <1>3 DEF ClientInv, Shape, Stage
<1>5. OneLink' BY <1>2, <1>3 DEF ClientInv, Shape, OneLink, Asserting
<1>6. Seating' BY <1>3 DEF ClientInv, Shape, Seating, Rides
<1>7. \A s \in Step : pc'[s] = "running" <=> pc[s] = "running" BY <1>3
<1>8. Holding' BY <1>3, <1>7 DEF ClientInv, Shape, Holding
<1>9. Snapshot'
  <2>1. by \in Step => pc'[by] = "dialing" BY <1>3
  <2>2. ASSUME NEW p \in op'.snap PROVE p[1] = key[p[2]] /\ pc'[p[2]] = "running"
    <3>1. PICK i \in DOMAIN held : p = <<i, held[i]>> BY <1>2
    <3> QED BY <3>1, <1>7 DEF ClientInv, Shape, Holding
  <2> QED BY <1>2, <2>1, <2>2 DEF Snapshot
<1>10. Reasserts'
  <2>1. \A p \in op'.snap : p[2] \in op'.todo BY <1>2 DEF Held
  <2>2. ~closed => \A s \in Step : pc'[s] = "running" => s \in op'.todo
    BY <1>2, <1>7 DEF Held, ClientInv, Holding
  <2> QED BY <1>2, <2>1, <2>2 DEF Reasserts
<1>11. (HandsBack /\ Knows)' BY <1>2 DEF HandsBack, Opened, Knows, Asserting
<1> QED BY <1>4, <1>5, <1>6, <1>8, <1>9, <1>10, <1>11 DEF ClientInv

\* The broker answers the re-assert of one claim under an id of its own.
LEMMA AssertStep ==
  ASSUME ClientInv, NEW s \in Step, Assert(s) PROVE ClientInv'
<1> USE BrokerClientAssumption DEF link, steps
<1>1. /\ Asserting /\ op \in Opening /\ s \in op.todo /\ seq \in Nat /\ op.at = NoOne /\ alive
      /\ op' = [op EXCEPT !.at = s, !.id = seq + 1]
  BY DEF ClientInv, Shape, Asserting, Assert
<1>2. /\ op' \in Opening /\ op' # NoOne /\ op'.at = s /\ op'.id = seq + 1
      /\ op'.by = op.by /\ op'.stage = op.stage /\ op'.snap = op.snap /\ op'.todo = op.todo
  <2>1. op' = [by |-> op.by, stage |-> op.stage, at |-> s, id |-> seq + 1, marked |-> op.marked,
               snap |-> op.snap, todo |-> op.todo, back |-> op.back, tell |-> op.tell]
    BY <1>1 DEF Opening
  <2>2. op' \in Opening BY <1>1, <2>1 DEF Opening
  <2> QED BY <2>1, <2>2
<1>3. /\ seat' = [seat EXCEPT ![s] = seq + 1] /\ seq' = seq + 1
      /\ UNCHANGED <<up, link, cur, held, remote, closed, steps>>
  BY DEF Assert, Seats
<1>4. Asserting' BY <1>1, <1>2 DEF Asserting
<1>5. (Shape /\ OneLink)' BY <1>1, <1>2, <1>3, <1>4 DEF ClientInv, Shape, OneLink
<1>6. Seating' BY <1>1, <1>3 DEF ClientInv, Shape, Seating, OneLink, Rides
<1>7. (Holding /\ Snapshot)' BY <1>1, <1>2, <1>3 DEF ClientInv, Holding, Snapshot, Asserting
<1>8. Reasserts'
  <2>1. \A t \in Step : t # s => (Known(t) <=> Known(t)') BY <1>3 DEF Known, ClientInv, Shape
  <2>2. op'.at \in op'.todo /\ seat'[s] = op'.id /\ op'.id # 0
    BY <1>1, <1>2, <1>3 DEF ClientInv, Shape
  <2>3. \A p \in op.snap : p[2] \in Step BY <1>1 DEF Opening
  <2> QED BY <1>1, <1>2, <1>3, <2>1, <2>2, <2>3 DEF ClientInv, Reasserts
<1>9. (HandsBack /\ Knows)' BY <1>4 DEF HandsBack, Opened, Knows, Asserting
<1> QED BY <1>5, <1>6, <1>7, <1>8, <1>9 DEF ClientInv

\* Its answer is read.
LEMMA LearnStep ==
  ASSUME ClientInv, Learn PROVE ClientInv'
<1> USE BrokerClientAssumption DEF link, steps
<1>1. /\ Asserting /\ op \in Opening /\ op.at \in Step /\ op.at # NoOne /\ op.at \in op.todo
      /\ op' = [op EXCEPT !.at = NoOne, !.todo = @ \ {op.at},
                          !.marked = IF op.at \in over THEN @ \cup {op.at} ELSE @]
  BY DEF ClientInv, Shape, Asserting, Learn, Opening, Reasserts
<1>2. /\ op' \in Opening /\ op' # NoOne /\ op'.at = NoOne /\ op'.todo = op.todo \ {op.at}
      /\ op'.by = op.by /\ op'.stage = op.stage /\ op'.snap = op.snap
  <2> DEFINE m == IF op.at \in over THEN op.marked \cup {op.at} ELSE op.marked
  <2>1. op' = [by |-> op.by, stage |-> op.stage, at |-> NoOne, id |-> op.id, marked |-> m,
               snap |-> op.snap, todo |-> op.todo \ {op.at}, back |-> op.back, tell |-> op.tell]
    BY <1>1 DEF Opening
  <2>2. m \subseteq Step BY <1>1 DEF Opening
  <2> HIDE DEF m
  <2>3. op' \in Opening BY <1>1, <2>1, <2>2 DEF Opening
  <2> QED BY <2>1, <2>3
<1>3. /\ remote' = [remote EXCEPT ![op.at] = op.id]
      /\ UNCHANGED <<up, seq, seat, link, cur, held, closed, steps>>
  BY DEF Learn
<1>4. Asserting' BY <1>1, <1>2 DEF Asserting
<1>5. (Shape /\ OneLink /\ Seating)'
  <2>1. op.id \in Nat BY <1>1 DEF Opening
  <2> QED BY <2>1, <1>1, <1>2, <1>3, <1>4 DEF ClientInv, Shape, OneLink, Seating, Rides
<1>6. (Holding /\ Snapshot)' BY <1>1, <1>2, <1>3 DEF ClientInv, Holding, Snapshot, Asserting
<1>7. Reasserts'
  <2>1. \A t \in Step : t # op.at => (Known(t) <=> Known(t)') BY <1>3 DEF Known, ClientInv, Shape
  <2>2. \A t \in Step : alive /\ t = op.at => Known(t)' BY <1>1, <1>3 DEF Known, ClientInv, Shape, Reasserts
  <2>3. \A p \in op.snap : p[2] \in Step BY <1>1 DEF Opening
  <2> QED BY <1>1, <1>2, <1>3, <2>1, <2>2, <2>3 DEF ClientInv, Reasserts
<1>8. (HandsBack /\ Knows)' BY <1>4 DEF HandsBack, Opened, Knows, Asserting
<1> QED BY <1>5, <1>6, <1>7, <1>8 DEF ClientInv

\* All is re-asserted: what is to hand back is what was dropped meanwhile.
LEMMA PublishStep ==
  ASSUME ClientInv, Publish PROVE ClientInv'
<1> USE BrokerClientAssumption DEF link, steps, broker
<1>1. /\ Asserting /\ op \in Opening /\ op.todo = {} /\ ~closed
      /\ op' = [op EXCEPT !.stage = "handback", !.back = Released, !.tell = Overran]
  BY DEF ClientInv, Shape, Asserting, Publish
<1>2. Released \subseteq Nat /\ Overran \subseteq Nat
  <2>1. \A p \in op.snap : p[2] \in Step BY <1>1 DEF Opening
  <2> QED BY <2>1 DEF Released, Overran, ClientInv, Shape
<1>3. /\ op' \in Opening /\ op' # NoOne /\ op'.stage = "handback" /\ op'.back = Released
      /\ op'.by = op.by /\ op'.snap = op.snap
  BY <1>1, <1>2 DEF Opening
<1>4. cur' = conn /\ UNCHANGED <<broker, link, held, remote, closed, steps>> BY DEF Publish
<1>5. ~Asserting' BY <1>3 DEF Asserting
<1>6. (Shape /\ OneLink /\ Seating)'
  BY <1>1, <1>3, <1>4, <1>5 DEF ClientInv, Shape, OneLink, Seating, Rides
<1>7. (Holding /\ Snapshot)' BY <1>1, <1>3, <1>4 DEF ClientInv, Holding, Snapshot, Asserting
<1>8. HandsBack'
  <2> SUFFICES ASSUME alive, NEW i \in Released
               PROVE  i <= seq /\ \A s \in Step : i # 0 /\ seat[s] = i => pc[s] = "done"
    BY <1>3, <1>4 DEF HandsBack
  <2>1. PICK p \in op.snap : ~Kept(p) /\ i = remote[p[2]] BY DEF Released
  <2>2. p[2] \in Step /\ Known(p[2]) BY <1>1 DEF Opening, ClientInv, Reasserts
  <2>3. pc[p[2]] = "done" BY <1>1, <2>1, <2>2 DEF ClientInv, Snapshot, Asserting, Holding, Kept
  <2> QED BY <2>1, <2>2, <2>3 DEF Known, ClientInv, Seating
<1>9. (Reasserts /\ Knows)' BY <1>1, <1>4, <1>5 DEF ClientInv, Reasserts, Knows, Known
<1> QED BY <1>6, <1>7, <1>8, <1>9 DEF ClientInv

\* A seat handed back is of a step that is done.
LEMMA HandBackStep ==
  ASSUME ClientInv, NEW i, HandBack(i) PROVE ClientInv'
<1> USE BrokerClientAssumption DEF link, steps
<1>1. /\ Opened /\ op \in Opening /\ i \in op.back
      /\ op' = [op EXCEPT !.back = @ \ {i}]
  BY DEF ClientInv, Shape, HandBack, Opened
<1>2. /\ op' \in Opening /\ op' # NoOne /\ op'.stage = op.stage /\ op'.back = op.back \ {i}
      /\ op'.by = op.by /\ op'.snap = op.snap
  BY <1>1 DEF Opening
<1>3. /\ seat' = [s \in Step |-> IF alive /\ seat[s] = i THEN 0 ELSE seat[s]]
      /\ UNCHANGED <<up, seq, link, cur, held, remote, closed, steps>>
  BY DEF HandBack, Frees
<1>4. ~Asserting /\ ~Asserting' BY <1>1, <1>2 DEF Opened, Asserting
<1>5. \A s \in Step : pc[s] # "done" => seat'[s] = seat[s]
  BY <1>1, <1>3 DEF ClientInv, HandsBack, Shape
<1>6. \A s \in Step : seat'[s] \in {0, seat[s]} BY <1>3
<1>7. (Shape /\ OneLink /\ Seating)'
  <2>1. (Shape /\ OneLink)' BY <1>2, <1>3, <1>4 DEF ClientInv, Shape, OneLink
  <2>2. Seating' BY <1>3, <1>5, <1>6 DEF ClientInv, Shape, Seating, Rides
  <2> QED BY <2>1, <2>2
<1>8. (Holding /\ Snapshot)' BY <1>1, <1>2, <1>3 DEF ClientInv, Holding, Snapshot, Opened
<1>9. HandsBack' BY <1>1, <1>2, <1>3, <1>6 DEF ClientInv, HandsBack, Opened
<1>10. (Reasserts /\ Knows)' BY <1>3, <1>4, <1>5 DEF Reasserts, ClientInv, Knows, Known
<1> QED BY <1>7, <1>8, <1>9, <1>10 DEF ClientInv

\* The opener has its connection.
LEMMA ReturnStep ==
  ASSUME ClientInv, Return PROVE ClientInv'
<1> USE BrokerClientAssumption DEF link
<1>1. /\ ~Asserting /\ op' = NoOne
      /\ UNCHANGED <<broker, link, cur, held, remote, closed, key>>
  BY DEF Return, Opened, Asserting
<1>2. op.by \in Step => pc[op.by] = "dialing" BY DEF ClientInv, Snapshot, Return, Opened
<1>3. /\ pc' = [s \in Step |-> IF s = op.by THEN "asking" ELSE pc[s]]
      /\ con' = [s \in Step |-> IF s = op.by THEN conn ELSE con[s]]
  BY DEF Return
<1>4. \A s \in Step : \/ pc'[s] = pc[s] /\ con'[s] = con[s]
                      \/ pc[s] = "dialing" /\ pc'[s] = "asking"
  BY <1>2, <1>3
<1>5. ~Asserting' BY <1>1 DEF Asserting
<1>6. Shape' BY <1>1, <1>3 DEF ClientInv, Shape, Stage, broker
<1>7. (OneLink /\ Seating)'
  BY <1>1, <1>4, <1>5 DEF ClientInv, OneLink, Seating, Rides, broker
<1>8. Holding' BY <1>1, <1>4 DEF ClientInv, Shape, Holding
<1>9. (Snapshot /\ Reasserts /\ HandsBack /\ Knows)'
  BY <1>1, <1>4, <1>5 DEF ClientInv, Snapshot, Reasserts, HandsBack, Opened, Knows, Known, broker
<1> QED BY <1>6, <1>7, <1>8, <1>9 DEF ClientInv

\* Overruns are told, a redial ends, and a step asks, gives up or fails: no seat moves.
LEMMA StillStep ==
  ASSUME ClientInv,
         \/ RedialStops \/ RedialEnds \/ \E i : Tell(i)
         \/ \E s \in Step : Overrun(s) \/ Ask(s) \/ GiveUp(s) \/ Fail(s) \/ Cancel(s) \/ DialFails(s)
  PROVE  ClientInv'
<1> USE BrokerClientAssumption DEF link
<1>1. /\ UNCHANGED <<up, seq, seat, link, cur, held, remote, closed, key>>
      /\ op' = op \/ \E i : op' = [op EXCEPT !.tell = @ \ {i}] /\ Opened
  BY DEF RedialStops, RedialEnds, Overrun, Tell, Ask, GiveUp, Fail, Cancel, DialFails, To, broker, client, steps
<1>2. /\ op' \in Opening \cup {NoOne} /\ (op' = NoOne <=> op = NoOne)
      /\ op # NoOne => /\ op'.by = op.by /\ op'.stage = op.stage /\ op'.at = op.at /\ op'.id = op.id
                       /\ op'.snap = op.snap /\ op'.todo = op.todo /\ op'.back = op.back
  <2>1. op \in Opening \cup {NoOne} BY DEF ClientInv, Shape
  <2>2. ASSUME NEW i, op' = [op EXCEPT !.tell = @ \ {i}], op \in Opening
        PROVE  /\ op' \in Opening
               /\ op'.by = op.by /\ op'.stage = op.stage /\ op'.at = op.at /\ op'.id = op.id
               /\ op'.snap = op.snap /\ op'.todo = op.todo /\ op'.back = op.back
    BY <2>2 DEF Opening
  <2> QED BY <1>1, <2>1, <2>2 DEF Opened
<1>3. /\ pc' \in [Step -> Stage] /\ con' \in [Step -> 0..conn]
      /\ \A t \in Step :
           /\ pc'[t] # pc[t] => /\ pc[t] \in {"idle", "asking", "granted", "late"}
                                /\ pc'[t] \in {"failed", "asking", "late", "grantedLate", "done"}
           /\ pc'[t] = "grantedLate" => pc[t] \in {"granted", "grantedLate"}
           /\ con'[t] = con[t] \/ (con'[t] = cur /\ Live /\ pc'[t] = "asking")
  BY DEF RedialStops, RedialEnds, Overrun, Tell, Ask, GiveUp, Fail, Cancel, DialFails, To, steps, Live,
         ClientInv, Shape, Stage
<1>4. Asserting' <=> Asserting BY <1>2 DEF Asserting
<1>5. Live => ~Asserting BY DEF Live, ClientInv, OneLink
<1>6. Shape' BY <1>1, <1>2, <1>3 DEF ClientInv, Shape
<1>7. OneLink' BY <1>1, <1>3, <1>4, <1>5 DEF ClientInv, OneLink, Live
<1>8. Seating' BY <1>1, <1>3 DEF ClientInv, Seating, Rides
<1>9. Holding' BY <1>1, <1>3 DEF ClientInv, Holding, Shape
<1>10. Snapshot'
  <2>1. op # NoOne => \A p \in op.snap : p[2] \in Step BY DEF ClientInv, Shape, Opening
  <2> QED BY <1>1, <1>2, <1>3, <2>1 DEF ClientInv, Snapshot
<1>11. (Reasserts /\ HandsBack /\ Knows)'
  BY <1>1, <1>2, <1>3, <1>4 DEF ClientInv, Reasserts, HandsBack, Opened, Asserting, Knows, Known
<1> QED BY <1>6, <1>7, <1>8, <1>9, <1>10, <1>11 DEF ClientInv

\* A step is granted a seat under an id of its own.
LEMMA GrantStep ==
  ASSUME ClientInv, NEW s \in Step, Grant(s) PROVE ClientInv'
<1> USE BrokerClientAssumption DEF link, client
<1>1. /\ Rides(s) /\ pc[s] \in {"asking", "late"} /\ seq \in Nat
      /\ seat' = [seat EXCEPT ![s] = seq + 1] /\ seq' = seq + 1
      /\ key' = [key EXCEPT ![s] = seq + 1]
      /\ pc' = [pc EXCEPT ![s] = IF pc[s] = "asking" THEN "granted" ELSE "grantedLate"]
      /\ UNCHANGED <<up, link, client, con>>
  BY DEF Grant, Seats, To, ClientInv, Shape
<1>2. ~Asserting /\ ~Asserting' BY <1>1 DEF ClientInv, OneLink, Rides, Asserting
<1>3. (Shape /\ OneLink)' BY <1>1, <1>2 DEF ClientInv, Shape, Stage, OneLink
<1>4. Seating' BY <1>1 DEF ClientInv, Shape, Seating, Rides
<1>5. Holding' BY <1>1 DEF ClientInv, Shape, Holding
<1>6. Snapshot'
  <2>1. op # NoOne => \A p \in op.snap : p[2] \in Step BY DEF ClientInv, Shape, Opening
  <2> QED BY <1>1, <2>1 DEF ClientInv, Shape, Snapshot
<1>7. HandsBack'
  <2> SUFFICES ASSUME Opened, alive, NEW i \in op.back
               PROVE  i <= seq' /\ \A t \in Step : i # 0 /\ seat'[t] = i => pc'[t] = "done"
    BY <1>1 DEF HandsBack, Opened
  <2>1. i \in Nat /\ i <= seq BY DEF ClientInv, Shape, HandsBack, Opened, Opening
  <2>2. \A t \in Step : i # 0 /\ seat[t] = i => pc[t] = "done" BY DEF ClientInv, HandsBack
  <2> QED BY <1>1, <2>1, <2>2 DEF ClientInv, Shape
<1>8. (Reasserts /\ Knows)' BY <1>1, <1>2 DEF ClientInv, Shape, Reasserts, Knows, Known
<1> QED BY <1>3, <1>4, <1>5, <1>6, <1>7, <1>8 DEF ClientInv

\* The grant is recorded under the id it carries, which no running step has.
LEMMA RecordStep ==
  ASSUME Windows = {}, ClientInv, KeysApart', NEW s \in Step, Record(s)
  PROVE  ClientInv'
<1> USE BrokerClientAssumption DEF link, broker
<1>1. /\ Rides(s) /\ pc[s] = "granted"
      /\ pc' = [pc EXCEPT ![s] = "running"] /\ remote' = [remote EXCEPT ![s] = key[s]]
      /\ UNCHANGED <<broker, link, cur, op, closed, key, con>>
  BY DEF Record, To
<1>2. ~Asserting /\ ~Asserting' BY <1>1 DEF ClientInv, OneLink, Rides, Asserting
<1>3. held' = [i \in DOMAIN held \cup {key[s]} |-> IF i = key[s] THEN s ELSE held[i]]
  BY DEF Record
<1>4. (Shape /\ OneLink /\ Seating)'
  <2>1. \A i \in DOMAIN held' : i \in Nat /\ held'[i] \in Step BY <1>3 DEF ClientInv, Shape
  <2>2. Shape' BY <1>1, <2>1 DEF ClientInv, Shape, Stage
  <2>3. (OneLink /\ Seating)' BY <1>1, <1>2 DEF ClientInv, Shape, OneLink, Seating, Rides
  <2> QED BY <2>2, <2>3
<1>5. Holding'
  <2>1. \A t \in Step : t # s /\ pc[t] = "running" => key[t] # key[s]
    BY <1>1 DEF KeysApart, ClientInv, Shape
  <2> QED BY <1>1, <1>3, <2>1 DEF ClientInv, Shape, Holding
<1>6. Snapshot'
  <2>1. op # NoOne => \A p \in op.snap : p[2] \in Step BY DEF ClientInv, Shape, Opening
  <2> QED BY <1>1, <2>1 DEF ClientInv, Shape, Snapshot
<1>7. HandsBack' BY <1>1 DEF ClientInv, Shape, HandsBack, Opened
<1>8. (Reasserts /\ Knows)'
  BY <1>1, <1>2 DEF ClientInv, Shape, Reasserts, Knows, Known, Seating
<1> QED BY <1>4, <1>5, <1>6, <1>7, <1>8 DEF ClientInv

\* A late grant goes back on the connection it came on.
LEMMA LateGrantStep ==
  ASSUME ClientInv, NEW s \in Step, LateGrant(s) PROVE ClientInv'
<1> USE BrokerClientAssumption DEF link, client
<1>1. /\ pc[s] = "grantedLate" /\ pc' = [pc EXCEPT ![s] = "done"]
      /\ UNCHANGED <<up, seq, link, client, key, con>>
  BY DEF LateGrant, To
<1>2. \A t \in Step : seat'[t] \in {0, seat[t]} /\ (t # s => seat'[t] = seat[t])
  BY DEF LateGrant, Frees, ClientInv, Shape, Seating
<1>3. seat' \in [Step -> Nat] BY <1>2 DEF LateGrant, Frees, ClientInv, Shape
<1>4. Rides(s) => ~Asserting BY DEF ClientInv, OneLink, Rides
<1>5. Asserting => seat' = seat BY <1>4 DEF LateGrant
<1>6. Asserting' <=> Asserting BY <1>1 DEF Asserting
<1>7. (Shape /\ OneLink)' BY <1>1, <1>3, <1>6 DEF ClientInv, Shape, Stage, OneLink
<1>8. Seating' BY <1>1, <1>2 DEF ClientInv, Shape, Seating, Rides
<1>9. Holding' BY <1>1 DEF ClientInv, Shape, Holding
<1>10. Snapshot'
  <2>1. op # NoOne => \A p \in op.snap : p[2] \in Step BY DEF ClientInv, Shape, Opening
  <2> QED BY <1>1, <2>1 DEF ClientInv, Shape, Snapshot
<1>11. (Reasserts /\ HandsBack /\ Knows)'
  BY <1>1, <1>2, <1>5, <1>6
     DEF ClientInv, Shape, Reasserts, HandsBack, Opened, Asserting, Knows, Known
<1> QED BY <1>7, <1>8, <1>9, <1>10, <1>11 DEF ClientInv

\* A release frees the seat of the step whose claim it is.
LEMMA ReleaseStep ==
  ASSUME ClientInv, NEW s \in Step, Release(s) PROVE ClientInv'
<1> USE BrokerClientAssumption DEF link
<1>1. /\ pc[s] = "running" /\ pc' = [pc EXCEPT ![s] = "done"]
      /\ held' = [i \in DOMAIN held \ {key[s]} |-> held[i]]
      /\ UNCHANGED <<up, seq, link, cur, remote, op, closed, key, con>>
  BY DEF Release, To
<1>2. Asserting => seat' = seat BY DEF Release, ClientInv, OneLink
<1>3. \A t \in Step : seat'[t] \in {0, seat[t]} BY DEF Release, Frees, ClientInv, Shape
<1>4. seat' \in [Step -> Nat] BY <1>3 DEF Release, Frees, ClientInv, Shape
<1>5. \A t \in Step : t # s => seat'[t] = seat[t]
  <2> SUFFICES ASSUME NEW t \in Step, t # s, seat'[t] # seat[t] PROVE FALSE OBVIOUS
  <2>1. alive /\ ~Asserting BY <1>2 DEF Release, Frees, ClientInv, Shape
  <2>2. ~closed /\ held[key[s]] = s BY <1>1, <2>1 DEF ClientInv, OneLink, Holding
  <2>3. seat[t] = remote[s] /\ remote[s] # 0 BY <2>2 DEF Release, Frees, ClientInv, Shape
  <2>4. Known(s) BY <1>1, <2>1, <2>2 DEF ClientInv, Knows
  <2> QED BY <2>3, <2>4 DEF Known, ClientInv, Seating
<1>6. Asserting' <=> Asserting BY <1>1 DEF Asserting
<1>7. (Shape /\ OneLink)' BY <1>1, <1>4, <1>6 DEF ClientInv, Shape, Stage, OneLink
<1>8. Seating'
  BY <1>1, <1>3, <1>5 DEF ClientInv, Shape, Seating, Rides
<1>9. Holding' BY <1>1 DEF ClientInv, Shape, Holding
<1>10. Snapshot'
  <2>1. op # NoOne => \A p \in op.snap : p[2] \in Step BY DEF ClientInv, Shape, Opening
  <2> QED BY <1>1, <2>1 DEF ClientInv, Shape, Snapshot
<1>11. (Reasserts /\ HandsBack /\ Knows)'
  BY <1>1, <1>2, <1>3, <1>5, <1>6
     DEF ClientInv, Shape, Reasserts, HandsBack, Opened, Asserting, Knows, Known
<1> QED BY <1>7, <1>8, <1>9, <1>10, <1>11 DEF ClientInv

\* A closed client drops what it holds, and its connection if it has one.
LEMMA CloseStep ==
  ASSUME ClientInv, Close PROVE ClientInv'
<1>1. Shape' BY DEF Close, Drops, link, steps, ClientInv, Shape
<1>2. (OneLink /\ Seating)'
  <2>1. CASE cur = conn /\ alive
    BY <2>1 DEF Close, Drops, link, steps, ClientInv, Shape, OneLink, Seating, Asserting, Rides
  <2>2. CASE ~(cur = conn /\ alive)
    <3>1. alive => Asserting BY <2>2 DEF ClientInv, OneLink
    <3>2. UNCHANGED <<up, seq, seat, conn, alive, unheard, op, pc, key, con>> /\ cur' = 0 /\ closed'
      BY <2>2 DEF Close, steps
    <3>3. OneLink' BY <3>1, <3>2 DEF ClientInv, OneLink, Asserting
    <3>4. Seating' BY <3>2 DEF ClientInv, Seating, Rides
    <3> QED BY <3>3, <3>4
  <2> QED BY <2>1, <2>2
<1>3. (Holding /\ Snapshot /\ Knows)' BY DEF Close, Drops, link, steps, ClientInv, Holding, Snapshot, Knows
<1>4. (Reasserts /\ HandsBack)'
  BY DEF Close, Drops, link, steps, ClientInv, Reasserts, Asserting, Known, HandsBack, Opened
<1> QED BY <1>1, <1>2, <1>3, <1>4 DEF ClientInv

\* Whatever comes next, where no callback and no record lags a connection's death and
\* the next record is under an id no running step has.
LEMMA ClientStep ==
  ASSUME Windows = {}, ClientInv, KeysApart', [Next]_vars
  PROVE  ClientInv'
<1>1. CASE UNCHANGED vars
  BY <1>1 DEF vars, broker, link, client, steps, ClientInv, Shape, OneLink, Seating, Holding,
              Snapshot, Reasserts, HandsBack, Knows, Known, Asserting, Opened, Rides
<1>2. CASE Progress
  <2>1. CASE \E s \in Step : Fail(s) \/ Cancel(s) BY <2>1, StillStep
  <2>2. CASE RedialStops \/ RedialEnds \/ \E i \in Id : Tell(i) BY <2>2, StillStep
  <2> QED BY <1>2, <2>1, <2>2, DropStep, ShutStep, DialStep, LearnStep, PublishStep, ReturnStep,
             HandBackStep, AssertStep, GrantStep, RecordStep, LateGrantStep DEF Progress
<1>3. CASE Die \/ TimeOut BY <1>3, DropStep
<1>4. CASE unheard = {} /\ Close BY <1>4, CloseStep
<1>5. ASSUME unheard = {}, NEW s \in Step,
             Dial(s) \/ DialFails(s) \/ Ask(s) \/ GiveUp(s) \/ Overrun(s) \/ Release(s)
      PROVE  ClientInv'
  BY <1>5, DialStep, StillStep, ReleaseStep
<1> QED BY <1>1, <1>2, <1>3, <1>4, <1>5 DEF Next

\* In a run of the client, alone or as one of AllSpec's scenes.
LEMMA ClientInvAlways ==
  ASSUME Windows = {}
  PROVE  (Spec \/ AllSpec) /\ []KeysApart => Init /\ [][Next]_vars /\ []ClientInv
<1>1. Init => ClientInv
  BY BrokerClientAssumption
     DEF Init, ClientInv, Shape, Stage, OneLink, Seating, Holding, Snapshot, Reasserts, HandsBack,
         Knows, Asserting, Opened
<1>2. ClientInv /\ KeysApart' /\ [Next]_vars => ClientInv' BY ClientStep
<1>3. AllInit => Init BY DEF AllInit
<1>4. [AllNext]_<<vars, election, scene>> => [Next]_vars BY DEF AllNext, ClientNext, vars
<1> QED BY <1>1, <1>2, <1>3, <1>4, PTL DEF Spec, AllSpec

\* A broker gives up a running step's seat only by losing the connection: no release
\* (client.go:252), late grant or hand-back of another's claim takes it, while the ids
\* running steps were granted differ.
THEOREM KeepsSeatAlways ==
  ASSUME Windows = {}
  PROVE  (Spec \/ AllSpec) /\ []KeysApart => KeepsSeat
<1> DEFINE Keeps == \A s \in Step : Running(s) /\ Seated(s) /\ alive' /\ ~closed'
                                     /\ pc'[s] = "running" => Seated(s)'
<1>1. ClientInv /\ ClientInv' /\ [Next]_vars => [Keeps]_vars
  <2> SUFFICES ASSUME ClientInv, ClientInv', Next, NEW s \in Step, seat[s] # 0, alive', ~closed',
                      pc'[s] = "running", seat'[s] = 0
               PROVE  FALSE
    BY DEF Seated
  <2>0. seat \in [Step -> Nat] /\ seq \in Nat BY DEF ClientInv, Shape
  <2>1. Asserting' BY DEF ClientInv, Knows, Known
  <2>2. \/ \E i : HandBack(i)
        \/ \E t \in Step : LateGrant(t) /\ Rides(t)
        \/ \E t \in Step : Release(t) /\ cur = conn
    <3>1. ~(Die \/ TimeOut \/ OpenFails \/ Close)
      BY DEF Die, TimeOut, OpenFails, Close, Drops
    <3>2. ~(Start \/ Learn \/ Publish \/ Return \/ RedialStops \/ RedialEnds)
      BY DEF Start, Learn, Publish, Return, RedialStops, RedialEnds, broker
    <3>3. ~((\E n \in unheard : Lost(n)) \/ (\E i \in Id : Tell(i)) \/ Dial(Redialer))
      BY DEF Lost, Tell, Dial, broker
    <3>4. ASSUME NEW t \in Step
          PROVE  /\ ~Record(t) /\ ~Fail(t) /\ ~Cancel(t) /\ ~Dial(t) /\ ~DialFails(t)
                 /\ ~Ask(t) /\ ~GiveUp(t) /\ ~Overrun(t)
      BY DEF Record, Fail, Cancel, Dial, DialFails, Ask, GiveUp, Overrun, broker
    <3>5. \A t \in Step : ~Assert(t) /\ ~Grant(t) BY <2>0 DEF Assert, Grant, Seats
    <3>6. \A t \in Step : (LateGrant(t) => Rides(t)) /\ (Release(t) => cur = conn)
      BY DEF LateGrant, Release
    <3> QED BY <3>1, <3>2, <3>3, <3>4, <3>5, <3>6 DEF Next, Progress
  <2>3. CASE \E i : HandBack(i)
    <3>1. op \in Opening /\ op.stage = "handback" BY <2>3 DEF HandBack, Opened, ClientInv, Shape
    <3>2. op'.stage = "handback" BY <2>3, <3>1 DEF HandBack, Opening
    <3> QED BY <2>1, <3>2 DEF Asserting
  <2>4. CASE \E t \in Step : (LateGrant(t) /\ Rides(t)) \/ (Release(t) /\ cur = conn)
    <3>1. Asserting BY <2>1, <2>4 DEF Asserting, LateGrant, Release, client
    <3> QED BY <2>4, <3>1 DEF ClientInv, OneLink, Rides
  <2> QED BY <2>2, <2>3, <2>4
<1> QED BY <1>1, ClientInvAlways, PTL DEF KeepsSeat

\* "a new broker learns about running steps before it seats anything else"
\* (client.go:424): at every grant, each running step has its seat, while the ids
\* running steps were granted differ.
THEOREM KnownFirstAlways ==
  ASSUME Windows = {}
  PROVE  (Spec \/ AllSpec) /\ []KeysApart => KnownFirst
<1> DEFINE First == \A s \in Step : pc[s] \in {"asking", "late"} /\ key'[s] # key[s]
                                     => \A t \in Step : Running(t) => Seated(t)
<1>1. ClientInv /\ [Next]_vars => [First]_vars
  <2> SUFFICES ASSUME ClientInv, Next, NEW s \in Step, key'[s] # key[s], NEW t \in Step, Running(t)
               PROVE  Seated(t)
    OBVIOUS
  <2>1. \E r \in Step : Rides(r)
    BY DEF Next, Progress, Start, Lost, Dial, Learn, Publish, Return, OpenFails, RedialStops, RedialEnds,
           HandBack,
           Tell, Assert, Grant, Record, Fail, Cancel, LateGrant, Die, TimeOut, Close, DialFails,
           Ask, GiveUp, Overrun, Release, broker, link, client, steps
  <2> QED BY <2>1 DEF ClientInv, OneLink, Rides, Asserting, Knows, Known, Running, Seated
<1> QED BY <1>1, ClientInvAlways, PTL DEF KnownFirst

\* "the id the current broker knows it by" (client.go:110): on a published connection the
\* client knows each running step's claim by the id the broker seats it under, while
\* the ids running steps were granted differ.
THEOREM RemoteTrueAlways ==
  ASSUME Windows = {}
  PROVE  (Spec \/ AllSpec) /\ []KeysApart => []RemoteTrue
<1>1. ClientInv => RemoteTrue
  BY DEF ClientInv, Asserting, Knows, Known, Running, RemoteTrue, Live, Held, Shape
<1> QED BY <1>1, ClientInvAlways, PTL
=============================================================================
