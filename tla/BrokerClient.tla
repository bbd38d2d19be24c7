---------------------------- MODULE BrokerClient ----------------------------
(***************************************************************************)
(* One process's client of the broker (client.go, conn.go): the claims its *)
(* steps hold, the connection they ride, and what happens when the broker  *)
(* dies under them.  A client that holds claims dials the next broker on   *)
(* its own and re-asserts them there, while its steps go on releasing and  *)
(* overrunning them.                                                       *)
(*                                                                         *)
(* Every claim fits: what a broker seats is module Broker's.  An id is the *)
(* broker's count of claims (the process is one, so its pid is left out),  *)
(* and a new broker counts from 1.  A step's claim object is the step.     *)
(***************************************************************************)
EXTENDS Integers, FiniteSets

CONSTANTS
  Step,       \* the steps, each of which claims once
  Redialer,   \* the goroutine that redials
  NoOne,
  MaxDeaths,  \* how often the broker may die or a handshake time out
  MayClose,   \* the client may be closed
  Windows     \* the narrow races the run includes: see Window

\* "lag": a dead connection's callback runs after the next is dialed.
\* "record": a grant read off a connection is recorded after it died.
Window == {"lag", "record"}

\* An opening: who opens, the claim whose answer is awaited and its id, those marked
\* overrun, the claims held at the start, those to re-assert, hand back and tell.
Opening == [by : Step \cup {Redialer}, stage : {"asserting", "handback"}, at : Step \cup {NoOne},
            id : Nat, marked : SUBSET Step, snap : SUBSET (Nat \X Step),
            todo : SUBSET Step, back : SUBSET Nat, tell : SUBSET Nat]

ASSUME BrokerClientAssumption ==
  /\ IsFiniteSet(Step)
  /\ Redialer \notin Step /\ NoOne \notin Step \cup {Redialer} \cup Opening
  /\ MaxDeaths \in Nat
  /\ MayClose \in BOOLEAN
  /\ Windows \subseteq Window

VARIABLES
  \* The broker: whether one answers, its count of ids, what the open connection holds.
  up, seq, seat, charged, deaths,
  \* The newest connection, whether it is open, and those whose callback is due.
  conn, alive, unheard,
  \* The client: the published connection (0: none), its claims by id, the id the
  \* broker knows each by (0: none), those overrun, the redial, the opening under way.
  cur, held, remote, over, redialing, op, closed,
  \* Each step: its stage, the id it was granted, the connection it asked on.
  pc, key, con

broker == <<up, seq, seat, charged, deaths>>
link == <<conn, alive, unheard>>
client == <<cur, held, remote, over, redialing, op, closed>>
steps == <<pc, key, con>>
vars == <<broker, link, client, steps>>

Id == 0..(MaxDeaths + 1) * Cardinality(Step)
Conn == 0..MaxDeaths + 1
Stage == {"idle", "dialing", "asking", "granted", "late", "grantedLate",
          "running", "done", "failed"}

Init ==
  /\ up = TRUE /\ seq = 0 /\ deaths = 0
  /\ seat = [s \in Step |-> 0]
  /\ charged = {}
  /\ conn = 0 /\ alive = FALSE /\ unheard = {}
  /\ cur = 0 /\ held = [i \in {} |-> NoOne]
  /\ remote = [s \in Step |-> 0]
  /\ over = {} /\ redialing = "none" /\ op = NoOne /\ closed = FALSE
  /\ pc = [s \in Step |-> "idle"]
  /\ key = [s \in Step |-> 0]
  /\ con = [s \in Step |-> 0]

Live == cur # 0 /\ cur = conn /\ alive
Rides(s) == con[s] = conn /\ alive
Held == {held[i] : i \in DOMAIN held}
To(s, stage) == pc' = [pc EXCEPT ![s] = stage]

-----------------------------------------------------------------------------
\* The broker's half.

\* It seats s's claim on the open connection under its next id.
Seats(s) ==
  /\ seq' = seq + 1
  /\ seat' = [seat EXCEPT ![s] = seq + 1]

\* It releases the claim the open connection holds under id.
Frees(id) == seat' = [s \in Step |-> IF alive /\ seat[s] = id THEN 0 ELSE seat[s]]

\* It charges that claim its full peak.
Charges(id) == charged' = charged \cup {s \in Step : alive /\ seat[s] = id /\ id # 0}

\* The connection closes, and the broker releases what it holds.
Drops ==
  /\ seat' = [s \in Step |-> 0]
  /\ charged' = {}
  /\ alive' = FALSE
  /\ unheard' = IF alive THEN unheard \cup {conn} ELSE unheard

Opened == op # NoOne /\ op.stage = "handback"

Die ==
  /\ up /\ deaths < MaxDeaths
  /\ up' = FALSE /\ deaths' = deaths + 1
  /\ Drops
  /\ UNCHANGED <<seq, conn, client, steps>>

Start ==
  /\ ~up
  /\ up' = TRUE /\ seq' = 0
  /\ UNCHANGED <<seat, charged, deaths, link, client, steps>>

-----------------------------------------------------------------------------
\* The connection.

\* Mutant of Lost: only a request dials again.
LostQuietly(n) ==
  /\ n \in unheard
  /\ unheard' = unheard \ {n}
  /\ cur' = IF cur = n THEN 0 ELSE cur
  /\ remote' = IF cur' # 0 THEN remote
               ELSE [s \in Step |-> IF s \in Held THEN 0 ELSE remote[s]]
  /\ UNCHANGED <<broker, conn, alive, held, over, redialing, op, closed, steps>>

\* n closed: its claims are gone with its broker, and a client that holds any looks
\* for the next one.
Lost(n) ==
  /\ n \in unheard
  /\ unheard' = unheard \ {n}
  /\ cur' = IF cur = n THEN 0 ELSE cur
  /\ IF cur' # 0
       THEN UNCHANGED <<remote, redialing>>
       ELSE /\ remote' = [s \in Step |-> IF s \in Held THEN 0 ELSE remote[s]]
            /\ redialing' = IF ~closed /\ Held # {} /\ redialing = "none" THEN "looks" ELSE redialing
  /\ UNCHANGED <<broker, conn, alive, held, over, op, closed, steps>>

\* Dial, say hello, and snapshot the claims held.  One opening runs at a time.
Dial(by) ==
  /\ op = NoOne /\ ~Live /\ up /\ ~closed
  /\ by = Redialer => redialing = "looks" /\ Held # {}
  /\ by \in Step => pc[by] = "idle"
  /\ conn' = conn + 1 /\ alive' = TRUE /\ cur' = 0
  /\ op' = [by |-> by, stage |-> "asserting", at |-> NoOne, id |-> 0, marked |-> {},
            snap |-> {<<i, held[i]>> : i \in DOMAIN held},
            todo |-> Held, back |-> {}, tell |-> {}]
  /\ pc' = [s \in Step |-> IF s = by THEN "dialing" ELSE pc[s]]
  /\ UNCHANGED <<broker, unheard, held, remote, over, redialing, closed, key, con>>

\* A step with no broker to dial, or with its client closed, goes unarbitrated.
DialFails(s) ==
  /\ pc[s] = "idle" /\ ~Live /\ op = NoOne
  /\ ~up \/ closed
  /\ To(s, "failed")
  /\ UNCHANGED <<broker, link, client, key, con>>

\* The broker answers the re-assert of one claim.
Assert(s) ==
  /\ op # NoOne /\ op.stage = "asserting" /\ op.at = NoOne /\ s \in op.todo
  /\ alive
  /\ Seats(s)
  /\ op' = [op EXCEPT !.at = s, !.id = seq + 1]
  /\ UNCHANGED <<up, charged, deaths, link, cur, held, remote, over, redialing, closed, steps>>

\* Its answer is read, and an overrun it already had is told.
Learn ==
  /\ op # NoOne /\ op.stage = "asserting" /\ op.at # NoOne
  /\ remote' = [remote EXCEPT ![op.at] = op.id]
  /\ IF op.at \in over THEN Charges(op.id) ELSE UNCHANGED charged
  /\ op' = [op EXCEPT !.at = NoOne, !.todo = @ \ {op.at},
                      !.marked = IF op.at \in over THEN @ \cup {op.at} ELSE @]
  /\ UNCHANGED <<up, seq, seat, deaths, link, cur, held, over, redialing, closed, steps>>

Kept(p) == p[1] \in DOMAIN held /\ held[p[1]] = p[2]

\* Mutant of Released: a claim dropped while it was re-asserted is forgotten.
ReleasedNone == {}

\* What was dropped while it was re-asserted, and what overran after it was.
Released == {remote[p[2]] : p \in {p \in op.snap : ~Kept(p)}}
Overran == {remote[p[2]] : p \in {p \in op.snap : Kept(p) /\ p[2] \in over \ op.marked}}

\* The connection is the client's, and what it must hand back is known.
Publish ==
  /\ op # NoOne /\ op.stage = "asserting" /\ op.todo = {}
  /\ ~closed
  /\ cur' = conn
  /\ op' = [op EXCEPT !.stage = "handback", !.back = Released, !.tell = Overran]
  /\ UNCHANGED <<broker, link, held, remote, over, redialing, closed, steps>>

HandBack(id) ==
  /\ Opened /\ id \in op.back
  /\ Frees(id)
  /\ op' = [op EXCEPT !.back = @ \ {id}]
  /\ UNCHANGED <<up, seq, charged, deaths, link, cur, held, remote, over, redialing, closed, steps>>

Tell(id) ==
  /\ Opened /\ op.back = {} /\ id \in op.tell
  /\ Charges(id)
  /\ op' = [op EXCEPT !.tell = @ \ {id}]
  /\ UNCHANGED <<up, seq, seat, deaths, link, cur, held, remote, over, redialing, closed, steps>>

\* The opener has its connection: a step asks on it, the redial is over.
Return ==
  /\ Opened /\ op.back = {} /\ op.tell = {}
  /\ op' = NoOne
  /\ redialing' = IF op.by = Redialer THEN "over" ELSE redialing
  /\ pc' = [s \in Step |-> IF s = op.by THEN "asking" ELSE pc[s]]
  /\ con' = [s \in Step |-> IF s = op.by THEN conn ELSE con[s]]
  /\ UNCHANGED <<broker, link, cur, held, remote, over, closed, key>>

\* It closed under its opener, or the client was closed meanwhile.
OpenFails ==
  /\ op # NoOne /\ op.stage = "asserting"
  /\ ~alive \/ (closed /\ op.todo = {})
  /\ Drops
  /\ op' = NoOne
  /\ pc' = [s \in Step |-> IF s = op.by THEN "failed" ELSE pc[s]]
  /\ UNCHANGED <<up, seq, deaths, conn, cur, held, remote, over, redialing, closed, key, con>>

\* The opening takes longer than its bound, and hangs up.
TimeOut ==
  /\ op # NoOne /\ op.stage = "asserting"
  /\ alive /\ deaths < MaxDeaths
  /\ deaths' = deaths + 1
  /\ Drops
  /\ UNCHANGED <<up, seq, conn, client, steps>>

\* At a tick the redial finds nothing to do, or that a request opened one.
RedialStops ==
  /\ redialing = "looks" /\ (op # NoOne => op.by # Redialer)
  /\ Held = {} \/ Live \/ closed
  /\ redialing' = "over"
  /\ UNCHANGED <<broker, link, cur, held, remote, over, op, closed, steps>>

\* Until here a connection that closes starts no other.
RedialEnds ==
  /\ redialing = "over"
  /\ redialing' = "none"
  /\ UNCHANGED <<broker, link, cur, held, remote, over, op, closed, steps>>

-----------------------------------------------------------------------------
\* A step.

Ask(s) ==
  /\ pc[s] = "idle" /\ Live
  /\ To(s, "asking")
  /\ con' = [con EXCEPT ![s] = cur]
  /\ UNCHANGED <<broker, link, client, key>>

Grant(s) ==
  /\ pc[s] \in {"asking", "late"} /\ Rides(s)
  /\ Seats(s)
  /\ key' = [key EXCEPT ![s] = seq + 1]
  /\ To(s, IF pc[s] = "asking" THEN "granted" ELSE "grantedLate")
  /\ UNCHANGED <<up, charged, deaths, link, client, con>>

\* The grant is read and the claim recorded under the id it carries.
Record(s) ==
  /\ pc[s] = "granted"
  /\ Rides(s) \/ "record" \in Windows
  /\ held' = [i \in DOMAIN held \cup {key[s]} |-> IF i = key[s] THEN s ELSE held[i]]
  /\ remote' = [remote EXCEPT ![s] = key[s]]
  /\ To(s, "running")
  /\ UNCHANGED <<broker, link, cur, over, redialing, op, closed, key, con>>

\* The connection closed before the answer was read.
Fail(s) ==
  /\ pc[s] \in {"asking", "granted"} /\ ~Rides(s)
  /\ To(s, "failed")
  /\ UNCHANGED <<broker, link, client, key, con>>

\* Its context ends while it waits for the answer.
GiveUp(s) ==
  /\ pc[s] \in {"asking", "granted"}
  /\ To(s, IF pc[s] = "asking" THEN "late" ELSE "grantedLate")
  /\ UNCHANGED <<broker, link, client, key, con>>

\* The broker answers the cancel without a seat.
Cancel(s) ==
  /\ pc[s] = "late"
  /\ To(s, "done")
  /\ UNCHANGED <<broker, link, client, key, con>>

\* A grant that comes late is handed straight back on the connection it came on.
LateGrant(s) ==
  /\ pc[s] = "grantedLate"
  /\ IF Rides(s) THEN Frees(key[s]) ELSE UNCHANGED seat
  /\ To(s, "done")
  /\ UNCHANGED <<up, seq, charged, deaths, link, client, key, con>>

\* The claim overran its curve.
Overrun(s) ==
  /\ pc[s] = "running" /\ s \notin over
  /\ IF key[s] \in DOMAIN held
       THEN LET h == held[key[s]]
            IN  /\ over' = over \cup {h}
                /\ IF cur = conn THEN Charges(remote[h]) ELSE UNCHANGED charged
       ELSE UNCHANGED <<over, charged>>
  /\ UNCHANGED <<up, seq, seat, deaths, link, cur, held, remote, redialing, op, closed, steps>>

\* Mutant of Release: by the id the step knows, not the one the broker does.
ReleaseByKey(s) ==
  /\ pc[s] = "running"
  /\ held' = [i \in DOMAIN held \ {key[s]} |-> held[i]]
  /\ IF key[s] \in DOMAIN held /\ cur = conn THEN Frees(key[s]) ELSE UNCHANGED seat
  /\ To(s, "done")
  /\ UNCHANGED <<up, seq, charged, deaths, link, cur, remote, over, redialing, op, closed, key, con>>

\* The step is over: the claim under its id is handed back.
Release(s) ==
  /\ pc[s] = "running"
  /\ held' = [i \in DOMAIN held \ {key[s]} |-> held[i]]
  /\ IF key[s] \in DOMAIN held /\ cur = conn /\ remote[held[key[s]]] # 0
       THEN Frees(remote[held[key[s]]])
       ELSE UNCHANGED seat
  /\ To(s, "done")
  /\ UNCHANGED <<up, seq, charged, deaths, link, cur, remote, over, redialing, op, closed, key, con>>

\* The run ends.
Close ==
  /\ MayClose /\ ~closed
  /\ closed' = TRUE
  /\ cur' = 0
  /\ held' = [i \in {} |-> NoOne]
  /\ IF cur = conn /\ alive THEN Drops ELSE UNCHANGED <<seat, charged, alive, unheard>>
  /\ UNCHANGED <<up, seq, deaths, conn, remote, over, redialing, op, steps>>

-----------------------------------------------------------------------------
\* What the client's goroutines and the broker get to on their own.
Progress ==
  \/ Start
  \/ \E n \in unheard : Lost(n)
  \/ /\ unheard = {} \/ "lag" \in Windows
     /\ \/ Dial(Redialer) \/ Learn \/ Publish \/ Return \/ OpenFails \/ RedialStops \/ RedialEnds
        \/ \E i \in Id : HandBack(i) \/ Tell(i)
        \/ \E s \in Step : Assert(s) \/ Grant(s) \/ Record(s) \/ Fail(s) \/ Cancel(s) \/ LateGrant(s)

Next ==
  \/ Progress
  \/ Die \/ TimeOut
  \/ /\ unheard = {} \/ "lag" \in Windows
     /\ \/ Close
        \/ \E s \in Step :
             Dial(s) \/ DialFails(s) \/ Ask(s) \/ GiveUp(s) \/ Overrun(s) \/ Release(s)

Spec == Init /\ [][Next]_vars /\ WF_vars(Progress)

-----------------------------------------------------------------------------
Seated(s) == seat[s] # 0
Running(s) == pc[s] = "running" /\ ~closed

\* Every variable keeps its shape (client.go's Client, conn.go's conn).
TypeOK ==
  /\ up \in BOOLEAN /\ seq \in Id /\ deaths \in 0..MaxDeaths
  /\ seat \in [Step -> Id] /\ charged \subseteq Step
  /\ conn \in Conn /\ alive \in BOOLEAN /\ unheard \subseteq Conn /\ cur \in Conn
  /\ DOMAIN held \subseteq Id /\ Held \subseteq Step
  /\ remote \in [Step -> Id] /\ over \subseteq Step
  /\ redialing \in {"none", "looks", "over"} /\ closed \in BOOLEAN
  /\ op # NoOne => op \in Opening /\ op.back \cup op.tell \subseteq Id
  /\ pc \in [Step -> Stage] /\ key \in [Step -> Id] /\ con \in [Step -> Conn]

\* A step that gave its claim back, or up, leaves no seat with the broker, whatever
\* broker the claim was being re-asserted on (client.go:585, :219), and no step of a
\* closed client does (client.go:399).
SeatsComeBack == \A s \in Step : (pc[s] = "done" \/ closed) ~> ~Seated(s)

\* Nobody dials for the steps that hold claims until the next one asks.
Stranded == Held # {} /\ ~closed /\ ~alive /\ unheard = {} /\ redialing = "none"

\* A client that holds claims when its broker dies re-asserts them on the next, overruns
\* with them, unless it is stranded (lost, client.go:697); and only the end of a redial
\* strands it, when the connection that redial got, or found, is dead by then.  Where
\* grants are recorded after their connection died ("record"), those strand it too.
RedialedOrStranded ==
  /\ \A s \in Step :
       /\ Running(s) ~> Seated(s) \/ ~Running(s) \/ Stranded
       /\ Running(s) /\ s \in over ~> s \in charged \/ ~Running(s) \/ Stranded
  /\ [][Stranded' => Stranded \/ redialing = "over"]_vars

\* "When its broker dies, a Client holding claims redials on its own and re-asserts
\* them" (client.go:80), and one re-asserted "is marked overrun there as well" (:273).
Reasserted ==
  \A s \in Step :
    /\ Running(s) ~> Seated(s) \/ ~Running(s)
    /\ Running(s) /\ s \in over ~> s \in charged \/ ~Running(s)

\* "a new broker learns about running steps before it seats anything else"
\* (client.go:424).
KnownFirst ==
  [][\A s \in Step : pc[s] \in {"asking", "late"} /\ key'[s] # key[s]
       => \A t \in Step : Running(t) => Seated(t)]_vars

\* A broker gives up a running step's seat only by losing the connection: no other
\* claim's release takes it.
KeepsSeat ==
  [][\A s \in Step : Running(s) /\ Seated(s) /\ alive' /\ ~closed' /\ pc'[s] = "running"
       => Seated(s)']_vars

\* "the id the current broker knows it by; remote is empty while no broker does"
\* (client.go:110).
RemoteTrue ==
  Live /\ op = NoOne => \A s \in Held : Running(s) => remote[s] = seat[s]
=============================================================================
