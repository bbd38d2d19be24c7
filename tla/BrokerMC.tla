------------------------------ MODULE BrokerMC ------------------------------
(***************************************************************************)
(* The scenes the broker is checked on.  Each is a handful of processes    *)
(* and the claims they ask for, given to Broker by a .cfg: the claims say  *)
(* how much, for whom and underneath what, the rest who asks and how.      *)
(***************************************************************************)
EXTENDS Broker

CONSTANTS r1, r2, r3, r4, r5, p1, p2, p3, p4

Step(inv, anc, slots, weight) ==
  [invocation |-> inv, ancestors |-> anc, slots |-> slots, mb |-> 1, pid |-> 1, weight |-> weight]

TwoConns == {p1, p2}
ThreeConns == {p1, p2, p3}
FourConns  == {p1, p2, p3, p4}
ThreeRequests == {r1, r2, r3}
FiveRequests == {r1, r2, r3, r4, r5}
FourRequests == {r1, r2, r3, r4}

RunsByPid == [c \in Conn |-> CASE c = p1 -> "pid 1" [] c = p2 -> "pid 2" [] c = p3 -> "pid 3" [] OTHER -> "pid 4"]
NoTrees   == [c \in Conn |-> NoTree]
NoParents == [r \in Request |-> NoParent]
AllPark  == [r \in Request |-> "park"]

ASSUME SceneOneRun == OneRunPerProcess

\* Where nothing is re-asserted: a step of the last broker's may ask before the step it
\* runs underneath is known.
ASSUME SceneOneLevel == (\E r \in Request : Kind[r] = "reassert") \/ OneLevel

-----------------------------------------------------------------------------
(* Host: two slots.  A feature check, a gate with two magus underneath, one   *)
(* of which wants the whole machine and waits for the other's slot, and a run *)
(* of a heavier job that wants the whole machine too.                         *)

HostClaim == [r \in Request |->
  CASE r = r1 -> Step("a", <<>>, 1, 0)
    [] r = r2 -> Step("g", <<>>, 1, 0)
    [] r = r3 -> Step("g1", <<"g">>, 2, 0)
    [] r = r4 -> Step("b", <<>>, 2, 9)
    [] OTHER  -> Step("g2", <<"g">>, 1, 0)]
HostConn == [r \in Request |->
  CASE r = r1 -> p1 [] r = r2 -> p2 [] r = r4 -> p4 [] OTHER -> p3]
HostParent == [r \in Request |-> IF r \in {r3, r5} THEN r2 ELSE NoParent]

-----------------------------------------------------------------------------
(* Seats: one validation at a time in a job tree.  A run with a magus of its *)
(* own underneath, a second run that asks unparked, a third that comes from  *)
(* the last broker and then holds a command under a deadline.                *)

SeatClaim == [r \in Request |->
  CASE r = r1 -> Step("a", <<>>, 1, 0)
    [] r = r2 -> Step("none", <<>>, 1, 0)
    [] r = r3 -> Step("a1", <<"a">>, 2, 0)
    [] r = r4 -> Step("c", <<>>, 1, 0)
    [] OTHER  -> Step("wrap", <<>>, 1, 0)]
SeatKind == [r \in Request |->
  CASE r = r2 -> "once" [] r = r4 -> "reassert" [] r = r5 -> "hold" [] OTHER -> "park"]
SeatConn == [r \in Request |->
  CASE r = r1 -> p1 [] r = r2 -> p2 [] r = r3 -> p3 [] OTHER -> p4]
SeatParent == [r \in Request |-> IF r = r3 THEN r1 ELSE NoParent]
OneTree == [c \in Conn |-> "tree"]

-----------------------------------------------------------------------------
(* Drain: a seated step, one parked behind it and a step of the last broker. *)

DrainClaim == [r \in Request |->
  CASE r = r1 -> Step("a", <<>>, 2, 0)
    [] r = r2 -> Step("b", <<>>, 1, 0)
    [] OTHER  -> Step("c", <<>>, 1, 0)]
DrainKind == [r \in Request |-> IF r = r3 THEN "reassert" ELSE "park"]
DrainConn == [r \in Request |->
  CASE r = r1 -> p1 [] r = r2 -> p2 [] OTHER -> p3]

-----------------------------------------------------------------------------
(* Passing the head: two small claims, the whole machine, and a small claim   *)
(* that asks once the whole machine has been overtaken, unparked or a gate's. *)

PassClaim == [r \in Request |->
  CASE r = r2 -> Step("b", <<>>, 2, 0)
    [] r = r3 -> Step("g", <<>>, 1, 0)
    [] OTHER  -> Step("a", <<>>, 1, 0)]
PassConn  == [r \in Request |-> CASE r = r2 -> p2 [] r = r3 -> p3 [] OTHER -> p1]
PassKind  == [r \in Request |-> IF r = r3 THEN "once" ELSE "park"]

-----------------------------------------------------------------------------
(* Waiting on a seat: a run and a gate of one capped tree, on a machine that *)
(* has room for one step.                                                    *)

WaitClaim == [r \in Request |-> Step(IF r = r2 THEN "g" ELSE "a", <<>>, 1, 0)]
WaitConn  == [r \in Request |-> IF r = r2 THEN p2 ELSE p1]

-----------------------------------------------------------------------------
(* After a restart: a gate and the smaller of the two magus it runs re-assert *)
(* their steps, the larger asks, and so does a stranger.                      *)

RestartClaim == [r \in Request |->
  CASE r = r1 -> Step("g", <<>>, 1, 0)
    [] r = r2 -> Step("g2", <<"g">>, 2, 0)
    [] r = r3 -> Step("g3", <<"g">>, 1, 0)
    [] OTHER  -> Step("s", <<>>, 2, 0)]
RestartConn == [r \in Request |->
  CASE r = r1 -> p1 [] r = r2 -> p2 [] r = r3 -> p3 [] OTHER -> p4]
RestartKind == [r \in Request |-> IF r \in {r1, r3} THEN "reassert" ELSE "park"]
=============================================================================
