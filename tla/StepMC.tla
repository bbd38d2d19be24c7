------------------------------- MODULE StepMC -------------------------------
(***************************************************************************)
(* What a running step holds and lends while it waits: its machine claim,  *)
(* and the slots of its process's pool, each in scenes of its own.  The    *)
(* scene is chosen at the start, and the other side stays where it begins. *)
(***************************************************************************)
EXTENDS MachineHold

CONSTANTS a, b, c, d, e, f, k, NoTask, NoKey

VARIABLES scene, tpc, free, queue, holds, yielded, mark, was, waiters, doomed, owner

pool == <<tpc, free, queue, holds, yielded, mark, was, waiters, doomed, owner>>

\* b is a's spell and c is b's, f is d's; c and e share a cache lock; a is heavy, and
\* f reserves.
Nested == INSTANCE SlotPool WITH
  pc <- tpc, Task <- {a, b, c, d, e, f}, Cap <- 2,
  Weight <- [t \in {a, b, c, d, e, f} |-> IF t = a THEN 2 ELSE 1],
  Parent <- [t \in {a, b, c, d, e, f} |->
               CASE t = b -> a [] t = c -> b [] t = f -> d [] OTHER -> NoTask],
  Key <- [t \in {a, b, c, d, e, f} |-> IF t \in {c, e} THEN k ELSE NoKey],
  Reserve <- [t \in {a, b, c, d, e, f} |-> IF t = f THEN 2 ELSE 0]

\* b and c are a's spells; a holds across its fan-out the cache lock that d and e want.
Wedge == INSTANCE SlotPool WITH
  pc <- tpc, Task <- {a, b, c, d, e}, Cap <- 2,
  Weight <- [t \in {a, b, c, d, e} |-> 1],
  Parent <- [t \in {a, b, c, d, e} |-> IF t \in {b, c} THEN a ELSE NoTask],
  Key <- [t \in {a, b, c, d, e} |-> IF t \in {a, d, e} THEN k ELSE NoKey],
  Reserve <- [t \in {a, b, c, d, e} |-> 0]

ASSUME PoolAssumption == Nested!SlotPoolAssumption /\ Wedge!SlotPoolAssumption

AllInit ==
  /\ Init
  /\ \/ scene \in {"hold", "nested"} /\ Nested!Init
     \/ scene = "wedge" /\ Wedge!Init

NestedNext == scene = "nested" /\ Nested!Next /\ UNCHANGED <<vars, scene>>
WedgeNext == scene = "wedge" /\ Wedge!Next /\ UNCHANGED <<vars, scene>>

AllNext ==
  \/ scene = "hold" /\ Next /\ UNCHANGED <<pool, scene>>
  \/ NestedNext \/ WedgeNext

AllSpec ==
  /\ AllInit /\ [][AllNext]_<<vars, pool, scene>>
  /\ WF_pool(NestedNext) /\ WF_pool(WedgeNext)

\* Steps that fan out, hold cache locks and reserve slots all end, none refused, when
\* no lock is held across a fan-out (limiter.go, deadlock.go).
AllRun == scene = "nested" => <>(\A t \in DOMAIN tpc : tpc[t] = "over")

\* "an impossible wait becomes an error instead of a hang" (deadlock.go:65): a task
\* that queues for its slots is served or refused, a lock held across a fan-out of
\* several spells included.  A refusal may hit a pool that is not wedged, by a mark its
\* spells left behind (SlotPoolMarks.cfg).  Every step here takes one slot and reserves
\* none: the claim fails of others, as the watch counts no slot that is reserved for a
\* tool, or left free by a heavier step at the queue's head (SlotPoolReserve.cfg).
QueuedAnswered == \A t \in {a, b, c, d, e} : tpc[t] = "queued" ~> tpc[t] # "queued"
=============================================================================
