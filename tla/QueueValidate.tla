--------------------------- MODULE QueueValidate ---------------------------
(***************************************************************************)
(* The merge queue's validation of one plan (internal/queue/validate.go).  *)
(* A candidate is the set of changes it merges onto the base, one of them  *)
(* on top; each partition gates up to Depth candidates at once, each built *)
(* on the one below, and reads the gates from the lowest up.  What a gate  *)
(* says is a world's: which changes together break which unit.             *)
(***************************************************************************)
EXTENDS Naturals, FiniteSets

CONSTANTS
  Change, NoChange,
  Group,         \* the partition a change is in
  Pos,           \* and its place in it
  Below,         \* the change it is stacked on, or NoChange
  Units,         \* what its gate runs on
  Worlds,        \* [red, clash, refused]: see IsRed, Clashes and Launch
  Depth,         \* candidates of a partition in flight
  Parallel,      \* gates at once, over all partitions
  MaxFaultWaits, \* runs in a row that wait on a fault: 3 in the code
  Apart,         \* every change is validated by a job of its own (Only)
  MayFault,      \* a gate may fail for the machine
  MayStop,       \* a gate may not run at all
  MaxHead,       \* a bound on the heads a change is pushed to, and back to
  MaxRuns        \* a bound on runs sharing a verdict directory

Ahead(c) == {d \in Change : Group[d] = Group[c] /\ Pos[d] < Pos[c]}

ASSUME QueueValidateAssumption ==
  /\ NoChange \notin Change
  /\ Pos \in [Change -> Nat]
  /\ \A c, d \in Change : Group[c] = Group[d] /\ Pos[c] = Pos[d] => c = d
  /\ \A c \in Change : Below[c] \in Ahead(c) \cup {NoChange}
  /\ {Apart, MayFault, MayStop} \subseteq BOOLEAN
  /\ Depth \in Nat \ {0} /\ Parallel \in Nat \ {0}
  /\ {MaxFaultWaits, MaxHead, MaxRuns} \subseteq Nat

Groups == {Group[c] : c \in Change}
Keys == (SUBSET Change) \X {Units[c] : c \in Change}
Flying == {"gating", "green", "red", "fault", "refused"}
Waits == {"below", "belowKicked", "conflict", "behind", "baseRed", "machine"}
Decisions == {"merge", "kick"} \cup Waits
Results == {"green", "red", "fault"}
Heads == 0..MaxHead

VARIABLES
  world,    \* what is wrong with the changes
  stage,    \* of each change
  onto,     \* the changes under its candidate
  base,     \* the changes of each partition validated so far
  gated,    \* gates of what red candidates were built on, kept for the run
  verdict,  \* what is recorded of each change
  uncounted, \* changes whose verdict is recorded and whose fault waits are not counted yet
  waits,    \* fault-waits.jsonl: of each change, a head and how many runs waited on it
  faulted,  \* of each change and head, the runs that recorded a wait on a machine fault
  head,     \* each change's head
  stopped,  \* partitions an error stopped
  run

vvars == <<world, stage, onto, base, gated, verdict, uncounted, waits, faulted, head, stopped, run>>

Fresh ==
  /\ stage = [c \in Change |-> "pending"]
  /\ onto = [c \in Change |-> {}]
  /\ base = [g \in Groups |-> {}]
  /\ gated = [k \in Keys |-> "no"]
  /\ verdict = [c \in Change |-> "none"]
  /\ uncounted = {}
  /\ stopped = {}

VInit ==
  /\ world \in Worlds
  /\ Fresh
  /\ waits = [c \in Change |-> [head |-> 0, n |-> 0]]
  /\ faulted = [c \in Change |-> [h \in Heads |-> 0]]
  /\ head = [c \in Change |-> 0]
  /\ run = 1

-----------------------------------------------------------------------------
\* The gate on the candidate holding the changes S, of the units U.
IsRed(S, U) == \E r \in world.red : r.of \subseteq S /\ r.unit \in U
Gate(S, U) ==
  {IF IsRed(S, U) THEN "red" ELSE "green"}
    \cup (IF MayFault /\ U # {} THEN {"fault"} ELSE {})

Clashes(c, S) == \E d \in S : <<d, c>> \in world.clash

Flights(g) == {c \in Change : Group[c] = g /\ stage[c] \in Flying}
Built(g) == {c \in Flights(g) : stage[c] # "refused"}
Lowest(c) == stage[c] \in Flying /\ \A d \in Ahead(c) : stage[d] \notin Flying
Fills(c) ==
  /\ stage[c] = "pending" /\ \A d \in Ahead(c) : stage[d] # "pending"
  /\ Cardinality(Flights(Group[c])) < Depth
\* The window is full, or nothing is left to fill it.
Filled(g) == \A c \in Change : Group[c] = g => ~Fills(c)

\* Mutant of Busy: a candidate keeps its slot until it is decided.
BusyHeld ==
  Cardinality({c \in Change : stage[c] \in {"gating", "red", "fault"}})
    + Cardinality({k \in Keys : gated[k] = "running"})

Busy ==
  Cardinality({c \in Change : stage[c] = "gating"})
    + Cardinality({k \in Keys : gated[k] = "running"})

\* A job of its own has the machine to itself.
SlotFree == Apart \/ Busy < Parallel

Held(d) == verdict[d] \notin {"none", "merge"}
\* The change c is stacked on waits, was kicked back, or has no candidate.
StackHeld(c) ==
  /\ Below[c] # NoChange
  /\ Held(Below[c]) \/ stage[Below[c]] = "refused"
HoldCode(c) == IF verdict[Below[c]] \in {"kick", "belowKicked"} THEN "belowKicked" ELSE "below"

\* What the next candidate is built on: the nearest one in flight, or what is validated.
Under(g) == base[g] \cup Built(g)

Waited(c) == IF waits[c].head = head[c] THEN waits[c].n ELSE 0

\* Mutant of Noted: the count goes on whatever head it was of.
NotedAnyHead(c, v) ==
  IF v = "machine" THEN [head |-> head[c], n |-> waits[c].n + 1]
  ELSE IF Waited(c) = 0 THEN waits[c] ELSE [head |-> head[c], n |-> 0]

\* NoteFaultWait: one more wait at this head, or the end of its streak; the line of
\* another head stays when there is nothing to end.
Noted(c, v) ==
  IF v = "machine" THEN [head |-> head[c], n |-> Waited(c) + 1]
  ELSE IF Waited(c) = 0 THEN waits[c] ELSE [head |-> head[c], n |-> 0]

\* Record v for c.  Its fault waits are counted in a second write (Note).
Decide(c, v) ==
  /\ verdict' = [verdict EXCEPT ![c] = v]
  /\ uncounted' = uncounted \cup {c}
  /\ faulted' = IF v = "machine" THEN [faulted EXCEPT ![c][head[c]] = @ + 1] ELSE faulted
  /\ UNCHANGED waits

To(c, s) == stage' = [stage EXCEPT ![c] = s]
Undecided == UNCHANGED <<verdict, uncounted, waits, faulted>>
\* No error ended the partition's loop, and it has counted what it recorded.
Runs(c) == Group[c] \notin stopped /\ \A d \in uncounted : Group[d] # Group[c]

-----------------------------------------------------------------------------
(* One partition's pipeline.                                                 *)

\* Stacked on a change that is held: it waits with it, and is never built.
Hold(c) ==
  /\ ~Apart /\ Runs(c) /\ Fills(c) /\ StackHeld(c)
  /\ Decide(c, HoldCode(c))
  /\ To(c, "decided")
  /\ UNCHANGED <<world, onto, base, gated, head, stopped, run>>

\* Build the candidate and start its gate.  A conflict with a change ahead waits; a
\* refused candidate joins the flights, red.
Launch(c) ==
  /\ ~Apart /\ Runs(c) /\ Fills(c) /\ ~StackHeld(c) /\ SlotFree
  /\ LET under == Under(Group[c])
     IN  /\ onto' = [onto EXCEPT ![c] = under]
         /\ IF Clashes(c, under)
            THEN Decide(c, "conflict") /\ To(c, "decided")
            ELSE Undecided /\ To(c, IF c \in world.refused THEN "refused" ELSE "gating")
  /\ UNCHANGED <<world, base, gated, head, stopped, run>>

\* Mutant of GateEnds: the gate runs on the change alone.
GateEndsAlone(c) ==
  /\ stage[c] = "gating"
  /\ \E r \in Gate({c}, Units[c]) : To(c, r)
  /\ Undecided /\ UNCHANGED <<world, onto, base, gated, head, stopped, run>>

GateEnds(c) ==
  /\ stage[c] = "gating"
  /\ \E r \in Gate(onto[c] \cup {c}, Units[c]) : To(c, r)
  /\ Undecided /\ UNCHANGED <<world, onto, base, gated, head, stopped, run>>

\* The lowest candidate is read: alone in a job, or once its partition's window is full.
Read(c) == IF Apart THEN TRUE ELSE Runs(c) /\ Lowest(c) /\ Filled(Group[c])

\* Count the fault waits of what was recorded.
Note(c) ==
  /\ c \in uncounted /\ uncounted' = uncounted \ {c}
  /\ waits' = [waits EXCEPT ![c] = Noted(c, verdict[c])]
  /\ UNCHANGED <<world, stage, onto, base, gated, verdict, faulted, head, stopped, run>>

Green(c) ==
  /\ stage[c] = "green" /\ Read(c)
  /\ Decide(c, "merge")
  /\ To(c, "decided")
  /\ base' = IF Apart THEN base ELSE [base EXCEPT ![Group[c]] = onto[c] \cup {c}]
  /\ UNCHANGED <<world, onto, gated, head, stopped, run>>

\* A refused candidate: nothing above was built on it.
Refuse(c) ==
  /\ stage[c] = "refused" /\ Read(c)
  /\ Decide(c, IF Apart /\ onto[c] # {} THEN "behind" ELSE "kick")
  /\ To(c, "decided")
  /\ UNCHANGED <<world, onto, base, gated, head, stopped, run>>

\* Everything under the candidate is validated, so its red may be the change's own.
Attributable(c) == Apart => onto[c] = {}
Failed(c) == stage[c] \in {"red", "fault"} /\ Read(c)
Key(c) == <<onto[c], Units[c]>>

\* Red on changes this job did not gate: nobody is blamed.
Behind(c) ==
  /\ Failed(c) /\ ~Attributable(c)
  /\ Decide(c, "behind")
  /\ To(c, "decided")
  /\ UNCHANGED <<world, onto, base, gated, head, stopped, run>>

\* Gate what the red candidate was built on, once for everyone who asks.
BaseStart(c) ==
  /\ Failed(c) /\ Attributable(c)
  /\ gated[Key(c)] = "no" /\ SlotFree
  /\ gated' = [gated EXCEPT ![Key(c)] = "running"]
  /\ Undecided /\ UNCHANGED <<world, stage, onto, base, head, stopped, run>>

BaseEnds(k) ==
  /\ gated[k] = "running"
  /\ \E r \in Gate(k[1], k[2]) \cup (IF MayStop THEN {"error"} ELSE {}) :
       gated' = [gated EXCEPT ![k] = r]
  /\ Undecided /\ UNCHANGED <<world, stage, onto, base, head, stopped, run>>

\* Mutant of Blame: the base's gate is not asked.
BlameAlways(c) == "kick"

\* Whose the red is: the machine's, for MaxFaultWaits runs in a row; the base's; its own.
Blame(c) ==
  IF "fault" \in {stage[c], gated[Key(c)]}
  THEN IF Waited(c) < MaxFaultWaits THEN "machine" ELSE "kick"
  ELSE IF gated[Key(c)] = "red" THEN "baseRed" ELSE "kick"

\* The failed change is decided, and every candidate above it, built on it, is grounded.
Judge(c) ==
  /\ Failed(c) /\ Attributable(c)
  /\ gated[Key(c)] \in Results
  /\ Decide(c, Blame(c))
  /\ stage' = [d \in Change |->
                 IF d = c THEN "decided"
                 ELSE IF ~Apart /\ d \in Flights(Group[c]) THEN "pending" ELSE stage[d]]
  /\ UNCHANGED <<world, onto, base, gated, head, stopped, run>>

\* The calls of its partition's loop, or of its job, that may fail: to build its candidate
\* or gate it, to gate what that was built on, to bundle it, to record or to count.
MayErr(c) ==
  \/ c \in uncounted
  \/ IF Apart THEN stage[c] = "pending" ELSE Runs(c) /\ Fills(c)
  \/ /\ stage[c] \in Flying /\ Read(c)
     /\ stage[c] \in {"red", "fault"} => gated[Key(c)] # "running"

\* An error ends the partition, or the job; the others go on.  A process that dies ends
\* all of them.
Stop(c) ==
  /\ MayStop /\ MayErr(c)
  /\ uncounted' = uncounted \ {c}
  /\ IF Apart
     THEN (IF c \in uncounted THEN UNCHANGED stage ELSE To(c, "lost")) /\ UNCHANGED stopped
     ELSE /\ stopped' = stopped \cup {Group[c]}
          /\ stage' = [d \in Change |-> IF d \in Flights(Group[c]) THEN "pending" ELSE stage[d]]
  /\ UNCHANGED <<world, onto, base, gated, verdict, waits, faulted, head, run>>

-----------------------------------------------------------------------------
(* A job for one change: the chain beneath it is built and not gated.        *)

\* Mutant of Chain: a change is merged without the one it is stacked on.
ChainAll(c, lost, K) ==
  /\ K \subseteq Ahead(c)
  /\ \A d \in Ahead(c) :
       d \in K <=> d \notin lost \cup world.refused /\ ~Clashes(d, K \cap Ahead(d))

\* What can be built of the changes beneath c, less those whose build went wrong here.
Chain(c, lost, K) ==
  /\ K \subseteq Ahead(c)
  /\ \A d \in Ahead(c) :
       d \in K <=> /\ d \notin lost \cup world.refused
                   /\ Below[d] \in K \cup {NoChange}
                   /\ ~Clashes(d, K \cap Ahead(d))

Job(c) ==
  /\ Apart /\ stage[c] = "pending"
  /\ \E lost \in IF MayStop THEN SUBSET Ahead(c) ELSE {{}} : \E K \in SUBSET Ahead(c) :
       /\ Chain(c, lost, K)
       /\ onto' = [onto EXCEPT ![c] = K]
       /\ \/ /\ Below[c] \notin K \cup {NoChange}
             /\ Decide(c, "below") /\ To(c, "decided")
          \/ /\ Below[c] \in K \cup {NoChange} /\ Clashes(c, K)
             /\ Decide(c, "conflict") /\ To(c, "decided")
          \/ /\ Below[c] \in K \cup {NoChange} /\ ~Clashes(c, K)
             /\ Undecided
             /\ To(c, IF c \in world.refused THEN "refused" ELSE "gating")
  /\ UNCHANGED <<world, base, gated, head, stopped, run>>

-----------------------------------------------------------------------------
\* Another run of the same plan over the same verdict directory; a change may have been
\* pushed to since, or pushed back to a head it had.
NextRun ==
  /\ run < MaxRuns /\ run' = run + 1
  /\ uncounted = {}
  /\ \A c \in Change : stage[c] \in {"decided", "lost"} \/ Group[c] \in stopped
  /\ head' \in [Change -> Heads]
  /\ stage' = [c \in Change |-> "pending"]
  /\ onto' = [c \in Change |-> {}]
  /\ base' = [g \in Groups |-> {}]
  /\ gated' = [k \in Keys |-> "no"]
  /\ verdict' = [c \in Change |-> "none"]
  /\ stopped' = {}
  /\ UNCHANGED <<world, uncounted, waits, faulted>>

\* What goes on by itself; of the errors, only one the gate on the base has returned.
ChangeAdvances(c) ==
  \/ Hold(c) \/ Launch(c) \/ Job(c) \/ GateEnds(c) \/ Note(c)
  \/ Green(c) \/ Refuse(c) \/ Behind(c) \/ BaseStart(c) \/ Judge(c)
  \/ Failed(c) /\ gated[Key(c)] = "error" /\ Stop(c)

ChangeNext(c) == ChangeAdvances(c) \/ Stop(c)

Advances == (\E c \in Change : ChangeAdvances(c)) \/ (\E k \in Keys : BaseEnds(k))
Validates == (\E c \in Change : ChangeNext(c)) \/ (\E k \in Keys : BaseEnds(k))
VNext == Validates \/ NextRun

VSpec == VInit /\ [][VNext]_vvars
\* A run's goroutines go on, and a gate ends.
FairVSpec == VSpec /\ WF_vvars(Advances)

-----------------------------------------------------------------------------
\* Every variable has its type, and a fault's waits are within their bound.
VTypeOK ==
  /\ world \in Worlds
  /\ stage \in [Change -> Flying \cup {"pending", "decided", "lost"}]
  /\ onto \in [Change -> SUBSET Change]
  /\ base \in [Groups -> SUBSET Change]
  /\ gated \in [Keys -> Results \cup {"no", "running", "error"}]
  /\ verdict \in [Change -> Decisions \cup {"none"}]
  /\ uncounted \subseteq Change
  /\ waits \in [Change -> [head : Heads, n : 0..MaxFaultWaits]]
  /\ faulted \in [Change -> [Heads -> Nat]]
  /\ head \in [Change -> Heads]
  /\ stopped \subseteq Groups
  /\ run \in Nat

\* "main plus every change ahead of it in its partition" (docs/concepts/merge-queue.md:23):
\* in a pipeline, a green change was gated on exactly the green changes ahead of it.
OnAllAhead ==
  Apart \/ \A c \in Change : verdict[c] = "merge" =>
             onto[c] = {d \in Ahead(c) : verdict[d] = "merge"}

\* What is green was gated as it will merge: what the gate saw of its units is green.
GreenIsGated == \A c \in Change : verdict[c] = "merge" => ~IsRed(onto[c] \cup {c}, Units[c])

\* "It kicks an author back only for what their own change did" (merge-queue.md:42): when
\* it does, all beneath is validated, and either the change cannot be built, or the units
\* that are red with it are green without it, or runs at this very head waited on machines as
\* often as they may.
KickIsOwn ==
  [][\A c \in Change : verdict[c] # "kick" /\ verdict'[c] = "kick" =>
       /\ \A d \in onto[c] : verdict[d] = "merge"
       /\ \/ c \in world.refused
          \/ IsRed(onto[c] \cup {c}, Units[c]) /\ ~IsRed(onto[c], Units[c])
          \/ faulted[c][head[c]] >= MaxFaultWaits]_vvars

\* A change is neither merged nor blamed on top of a stacked one without what that is
\* stacked on: "it waits too and is never blamed" (merge-queue.md:538).
StackKept ==
  \A c \in Change : verdict[c] \in {"merge", "kick"} =>
    \A d \in onto[c] \cup {c} : Below[d] \in onto[c] \cup {NoChange}

\* A wait on a machine fault is counted at its own head (verdicts.go:238): what the file
\* says of a change's head, with which it is blamed for the next fault, is never more than
\* runs recorded there, whatever was pushed in between and wherever a run ended.
FaultWaitsBacked ==
  \A c \in Change : Waited(c) <= faulted[c][head[c]] /\ Waited(c) <= MaxFaultWaits

\* "A new head starts the count again" (verdicts.go:243).
NewHeadStartsAgain == [][\A c \in Change : head'[c] # head[c] => Waited(c)' = 0]_vvars

\* Every change a partition's error does not cut off is decided, in every run: the gates
\* of the candidates and of what they were built on never wait for each other's slots.
AllDecided ==
  \A c \in Change : []<>(stage[c] \in {"decided", "lost"} \/ Group[c] \in stopped)
=============================================================================
