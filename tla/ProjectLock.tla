----------------------------- MODULE ProjectLock -----------------------------
(***************************************************************************)
(* The locks of a workspace's projects (lock.go) and the watch that makes  *)
(* a holder give them up (watchdog.go): an invocation takes the lock of    *)
(* every project it will mutate, in order, and keeps them to its end.      *)
(*                                                                         *)
(* A lock is a flock, which the kernel frees when its process dies, and    *)
(* within a process a slot that is taken first.  Beside it lie two files   *)
(* that exclude nobody and outlive a killed process: the record of who     *)
(* holds it, and one request that the holder yield.  Every invocation of   *)
(* the module is on one tree, since each tree has a lock directory of its  *)
(* own; the pipe of a run's upstream and the root watcher are left out.    *)
(***************************************************************************)
EXTENDS Integers, FiniteSets

CONSTANTS
  Inv,          \* the invocations of magus
  NoInv,
  Project,      \* in the order a run takes them
  Prober,       \* a `magus status` of another process
  Plans         \* what the invocations may be, see ASSUME

ASSUME ProjectLockAssumption ==
  /\ {NoInv, Prober} \cap Inv = {} /\ NoInv # Prober
  /\ Project \subseteq Nat /\ IsFiniteSet(Project)
  /\ \A p \in Plans :
       /\ p.wants \in [Inv -> SUBSET Project]
       /\ DOMAIN p.process = Inv
       /\ p.role \in [Inv -> {"gate", "background", "plain"}]
       /\ p.started \in [Inv -> Nat]
       /\ DOMAIN p.run = Inv
       /\ p.ancestors \in [Inv -> SUBSET Inv]
       /\ p.statuses \in BOOLEAN
       /\ p.stalls \subseteq Inv

VARIABLES
  plan,     \* what the invocations are; never changes
  pc,       \* of each invocation: where its acquisition, or its run, is
  held,     \* the projects each has locked
  verdict,  \* why it ended early
  slot,     \* of each project and process: the invocation in its slot
  flock,    \* of each project: who has the flock
  owner,    \* of each project: the invocation its owner record names
  marker,   \* of each project: the invocation its yield marker names
  dead      \* the processes killed

files == <<owner, marker>>
lockVars == <<pc, held, verdict, slot, flock, files, dead>>
vars  == <<plan, lockVars>>

Wants     == plan.wants      \* the projects of each invocation
Process   == plan.process    \* the process each runs in
Processes == {Process[i] : i \in Inv}
Role      == plan.role       \* a gate, background work, or plain
Started   == plan.started    \* when each began locking
Run       == plan.run        \* the outermost invocation each is underneath
Ancestors == plan.ancestors  \* the invocations each is nested in
Statuses  == plan.statuses   \* a status may run
Kills     == plan.kills      \* bound: the processes that may be killed
Stalls    == plan.stalls     \* bound: the invocations that may stall

Stage == {"out", "local", "queued", "queuedAsking", "queuedBounded", "flock",
          "asking", "took", "tookSlot", "sibling", "locked", "running", "unwinding",
          "disowning", "unlocking", "giving", "done", "dead"}

Init ==
  /\ plan \in Plans
  /\ pc = [i \in Inv |-> "out"]
  /\ held = [i \in Inv |-> {}]
  /\ verdict = [i \in Inv |-> "none"]
  /\ slot = [p \in Project |-> [q \in Processes |-> NoInv]]
  /\ flock = [p \in Project |-> NoInv]
  /\ owner = [p \in Project |-> NoInv]
  /\ marker = [p \in Project |-> NoInv]
  /\ dead = {}

\* Mutant of Order: the projects are taken as the caller lists them.
OrderOfCaller(i, p, q) == IF Started[i] % 2 = 0 THEN p < q ELSE q < p

Order(i, p, q) == p < q

\* The project an acquisition is at.
At(i, p) == /\ p \in Wants[i] \ held[i]
            /\ \A q \in Wants[i] \ held[i] : p = q \/ Order(i, p, q)

\* The project a release is at: in reverse.
Last(i, p) == p \in held[i] /\ \A q \in held[i] : p = q \/ Order(i, q, p)

Go(i, stage) == pc' = [pc EXCEPT ![i] = stage]
InSlot(p, i) == slot[p][Process[i]] = i
SlotFree(p, i) == slot[p][Process[i]] = NoInv
SetSlot(p, i, v) == slot' = [slot EXCEPT ![p][Process[i]] = v]
Set(file, p, v) == file' = [file EXCEPT ![p] = v]

Nested(i) == {c \in Inv : i \in Ancestors[c]}

-----------------------------------------------------------------------------
(* What an acquisition makes of the record beside a lock.                    *)

\* Mutant of Reentrant: the whole run counts as an ancestor.
ReentrantByRun(i, p) == owner[p] # NoInv /\ Run[owner[p]] = Run[i]

\* An ancestor's.  The code asks whether the lock is still held, through this
\* process's own slot, which is taken whenever it asks: it always is.
Reentrant(i, p) == owner[p] \in Ancestors[i]

\* One to be asked to stop: background work, or an earlier gate by a gate.
Supersedes(i, p) ==
  /\ owner[p] # NoInv
  /\ \/ Role[owner[p]] = "background" /\ Role[i] # "background"
     \/ /\ Role[owner[p]] = "gate" /\ Role[i] = "gate"
        /\ Started[owner[p]] < Started[i]

\* A sibling's, of this invocation's own run.
SameRun(i, p) == owner[p] # NoInv /\ Run[owner[p]] = Run[i]

\* An acquisition that fails gives back what it has.
Fail(i, why) ==
  /\ verdict' = [verdict EXCEPT ![i] = why]
  /\ Go(i, IF held[i] = {} THEN "done" ELSE "disowning")

-----------------------------------------------------------------------------
(* The process's own slot.                                                   *)

\* A nested invocation is a command of a step of the run around it.
Begin(i) ==
  /\ pc[i] = "out"
  /\ Wants[i] # {}
  /\ \A a \in Ancestors[i] : pc[a] = "running"
  /\ Go(i, "local")
  /\ UNCHANGED <<held, verdict, slot, flock, files, dead>>

TakeSlot(i, p) ==
  /\ pc[i] = "local"
  /\ At(i, p)
  /\ SlotFree(p, i)
  /\ SetSlot(p, i, i)
  /\ Go(i, "flock")
  /\ UNCHANGED <<held, verdict, flock, files, dead>>

\* Queue behind another invocation of this process, an ancestor apart.
Queue(i, p) ==
  /\ pc[i] = "local"
  /\ At(i, p)
  /\ ~SlotFree(p, i)
  /\ \/ /\ Reentrant(i, p)
        /\ Fail(i, "reentrant") /\ UNCHANGED marker
     \/ /\ ~Reentrant(i, p) /\ Supersedes(i, p)
        /\ Set(marker, p, i)
        /\ Go(i, IF Role[owner[p]] = "background" THEN "queuedBounded" ELSE "queuedAsking")
        /\ UNCHANGED verdict
     \/ /\ ~Reentrant(i, p) /\ ~Supersedes(i, p)
        /\ Go(i, "queued") /\ UNCHANGED <<verdict, marker>>
  /\ UNCHANGED <<held, slot, flock, owner, dead>>

TakeQueued(i, p) ==
  /\ pc[i] \in {"queued", "queuedAsking", "queuedBounded"}
  /\ At(i, p)
  /\ SlotFree(p, i)
  /\ SetSlot(p, i, i)
  /\ Go(i, IF pc[i] = "queued" THEN "flock" ELSE "tookSlot")
  /\ UNCHANGED <<held, verdict, flock, files, dead>>

\* Background work did not stop within supersedeYieldBound.
QueueExpires(i, p) ==
  /\ pc[i] = "queuedBounded"
  /\ At(i, p)
  /\ Set(marker, p, NoInv)
  /\ Fail(i, "contended")
  /\ UNCHANGED <<held, slot, flock, owner, dead>>

-----------------------------------------------------------------------------
(* The flock.                                                                *)

TryLock(i, p) ==
  /\ pc[i] = "flock"
  /\ At(i, p)
  /\ flock[p] = NoInv
  /\ Set(flock, p, i)
  /\ Go(i, "locked")
  /\ UNCHANGED <<held, verdict, slot, files, dead>>

\* Another process has it.
Contend(i, p) ==
  /\ pc[i] = "flock"
  /\ At(i, p)
  /\ flock[p] # NoInv
  /\ \/ /\ Reentrant(i, p) \/ (~Supersedes(i, p) /\ ~SameRun(i, p))
        /\ Fail(i, IF Reentrant(i, p) THEN "reentrant" ELSE "contended")
        /\ SetSlot(p, i, NoInv)
        /\ UNCHANGED marker
     \/ /\ ~Reentrant(i, p) /\ Supersedes(i, p)
        /\ Set(marker, p, i)
        /\ Go(i, "asking")
        /\ UNCHANGED <<verdict, slot>>
     \/ /\ ~Reentrant(i, p) /\ ~Supersedes(i, p) /\ SameRun(i, p)
        /\ Go(i, "sibling")
        /\ UNCHANGED <<verdict, slot, marker>>
  /\ UNCHANGED <<held, flock, owner, dead>>

\* Both waits poll the flock.
Poll(i, p) ==
  /\ pc[i] \in {"asking", "sibling"}
  /\ At(i, p)
  /\ flock[p] = NoInv
  /\ Set(flock, p, i)
  /\ Go(i, IF pc[i] = "asking" THEN "took" ELSE "locked")
  /\ UNCHANGED <<held, verdict, slot, files, dead>>

\* One that asked takes its request back, whosever request is there by then.
Retract(i, p) ==
  /\ pc[i] \in {"took", "tookSlot"}
  /\ At(i, p)
  /\ Set(marker, p, NoInv)
  /\ Go(i, IF pc[i] = "took" THEN "locked" ELSE "flock")
  /\ UNCHANGED <<held, verdict, slot, flock, owner, dead>>

\* The holder did not stop within supersedeYieldBound.
AskExpires(i, p) ==
  /\ pc[i] = "asking"
  /\ At(i, p)
  /\ Set(marker, p, NoInv)
  /\ SetSlot(p, i, NoInv)
  /\ Fail(i, "contended")
  /\ UNCHANGED <<held, flock, owner, dead>>

\* A request that can be for the holder: of one that began after it.
ForHolder(i, p) == marker[p] # NoInv /\ Started[i] < Started[marker[p]]

Complete(i, locked) == locked = Wants[i]

\* Write the owner record and drop a request that cannot be for this holder.
RecordOwner(i, p) ==
  /\ pc[i] = "locked"
  /\ At(i, p)
  /\ Set(owner, p, i)
  /\ IF ForHolder(i, p) THEN UNCHANGED marker ELSE Set(marker, p, NoInv)
  /\ held' = [held EXCEPT ![i] = @ \cup {p}]
  /\ Go(i, IF Complete(i, held'[i]) THEN "running" ELSE "local")
  /\ UNCHANGED <<verdict, slot, flock, dead>>

-----------------------------------------------------------------------------
(* A run that holds its locks.                                               *)

Ended(c) == pc[c] \in {"out", "done", "dead"}

\* Mutant of Waited: the requester's pid is not probed.
WaitedUnprobed(r) == TRUE

Waited(r) == Process[r] \notin dead

\* Poll the held projects for a request to yield: unwind for one somebody still
\* waits on, remove one whose process is gone.
Asked(i, p) ==
  /\ marker[p] # NoInv
  /\ \/ Role[i] = "background"
     \/ Role[i] = "gate" /\ Role[marker[p]] = "gate" /\ ForHolder(i, p)

PollYield(i) ==
  /\ pc[i] = "running"
  /\ \E p \in held[i] :
       /\ Asked(i, p)
       /\ IF Waited(marker[p])
            THEN /\ verdict' = [verdict EXCEPT ![i] = "superseded"]
                 /\ Go(i, "unwinding")
                 /\ UNCHANGED marker
            ELSE /\ Set(marker, p, NoInv)
                 /\ UNCHANGED <<pc, verdict>>
  /\ UNCHANGED <<held, slot, flock, owner, dead>>

\* The locks come back once the run, and every run nested in it, has ended ...
Finish(i) ==
  /\ pc[i] \in {"running", "unwinding"}
  /\ \A c \in Nested(i) : Ended(c)
  /\ Go(i, "disowning")
  /\ UNCHANGED <<held, verdict, slot, flock, files, dead>>

\* Mutant of Stall: a release that runs again with the run's own.
StallTwice(i) ==
  /\ i \in Stalls
  /\ pc[i] \in {"running", "unwinding"}
  /\ \E p \in held[i] :
       /\ Set(owner, p, NoInv)
       /\ Set(flock, p, NoInv)
       /\ SetSlot(p, i, NoInv)
  /\ Go(i, "disowning")
  /\ UNCHANGED <<held, verdict, marker, dead>>

\* ... or from the stall watchdog, which does not wait for that.
Stall(i) ==
  /\ i \in Stalls
  /\ pc[i] \in {"running", "unwinding"}
  /\ Go(i, "disowning")
  /\ UNCHANGED <<held, verdict, slot, flock, files, dead>>

\* A release removes the record, unlocks, and gives the slot.
RemoveOwner(i, p) ==
  /\ pc[i] = "disowning"
  /\ Last(i, p)
  /\ Set(owner, p, NoInv)
  /\ Go(i, "unlocking")
  /\ UNCHANGED <<held, verdict, slot, flock, marker, dead>>

Unlock(i, p) ==
  /\ pc[i] = "unlocking"
  /\ Last(i, p)
  /\ Set(flock, p, NoInv)
  /\ Go(i, "giving")
  /\ UNCHANGED <<held, verdict, slot, files, dead>>

Give(i, p) ==
  /\ pc[i] = "giving"
  /\ Last(i, p)
  /\ SetSlot(p, i, NoInv)
  /\ held' = [held EXCEPT ![i] = @ \ {p}]
  /\ Go(i, IF held'[i] = {} THEN "done" ELSE "disowning")
  /\ UNCHANGED <<verdict, flock, files, dead>>

-----------------------------------------------------------------------------
(* Around the invocations.                                                   *)

\* SIGKILL: the kernel frees what the process had, and its files stay.
Kill(q) ==
  /\ q \in Kills \ dead
  /\ dead' = dead \cup {q}
  /\ pc' = [i \in Inv |-> IF Process[i] = q /\ pc[i] # "done" THEN "dead" ELSE pc[i]]
  /\ held' = [i \in Inv |-> IF Process[i] = q THEN {} ELSE held[i]]
  /\ flock' = [p \in Project |->
                 IF flock[p] \in Inv /\ Process[flock[p]] = q THEN NoInv ELSE flock[p]]
  /\ slot' = [p \in Project |-> [slot[p] EXCEPT ![q] = NoInv]]
  /\ UNCHANGED <<verdict, files>>

\* A status that finds an owner record takes the flock to see whether anybody
\* has it, and gives it back.
Status(p) ==
  /\ Statuses
  /\ \/ owner[p] # NoInv /\ flock[p] = NoInv /\ Set(flock, p, Prober)
     \/ flock[p] = Prober /\ Set(flock, p, NoInv)
  /\ UNCHANGED <<pc, held, verdict, slot, files, dead>>

-----------------------------------------------------------------------------
Acquire(i, p) ==
  \/ TakeSlot(i, p) \/ Queue(i, p) \/ TakeQueued(i, p) \/ QueueExpires(i, p) \/ TryLock(i, p)
  \/ Contend(i, p) \/ Poll(i, p) \/ Retract(i, p) \/ AskExpires(i, p) \/ RecordOwner(i, p)

Release(i, p) == RemoveOwner(i, p) \/ Unlock(i, p) \/ Give(i, p)

Act ==
  \/ \E i \in Inv : Begin(i) \/ PollYield(i) \/ Finish(i) \/ Stall(i)
  \/ \E i \in Inv, p \in Project : Acquire(i, p) \/ Release(i, p)
  \/ \E q \in Kills : Kill(q)
  \/ \E p \in Project : Status(p)

Next == Act /\ UNCHANGED plan

\* Every goroutine runs on, the waits poll, and a run ends.
Fairness ==
  \A i \in Inv :
    /\ WF_lockVars(\E p \in Project : Acquire(i, p))
    /\ WF_lockVars(Finish(i))
    /\ WF_lockVars(\E p \in Project : Release(i, p))

Spec == Init /\ [][Next]_vars
FairSpec == Spec /\ Fairness

-----------------------------------------------------------------------------
\* Every variable keeps its shape (lock.go's files, slots and flocks).
TypeOK ==
  /\ plan \in Plans
  /\ pc \in [Inv -> Stage]
  /\ held \in [Inv -> SUBSET Project]
  /\ \A i \in Inv : held[i] \subseteq Wants[i]
  /\ verdict \in [Inv -> {"none", "contended", "reentrant", "superseded"}]
  /\ slot \in [Project -> [Processes -> Inv \cup {NoInv}]]
  /\ flock \in [Project -> Inv \cup {NoInv, Prober}]
  /\ owner \in [Project -> Inv \cup {NoInv}]
  /\ marker \in [Project -> Inv \cup {NoInv}]
  /\ dead \subseteq Kills

\* A run has locked every project it asked for; it holds the flock and the slot of each
\* it has locked, and the record there names it, until it removes that record itself: a
\* finished run does not "delete its owner record" (lock.go:44) for whoever came after.
OwnerNamed ==
  \A i \in Inv :
    /\ pc[i] = "running" => held[i] = Wants[i]
    /\ pc[i] \in {"local", "running", "unwinding"} => \A p \in held[i] :
         flock[p] = i /\ InSlot(p, i) /\ owner[p] = i

\* Whether a live invocation waits for p with a request out.
Asking(i, p) ==
  /\ pc[i] \in {"asking", "queuedAsking", "queuedBounded", "tookSlot"}
  /\ At(i, p)

\* "A request nobody is waiting on stops nothing" (lock.go:834).
YieldsToWaiter ==
  [][\A i \in Inv : pc[i] = "running" /\ pc'[i] = "unwinding" =>
       \E p \in held[i], w \in Inv : Asking(w, p) /\ marker[p] = w]_vars

\* Who is refused at a flock finds "a magus process outside this invocation's own
\* run" there (lock.go:375), and never another invocation of its own (lock.go:534).
Refusals ==
  \A i \in Inv : \A p \in Project :
    pc[i] = "flock" /\ At(i, p) /\ verdict[i] = "none" /\ verdict'[i] = "contended" =>
      flock[p] \in Inv /\ Process[flock[p]] # Process[i]

RefusedByStranger == [][Refusals]_vars

\* An invocation is refused as nested beneath one that holds the lock, or that was
\* killed holding it: no other ancestor's record is ever believed (lock.go:352), such as
\* one that has ended, or a sibling's.
RefusedAsNested ==
  [][\A i \in Inv : \A p \in Project :
       At(i, p) /\ verdict[i] = "none" /\ verdict'[i] = "reentrant" =>
         /\ owner[p] \in Ancestors[i]
         /\ flock[p] = owner[p] \/ Process[owner[p]] \in dead]_vars

\* The code is not to "diagnose re-entry against a holder that is not an ancestor" from
\* the record of a corpse (lock.go:357).
ReentryTrue ==
  [][\A i \in Inv : \A p \in Project :
       At(i, p) /\ verdict[i] = "none" /\ verdict'[i] = "reentrant" =>
         flock[p] \in Ancestors[i] \/ slot[p][Process[i]] \in Ancestors[i]]_vars

\* Nobody deletes "a request a gate is still waiting on" (lock.go:876), though
\* another may take its place.
RequestKept ==
  [][\A i \in Inv : \A p \in Project :
       Asking(i, p) /\ Asking(i, p)' /\ marker[p] = i => marker'[p] # NoInv]_vars

\* A gate whose bound expires "queues like any run" (watchdog.go:167).
QueuesPastBound ==
  [][\A i \in Inv : pc[i] = "asking" => verdict'[i] # "contended"]_vars

\* An acquisition ends, in a run or refused: none waits on one that takes the same
\* projects in another order (acquireAll, lock.go:596), nor beneath a run for its own locks.
\* Two runs whose nested runs each want the other's lock do wait forever, as the TODO at
\* lock.go:516 says (LockSurprises.cfg).
Settles ==
  \A i \in Inv : pc[i] = "local" ~> pc[i] \in {"running", "done", "dead"}
=============================================================================
