------------------------------ MODULE SlotPool ------------------------------
(***************************************************************************)
(* The build slots of one process (limiter.go) and the watch that refuses  *)
(* a wait nothing can end (deadlock.go).  A task holds its slots while it  *)
(* runs; it may wait for a cache lock with them, hand them back while its  *)
(* spells take their own, or trade them for a reservation (os.with_slots). *)
(*                                                                         *)
(* Time is left out but for the watch's grace, which outlives the hand-off *)
(* of slots from one task to another: see HandOff.                         *)
(***************************************************************************)
EXTENDS Integers, Sequences, FiniteSets, SequencesExt

CONSTANTS
  Task, NoTask,
  Cap,        \* the limiter's slots
  Weight,     \* how many each task takes
  Parent,     \* the task that fans out to it, NoTask of a root
  Key,        \* the cache lock it runs under, NoKey of none
  NoKey,
  Reserve     \* how many it reserves for a tool's own workers, 0 of none

SlotPoolAssumption ==
  /\ IsFiniteSet(Task) /\ NoTask \notin Task
  /\ Cap \in Nat \ {0}
  /\ Weight \in [Task -> 1..Cap]
  /\ Parent \in [Task -> Task \cup {NoTask}]
  /\ DOMAIN Key = Task
  /\ Reserve \in [Task -> 0..Cap]

VARIABLES
  pc,        \* of each task
  free,      \* the semaphore's free slots
  queue,     \* and those that wait for some, first come first served
  holds,     \* the tasks the watch has on record
  yielded,   \* those of them whose slots are handed back
  mark,      \* what each is said to wait on, NoTask while it runs
  was,       \* the mark each wait found, and restores
  waiters,   \* the waits the watch knows of
  doomed,    \* those it has refused
  owner      \* of each cache lock

watch == <<holds, yielded, mark, was, waiters>>
vars == <<pc, free, queue, watch, doomed, owner>>

Stage == {"idle", "queued", "got", "admitted", "lockwait", "locked", "yielding", "fanned",
          "retaking", "retook", "reserving", "reserved", "refilling", "body", "unlocked", "retired",
          "over", "refused"}
Keys == {Key[t] : t \in Task} \ {NoKey}

Kids(t) == {k \in Task : Parent[k] = t}
To(t, stage) == pc' = [pc EXCEPT ![t] = stage]
Ended(t) == pc[t] \in {"over", "refused"}
Need(t) == IF pc[t] = "reserving" THEN Reserve[t] ELSE Weight[t]

Init ==
  /\ pc = [t \in Task |-> "idle"]
  /\ free = Cap /\ queue = <<>>
  /\ holds = {} /\ yielded = {} /\ waiters = {} /\ doomed = {}
  /\ mark = [t \in Task |-> NoTask]
  /\ was = [t \in Task |-> NoTask]
  /\ owner = [k \in Keys |-> NoTask]

-----------------------------------------------------------------------------
\* Marks.  h says that it waits on t's wait; the wait's end restores what it found.
Block(h, t) ==
  IF h = NoTask THEN UNCHANGED <<mark, was>>
  ELSE mark' = [mark EXCEPT ![h] = t] /\ was' = [was EXCEPT ![t] = mark[h]]

Unblock(h, t) ==
  /\ mark' = [x \in Task |-> IF x = h THEN was[t] ELSE mark[x]]
  /\ UNCHANGED was

SlotsOf(S) == SumFunctionOnSet(Weight, S)

\* Something is queued, every slot is held, and every holder waits.
Wedged ==
  /\ waiters # {}
  /\ \A t \in holds \ yielded : mark[t] # NoTask
  /\ SlotsOf(holds \ yielded) >= Cap

-----------------------------------------------------------------------------
\* A task asks for its slots, a spell once its parent fans out.
Enter(t) ==
  /\ pc[t] = "idle"
  /\ Parent[t] # NoTask => pc[Parent[t]] = "fanned"
  /\ To(t, "queued")
  /\ Block(Parent[t], t)
  /\ waiters' = waiters \cup {t}
  /\ queue' = Append(queue, t)
  /\ UNCHANGED <<free, holds, yielded, doomed, owner>>

\* The semaphore serves the head of its queue when it fits.
Take ==
  /\ queue # <<>>
  /\ LET t == Head(queue)
     IN  /\ free >= Need(t)
         /\ free' = free - Need(t)
         /\ To(t, CASE pc[t] = "queued" -> "got"
                    [] pc[t] = "retaking" -> "retook"
                    [] pc[t] = "reserving" -> "reserved"
                    [] pc[t] = "refilling" -> "body")
  /\ queue' = Tail(queue)
  /\ UNCHANGED <<watch, doomed, owner>>

\* The watch has it on record, and its parent's mark is restored.
Admit(t) ==
  /\ pc[t] = "got"
  /\ To(t, "admitted")
  /\ waiters' = waiters \ {t}
  /\ holds' = holds \cup {t}
  /\ Unblock(Parent[t], t)
  /\ UNCHANGED <<free, queue, yielded, doomed, owner>>

\* A refusal ends the wait it cancels.
Refused(t) ==
  /\ pc[t] = "queued" /\ t \in doomed
  /\ To(t, "refused")
  /\ \E i \in DOMAIN queue : queue[i] = t /\ queue' = RemoveAt(queue, i)
  /\ waiters' = waiters \ {t}
  /\ Unblock(Parent[t], t)
  /\ UNCHANGED <<free, holds, yielded, doomed, owner>>

\* The cache lock of its key, waited for with its slots held.
Lock(t) ==
  /\ pc[t] = "admitted"
  /\ Key[t] # NoKey => owner[Key[t]] = NoTask
  /\ To(t, "locked")
  /\ owner' = [k \in Keys |-> IF k = Key[t] THEN t ELSE owner[k]]
  /\ UNCHANGED <<free, queue, watch, doomed>>

\* Mutant of WaitLock: the hold is not marked.
WaitLockUnmarked(t) ==
  /\ pc[t] = "admitted" /\ Key[t] # NoKey
  /\ owner[Key[t]] # NoTask
  /\ To(t, "lockwait")
  /\ was' = [was EXCEPT ![t] = NoTask]
  /\ UNCHANGED <<free, queue, holds, yielded, mark, waiters, doomed, owner>>

WaitLock(t) ==
  /\ pc[t] = "admitted" /\ Key[t] # NoKey
  /\ owner[Key[t]] # NoTask
  /\ To(t, "lockwait")
  /\ Block(t, t)
  /\ UNCHANGED <<free, queue, holds, yielded, waiters, doomed, owner>>

GetLock(t) ==
  /\ pc[t] = "lockwait"
  /\ owner[Key[t]] = NoTask
  /\ To(t, "locked")
  /\ owner' = [owner EXCEPT ![Key[t]] = t]
  /\ Unblock(t, t)
  /\ UNCHANGED <<free, queue, holds, yielded, waiters, doomed>>

\* It says that it occupies nothing while its spells run,
FanOut(t) ==
  /\ pc[t] = "locked" /\ Kids(t) # {}
  /\ To(t, "yielding")
  /\ yielded' = yielded \cup {t}
  /\ UNCHANGED <<free, queue, holds, mark, was, waiters, doomed, owner>>

\* Mutant of HandBack: a weighted step hands one slot back.
HandBackOne(t) ==
  /\ pc[t] = "yielding"
  /\ To(t, "fanned")
  /\ free' = free + 1
  /\ UNCHANGED <<queue, watch, doomed, owner>>

\* hands its slots back,
HandBack(t) ==
  /\ pc[t] = "yielding"
  /\ To(t, "fanned")
  /\ free' = free + Weight[t]
  /\ UNCHANGED <<queue, watch, doomed, owner>>

\* and takes them again, whatever became of the spells.
Retake(t) ==
  /\ pc[t] = "fanned"
  /\ \A k \in Kids(t) : Ended(k)
  /\ To(t, "retaking")
  /\ waiters' = waiters \cup {t}
  /\ queue' = Append(queue, t)
  /\ UNCHANGED <<free, holds, yielded, mark, was, doomed, owner>>

Resume(t) ==
  /\ pc[t] = "retook"
  /\ To(t, "body")
  /\ waiters' = waiters \ {t}
  /\ yielded' = yielded \ {t}
  /\ UNCHANGED <<free, queue, holds, mark, was, doomed, owner>>

\* It trades its slots for a reservation, unknown to the watch, and back.
Reserves(t) ==
  /\ pc[t] = "locked" /\ Kids(t) = {} /\ Reserve[t] > 0
  /\ To(t, "reserving")
  /\ free' = free + Weight[t]
  /\ queue' = Append(queue, t)
  /\ UNCHANGED <<watch, doomed, owner>>

Refill(t) ==
  /\ pc[t] = "reserved"
  /\ To(t, "refilling")
  /\ free' = free + Reserve[t]
  /\ queue' = Append(queue, t)
  /\ UNCHANGED <<watch, doomed, owner>>

Plain(t) ==
  /\ pc[t] = "locked" /\ Kids(t) = {} /\ Reserve[t] = 0
  /\ To(t, "body")
  /\ UNCHANGED <<free, queue, watch, doomed, owner>>

\* It lets go of its cache lock, then retires its record, then gives its slots back.
Unlock(t) ==
  /\ pc[t] = "body"
  /\ To(t, "unlocked")
  /\ owner' = [k \in Keys |-> IF owner[k] = t THEN NoTask ELSE owner[k]]
  /\ UNCHANGED <<free, queue, watch, doomed>>

Retire(t) ==
  /\ pc[t] = "unlocked"
  /\ To(t, "retired")
  /\ holds' = holds \ {t}
  /\ UNCHANGED <<free, queue, yielded, mark, was, waiters, doomed, owner>>

Leave(t) ==
  /\ pc[t] = "retired"
  /\ To(t, "over")
  /\ free' = free + Weight[t]
  /\ UNCHANGED <<queue, watch, doomed, owner>>

\* What takes less than the grace: slots and locks pass on, an answer is read.
HandOff ==
  \/ queue # <<>> /\ free >= Need(Head(queue))
  \/ \E t \in Task :
       \/ pc[t] \in {"got", "yielding", "retook", "unlocked", "retired"}
       \/ pc[t] = "queued" /\ t \in doomed
       \/ pc[t] = "lockwait" /\ owner[Key[t]] = NoTask
       \/ pc[t] = "fanned" /\ \A k \in Kids(t) : Ended(k)

\* The pool has been wedged for the grace: every wait it knows of is refused.
Verdict ==
  /\ Wedged /\ ~HandOff
  /\ ~(waiters \subseteq doomed)
  /\ doomed' = doomed \cup waiters
  /\ UNCHANGED <<pc, free, queue, watch, owner>>

TaskNext(t) ==
  \/ Enter(t) \/ Admit(t) \/ Refused(t)
  \/ Lock(t) \/ WaitLock(t) \/ GetLock(t)
  \/ FanOut(t) \/ HandBack(t) \/ Retake(t) \/ Resume(t)
  \/ Reserves(t) \/ Refill(t) \/ Plain(t)
  \/ Unlock(t) \/ Retire(t) \/ Leave(t)

Next == Take \/ Verdict \/ \E t \in Task : TaskNext(t)

Spec == Init /\ [][Next]_vars /\ WF_vars(Next)

-----------------------------------------------------------------------------
\* A task the process runs, that will give its slots back by itself.
Runs(t) == pc[t] \in {"admitted", "locked", "body", "unlocked", "reserved"}

\* Every variable keeps its shape; the semaphore never hands out more than it has.
TypeOK ==
  /\ pc \in [Task -> Stage]
  /\ free \in 0..Cap
  /\ holds \subseteq Task /\ yielded \subseteq holds /\ waiters \subseteq Task
  /\ doomed \subseteq Task
  /\ mark \in [Task -> Task \cup {NoTask}] /\ was \in [Task -> Task \cup {NoTask}]
  /\ owner \in [Keys -> Task \cup {NoTask}]

\* "every one of those holders is itself waiting" (deadlock.go:251): no wait is
\* refused while a task that holds slots runs.
VerdictIsTrue ==
  [][doomed' # doomed => \A t \in holds \ yielded : ~Runs(t)]_vars

\* "an impossible wait becomes an error instead of a hang" (deadlock.go:65): a task
\* that queues for its slots is served or refused.  It holds of steps of
\* one slot and without reservations: the watch adds up no slot that is free or reserved.
QueuedAnswered == \A t \in Task : pc[t] = "queued" ~> pc[t] # "queued"

\* Steps that fan out, hold cache locks and reserve slots all end, none refused, when
\* no lock is held across a fan-out: what they hand back is enough.
AllRun == <>(\A t \in Task : pc[t] = "over")

\* "what ends it is the refusal ending every other waiter, whose steps then unwind
\* and release" (limiter.go:153): a step taking back its slots gets them.
RetakesEnd == \A t \in Task : pc[t] = "retaking" ~> pc[t] # "retaking"
=============================================================================
