# A verification of magus

magus runs the targets of a workspace. Many magus processes share a host: one per
worktree, per agent, per nested `magus run` that a target's own command starts. This
directory models, checks and proves the parts of magus in which several actors meet:
which steps may run and when, who owns what while they do, and what the merge queue may
put on the base.

## The system

| Part | State it keeps | Operations | What is hard in it | What makes it correct |
|---|---|---|---|---|
| Machine admission budget (`internal/cache/machine.go`) | the table of granted claims | Request, Assert, Release, Overrun, Snapshot | nested runs hold what their children need; claims that come on top of the budget | nested steps never wedge; what is let past the budget is bounded; what was admitted because it fits still fits |
| Broker queue and gates (`broker/budget.go`, `gate.go`) | the parked requests, in order, with how often each was overtaken | park, judge, wake, cancel, drop, refuse | room freed by another mutex than the queue's; one request judged as if another held its seat | no wake is lost; nobody is overtaken without bound; a head or a gate keeps its room |
| Broker server (`broker/server.go`) | sessions, `draining`, `closing`, the release token | accept, handle, dispatch, forget, drain, close | a goroutine per frame; hang-ups and a drain at any point | table, sessions and queue agree; a drain seats nothing and ends |
| Validation seats and held commands (`broker/owner.go`) | the runs seated per job tree; process groups under a deadline | seat, unseat, hold, release, expire, reap | counted by run, held by connection; process ids are reused | a tree validates at most so many runs; no other group is signalled |
| Broker client (`broker/client.go`, `conn.go`) | the claims it holds and their id on the current broker | claim, release, overrun, redial, re-assert, close | a release, a grant or a close that races a reconnection | a step that runs is known to the broker, one that ended is not |
| Machine gate of a run (`internal/cache/machine_gate.go`) | the claim a step holds, and how many waits it is lent to | seat, lend, take again, wait to a bound | lent and taken again unlocked, by several waits | held while the step runs and never while it waits |
| Broker election (`broker/listen.go`, `units.go`) | the socket and its handshake file | bind, probe, remove, publish, exit | two processes that find a dead one's socket | one broker per socket |
| Shared services (`internal/service/registry.go`) | reference counts, idle timers, a start under way, a journal | acquire, release, reap, shutdown | reap against acquire; a failed start with waiters | one instance per key, stopped once, when nobody uses it |
| Project locks (`lock.go`, `watchdog.go`) | slots, file locks, owner records, requests to yield | acquire, contend, supersede, yield, release | a later gate supersedes an earlier one; files outlive their writers | mutual exclusion; no stale request stops a holder; no two acquisitions wait for each other |
| Slot limiter and deadlock watch (`internal/cache/limiter.go`, `deadlock.go`) | slots, holds, marks, waiters | admit, hand back, take again, reserve, judge | a wedge told from a full pool by marks set under other locks | a wedge is always found and never a false one |
| Keyed cache locks, runs in flight (`internal/cache/lock.go`, `inflight.go`) | a lock per key | lock, wait, unlock | waiters that hold slots | one run per key |
| Merge queue (`internal/queue`) | candidates, gates, verdicts, statuses | plan, validate, apply | partial failure, many runs and jobs, races with the provider | nothing merges that was not validated together, nobody is blamed for another's change |
| Job store (`internal/job`) | jobs, leases, landings | claim, land | several agents on one store | a job has one owner |
| Cache store, order, graph, guard, interpreter, console | files, hashes, syntax trees | | mostly sequential or pure | |

The parts meet like this. A run locks its projects, then its steps take slots of their
process's pool and ask the process's machine gate for a claim; the client sends it to the
broker over a connection that lives as long as the process; the broker seats it, parks
it, or turns it away, and asks the budget for each verdict. The connection's end gives
back whatever it held. A step whose command is another magus is blocked in exec until
that magus ends, and the child asks the same broker. Services are shared through the same
connections. The merge queue is magus run by a forge's jobs: validation records verdicts,
and an applier reads them as they come.

`PROJECT.json` lists every part, the hazards of the code at their lines, and which
property would catch each.

## Modules

| Module | Models |
|---|---|
| `MachineBudget` | the verdict: pure operators over the set of requests whose claims are held |
| `Admission` | the promise: requests ask, wait, are seated when the budget admits them, and leave |
| `Broker` | one broker process, from its first connection to the return of `Serve`; refines `Admission` |
| `BrokerClient` | one process's client across brokers that die |
| `BrokerElection` | the processes that start as brokers, their socket and handshake, and the clients that dial |
| `MachineHold` | the claim of one running step, lent by its waits |
| `SlotPool` | the slots of one process and the watch that refuses a wait nothing can end |
| `Services` | the registry of shared services, one key of it |
| `ProjectLock` | the locks of a workspace's projects, their owner records and requests to yield |
| `QueueValidate` | the merge queue's validation of one plan |
| `QueueApply` | the applier, on top of a validation under way, beside everybody who pushes |
| `AdmissionMC`, `BrokerMC`, `BrokerClientMC`, `StepMC`, `SlotPoolMC`, `ServicesMC`, `ProjectLockMC`, `QueueMC`, `ApplyMC` | the scenes TLC checks |
| `BudgetProofs` | lemmas about the budget's sums, for every set of claims, and about a sequence without one of its elements |
| `AdmissionProofs`, `BrokerProofs`, `BrokerClientProofs`, `ServicesProofs`, `StepProofs`, `ProjectLockProofs`, `QueueProofs` | theorems for every value of the constants |

A run holds several scenes in one of three ways. `Services`, `ProjectLock` and
`QueueValidate` have a constant set of them (`World`, `Plans`, `Worlds`) and a variable
that is chosen from it at the start and never changes. `BrokerClientMC`, `StepMC` and
`QueueMC` have a variable `scene`, and a named instance of a module for each value of it;
what is not of the scene stays where it begins. Such variables are left out of the
fairness subscripts.

### MachineBudget

A *request* stands for one claim a process asks for, so the budget's table is a set of
requests. `Admits` is `Request`'s verdict: the claim fits alone, and it either fits beside
what is held less the claims of the invocations it runs underneath (`Excused`), or one of
those has a free seat to give (`FreeSeats`, `freeSlot`). Memory is one more axis beside
the slots, because every claim here is flat: the curves of `MemoryProfile` are left out.

### Admission

The abstract specification. `Seat` may try a request as if one other waiting request held
its seat already, which is all a queue can do to a verdict; which request is tried, and
behind which, is open. `charged` is a history variable: the ancestors whose free seat a
request was given.

### Broker

Handlers run in a goroutine per frame, ordered by two mutexes. A step that takes `s.mu` is
one action guarded by `MuFree`. Two hold it over several calls to the budget: a wake
(`BeginWake`, `JudgeNext`, `EndWake`) and a hang-up (`Forget`, `DropParked`, `EndForget`);
`mu` names their connection in between. Freeing a claim (`Free`, `FreeClosed`) takes the
budget's mutex alone, so it happens in the middle of a wake too. What follows a critical
section is a debt: `owed[c]` counts the wakes the goroutines of connection `c` have still
to run, and a connection is forgotten, and `Serve` returns, only when it owes none.

| In the code | In the model |
|---|---|
| `s.queue`, `p.overtaken`, `p.gate` | `queue`, `overtaken`, `gate` |
| `sess.claims`, `sess.holds` | the requests of `Of(c)` whose `st` is `granted` |
| a claim deleted from its session and still in the table | `st` is `unlinked` |
| `s.conns`, and what a connection's goroutine is at | `conn`: absent, open, eof, leaving (in `forget`, under `s.mu`), left (freeing), gone |
| `sess.seat` with `s.seats` | `seat`; `s.seats` is its count by run |
| `sess.gateRun` | `gateRun` |
| the budget's table | `budget` |
| `s.released` | `poked` |
| where `Serve` is | `loop`, with `draining` and `closing` |

Requests are of four kinds: a parked `Claim`, an unparked `Request`, a `Reassert`, and the
`Hold` of `job exec --timeout`. `Send`, `SendCancel`, `HangUp`, `Release` are what clients
do. `behind` is a history variable: the requests seated past room the head of the queue
keeps; it is reset when the head changes.

`Parent` says which step's command is the asking magus, so `Release` waits for whatever
that step started: this is how "blocked in exec" enters. The deadline of a hold ends its
command whatever runs underneath, so a hold may always end.

### BrokerClient

Every claim fits here: what a broker seats is `Broker`'s. The broker is reduced to `seat`
(the id it holds each step's claim under on the open connection), `seq` (its count of ids,
which starts over with each broker) and `charged` (the claims it knows to have overrun).
`cur`, `held`, `remote`, `over`, `redialing` and `closed` are the `Client`'s fields of
those names (`over` is `heldClaim.overrun`); `op` is a call of `connect` under way, with
the snapshot it re-asserts and what it must hand back or tell once it is published. A
connection's closing (`alive`) and its callback (`Lost`) are two steps.

A connection may die at any point of its opening, also between its publication and its
opener's return. `redialing` is the field of that name and where the redial is: it `looks`
at each tick, and is `over` from its last look until its deferred clear. Two windows of
the code are named by the constant `Windows`, so that a property is checked with and
without them: `lag` (a dead connection's callback runs after the next was dialed) and
`record` (a grant is recorded after its connection died).

### BrokerElection

`Bind`, `Listen`, `Probe`, `Remove`, `Rebind` are the steps of `broker.Listen`, each a
system call: between `bind(2)` and `listen(2)` the socket is there and refuses dials, and
a probe, which has 100 ms, may miss a live broker. `Serve`, `CloseListener` and `Exit`
write the handshake, free the name and remove the file. `path` is whose socket the name
leads to, `file` whose handshake lies beside it; a dead broker's may lie there at the
start. A client reads the file when it was greeted. `Overlap` lets a process start while
another is still starting, `MayGo` lets one die anywhere or exit.

### MachineHold

`LendMachineClaim` around a wait: `Begin` reads whether the step has a claim to lend,
`Lend` counts the wait and hands the claim back with the first, `Return` counts it out and
starts the retake with the last. The retake asks with no lock held, so `Seat` is followed
by `Keep`, which hands the new claim straight back if another wait has begun or was faster.

### SlotPool

A task takes its `Weight` of `Cap` slots, first come first served (`queue`, `Take`), waits
for a cache lock with them (`WaitLock`), hands them back for a fan-out and takes them again
(`FanOut`, `HandBack`, `Retake`, `Resume`), or trades them for a reservation (`Reserves`, `Refill`:
`os.with_slots`). It ends by giving up its lock, its record and its slots (`Unlock`,
`Retire`, `Leave`). The watch's record is `holds`, `yielded` and `mark`; `was` is the mark a
wait found and will restore. `Verdict` is the watch's judgement after its grace. Time is
left out but for one assumption: the grace outlives the hand-off of a slot, a lock or an
answer from one goroutine to the next (`HandOff`).

### Services

One key of the registry. An entry of the table is named by the dependent whose `Acquire`
made it. The mutex covers the table alone; `Start`, `Stop` and the journal run outside it,
so a teardown is three steps (`Retire`, `Forget`, `Stop`), an idle timer fires (`Lapse`)
before its reap runs (`Reap`), and a start in flight may be torn down. A start service is
one instance of the machine, known by its readiness probe alone; a command service is a
process of its own.

### ProjectLock

An invocation takes its projects in order. For each it takes its process's slot, then the
flock, then writes the owner record. Contention is decided from the record beside the
lock: fail as nested (`Reentrant`), ask the holder to yield and wait (`Supersedes`), wait
for a sibling of the run, or refuse. A release is three steps (`RemoveOwner`, `Unlock`,
`Give`), in reverse order. `Kill` frees what the kernel frees and leaves the files;
`Status` is `magus status`, which probes a lock by taking it. A nested run begins only
while the runs it is nested in run.

Two siblings that each run a nested magus on a project the other has locked wait for each
other for good: a TODO in `contend` says so (`lock.go:516`), and `LockSurprises` shows it.
The plans of `Locks` hold no such pair.

### QueueValidate

A candidate is the set of changes it merges onto the base (`onto`) with one on top. A
partition launches up to `Depth` of them, each on the nearest in flight, reads them from
the lowest up (`Read`, `Green`, `Refuse`, `Judge`), and grounds whatever was built on one
that failed. A red is the machine's, the base's or the change's own (`Blame`), decided by
gating once more what the candidate was built on, once for everyone who asks (`gated`,
`BaseStart`, `BaseEnds`). With `Apart`, each change is validated by a job of its own,
which builds the chain beneath it and does not gate it (`Job`, `Behind`). What a gate says
is a *world*'s: which sets of changes make which unit red, which conflict, which cannot be
built. `NextRun` is another run over the same verdict directory, with heads pushed to, or
pushed back to one they had. A verdict (`Decide`) and the count of its fault waits (`Note`)
are two writes, and any call of a partition may fail (`Stop`), so a run may end between
the two; `faulted` is a history variable, the fault waits recorded at each head.

### QueueApply

The write step reads verdicts as validation records them (`Poll`) and settles each
partition from the front. A green change is handed over one at a time: `TakeTip`, `Check`,
`StillQueued`, `BaseStill`, `PostGreen`, `MergeChange`, `Merged` are the calls to the
provider in the order the code makes them, and anybody may act between any two: push to
the base or to a head, withdraw an intent, or merge a green change (`AutoMerge`). The
answer of `MergeChange` may be lost. A kick is two such calls (`PostFailure`, `KickBack`),
and what no verdict came for is set to wait one change at a time (`WaitRest`). `Dies` ends a run anywhere and `Restart` applies the
plan again, revoking first what it finds green.

## What is checked

Ten passing runs, each on one question. The mutants in `PROJECT.json` break each property
in its run the way a plausible bug would.

| Run | Module, scenes | Shows |
|---|---|---|
| `admission` | `AdmissionMC`: ten requests nested up to two deep, four slots, six units of memory | `RegularLeavesFit`: the steps admitted because they fit, with nothing seated beneath them, fit the budget together. `OneFreeSeatPerAncestor`. `NeverWedged`: when everything seated is blocked on a descendant, some waiting request is admitted or refused for good |
| `queue` | `BrokerMC`: two slots; a gate, the runs beneath it and feature checks of several weights on four connections, one of which hangs up; a cancel | `NoLostWake`: at rest, no parked request is one the broker would answer if it looked. `OvertakenBounded`: three places count an overtaking and never pass the bound. `HeadKeepsRoom`: what was seated behind a starved head fits beside it, all of it together. `GatesLead`. `ImplementsAdmission`: queue, gates, seats and hang-ups only choose when a request is seated |
| `seats` | `BrokerMC`: one validation at a time in a tree; a nested magus, a second run, one from the last broker | `ValidationsCapped` |
| `drain` | `BrokerMC`: claims of every kind, a drain or a stop at any point, under `FairSpec` | `Accounted`: table, sessions and queue agree. `StrandsNobody`, `DrainSeatsNothing`, `ParkedAnswered`, `DrainEnds` |
| `services` | `ServicesMC`: three dependents; a command kept warm, one that is not, a start service of ours and one of somebody else's; a StopAll | `StoppedOnce`, `NoneOrphaned`, `StopsNothingInUse`; every acquire is `Answered`, every instance `EndsStopped` |
| `locks` | `ProjectLockMC`: four invocations. Three gates and a background refresh with a kill, a stall and a status; three in one server on overlapping projects; a run, its nested runs and a stranger, and the same with a run killed from under another | `OwnerNamed`: a run has its locks, and the records name it, until it removes them. `YieldsToWaiter`: only a live waiter stops a run. `RefusedAsNested`: of what records say, only an ancestor's is believed, and only of a lock it has, or was killed with. `Settles`: acquisitions in opposite orders, or beneath a run, end |
| `client` | `BrokerClientMC`: two steps, two deaths of the broker at any point, a close; three processes that race for the socket, where there is none and where a dead broker's is, with deaths, exits and missed probes | `RedialedOrStranded`: a running step gets its seat back, and its overrun, unless its client is stranded, and only the end of a redial whose connection is dead by then strands it. `SeatsComeBack`: an ended step leaves no seat. `KeepsSeat`: no other step takes it. `RaceIsWon`: however the race went, the socket leads to one that serves |
| `step` | `StepMC`: three waits of one step, the last refused; six tasks with nested fan-outs, a shared cache lock, a weight and a reservation; five tasks that wedge a pool, two of them spells of one step, side by side | `LentIsHandedBack`, `SeatsAccounted`, `RunsClaimed`; `AllRun`; `QueuedAnswered`, of steps of one slot that reserve none |
| `validate` | `QueueMC`: three changes in a partition, one stacked on another; in pipelines in 636 worlds, and in fewer in jobs and in three runs on machines that fail | `KickIsOwn`: who is kicked back is on validated changes only, and is to blame, or its machines failed it as often as they may. `StackKept`. `FaultWaitsBacked`: what the file charges a head with, runs did wait there, through heads pushed back to and runs that end before they count. `AllDecided` |
| `apply` | `ApplyMC`: the same plan in five worlds, one push, one event, a lost answer, two runs of the applier | `MainStaysGreen`; `MergedAsGated`, of pipelines; `OneGreen`, `GreenSettles` |

Deadlock is checked in `drain`, where every behaviour ends in `Exited` or can go on. In
the other runs everything has been asked and answered in the end; the liveness properties
say there what deadlock freedom would.

### Bounds

* Requests, dependents, invocations, steps and tasks act once, so behaviours are finite; a
  process that asks again is another request of the same connection. In `Services` an
  acquire after a release is another dependent's.
* `MaxOvertakes` is 1 where the code has 4. Nothing in the code compares `overtaken` with
  anything else, and with 1 a scene of five requests already starves a head and offers
  its room to two others. `MaxValidations` is 1; two runs compete for the seat and a third
  is forced. `Quits` and `Cancels` bound who may hang up or give up, at any point.
* `MaxDeaths` is 2: a broker may die again while its successor is being told.
* `kills` and `stalls` of a plan bound which processes of `ProjectLock` may die or stall,
  at any point; `stopped` bounds StopAll to one.
* `MaxFaultWaits` is 2 where the code has 3, `MaxRuns` is 3 and `MaxHead` 1: a streak
  reaches the bound and is broken, and a head is left and pushed back to. `Depth` is 3 and `Parallel` 2, so a window is wider than the pool. `Apart`
  is never combined with `MayFault`: a job's memo of the base's gate is its own process's,
  where the model's is shared.
* `MaxForeign`, `MaxEvents` are 1 and `MaxApplies` 2: one push, one head moved or intent
  withdrawn, one death of the applier, each anywhere. `MayHold` stands for everything else
  a check may find (approval, method, required checks).

### Fairness

Liveness is stated under weak fairness of what goes on whether or not a client does
anything more: goroutines run, a mutex is taken in the end, a kernel delivers an end of
file, a poll is made, a step ends once nothing it started still runs. The last is an
assumption on what targets do, which magus itself makes.

* `Broker`: one weak fairness over `System`. Behaviours are finite, so it is as strong as
  fairness of each action. The same holds of `Progress` (`BrokerClient`: the client's
  goroutines, and a broker that is started again), `Next` (`SlotPool`) and `Advances`
  (`QueueValidate`: an error ends a job fairly only when the gate on the base returned it).
* `Services`: for each dependent and entry, its start, its answer, its release, its timers
  and teardowns.
* `ProjectLock`: for each invocation, its acquisition, its end and its release.
* `QueueApply`: `Advances` and `Applies`, with which a run that died is followed by
  another.

Clients asking, giving up, hanging up, closing; kills, stalls and statuses; a drain being
asked for; pushes, withdrawals and the provider's own merges are not fair.

## Disagreements between the code and its documentation

Two runs state what a document or a comment says and find it violated.

* `seat_wait`: a gate parked for its tree's validation seat keeps room from everyone, also
  from the run that holds the seat, which then waits on the gate. Nothing is held, and both
  wait until a wait's bound ends it (`gate.go:47`, `budget.go:258`).
* `ids`: a client keys its claims by the id the granting broker gave, and a new broker
  counts from 1: a step's release then frees another's seat (`client.go:243`, `:249`).

The other disagreements have a configuration of their own. Run each as
`tlc -config <configuration>.cfg <module>` (with `-continue` where it names several
properties); TLC reports the properties of the third column violated.

| Configuration | Module | Violated | The code | What it says of itself |
|---|---|---|---|---|
| `BrokerPassed` | `BrokerMC` | `NothingPassesStarved` | `broker/gate.go:61` judges an unparked claim as if it were the head, so it may take the room of a head that was overtaken its fill | "once the head of the queue has been passed four times nothing behind it takes its room" (`docs/concepts/concurrency.md:351`) |
| `BrokerGateLate` | `BrokerMC` | `GatesGoFirst` | `broker/budget.go:93` judges a gate behind a starved head that is no gate, then queues it ahead of that head; nothing looks at it again, and it waits, in free room that everyone now keeps for it, until something else is released | "A gate goes first" (`docs/concepts/concurrency.md:338`); it is what is "behind the head" that keeps its room (`broker/budget.go:15`) |
| `BrokerRestart` | `BrokerMC` | `GateRunsLead` | `broker/server.go:513` re-asserts without `markGateLocked`: after a restart the runs beneath a gate queue behind strangers | "Its claims, and those of every magus it runs, queue ahead of other runs'" (`broker/wire.go:80`) |
| `ServicesAdopt` | `ServicesMC` | `HeldRuns` | `service/runner.go:159` adopts an instance that a teardown is about to stop | "the Registry shares it with dependents but never stops it" (`runner.go:29`) |
| `ServicesStale` | `ServicesMC` | `ReapedUnheld` | `service/registry.go:215`: after a StopAll, a release of the old instance takes a reference of the new one | "Releasing an unknown or already-zero key is a no-op" (`registry.go:137`) |
| `ServicesWarm` | `ServicesMC` | `HeldJournaled`, `ForgottenStopped`, `WarmForWindow` | `registry.go:173` forgets by key, unlocked, before the stop; `:105` ignores a timer that had fired | the record lets "a NEW broker ... reap orphans" (`journal.go:23`), is dropped "once the service has been stopped cleanly" (`:80`); an instance stays "warm for an idle window" (`registry.go:6`) |
| `LockSurprises` | `ProjectLockMC` | `QueuesPastBound` | `lock.go:903` refuses when the bound of a superseding wait expires | "past the bound it queues like any run" (`watchdog.go:167`) |
| | | `RequestKept` | `lock.go:869` retracts whatever request the one file holds | not to "delete a request a gate is still waiting on" (`lock.go:876`) |
| | | `RefusedByStranger` | `lock.go:1069`: a status probes the flock by taking it | "returned when a magus process outside this invocation's own run holds the project's lock" (`lock.go:375`) |
| | | `Settles` | `lock.go:515`: a run that waits for a sibling does not see that the sibling waits for it, through runs nested in both | "A sibling finishes without anything from this invocation, so this wait ends" (`lock.go:515`; the TODO at `:516` knows of it) |
| | | `ReentryTrue` | `lock.go:360` probes a killed ancestor's lock through the slot it has itself taken | "confirm the lock is still held" (`lock.go:358`) |
| `BrokerClientLag` | `BrokerClient` | `RemoteTrue`, `KnownFirst` | `broker/client.go:690`: a late callback clears ids just learnt; `:243` records a grant of a dead broker | "remote is empty while no broker does" (`:111`); "a new broker learns about running steps before it seats anything else" (`:424`) |
| `BrokerClientRedial` | `BrokerClient` | `Reasserted` | `client.go:697`: a connection that dies before `redial` has cleared `redialing` starts no redial | "a Client holding claims redials on its own" (`:80`) |
| `ElectionRace` | `BrokerElection` | `BindIsTheLock` | `broker/listen.go:78`: two that found a dead socket each remove it, and the second removes the first's; so does one whose probe came between another's bind and its listen, or was late | "The bind is the only lock a broker takes" (`:60`) |
| `ElectionExit` | `BrokerElection` | `HandshakeHolds` | `broker/server.go:116` removes the handshake by name after the socket's name is free | "the broker's handshake file exists and holds the value this connection's hello must carry" (`conn.go:44`) |
| `MachineHoldRides` | `MachineHold` | `RidesAClaim` | `cache/machine_gate.go:235`: a wait that begins while another has the claim lent rides none | "a claim on the machine budget is held" (`admission.go:23`) |
| `SlotPoolMarks` | `SlotPoolMC` | `VerdictIsTrue` | `cache/deadlock.go:190` restores the mark it found, side by side: a step stays marked, and a task is refused while it runs | "every one of those holders is itself waiting" (`:251`) |
| `SlotPoolRetake` | `SlotPoolMC` | `RetakesEnd` | `cache/limiter.go:162`: a retake cannot be refused, and the lock's waiter is no slot waiter | "the refusal ending every other waiter, whose steps then unwind and release" (`:153`) |
| `SlotPoolReserve` | `SlotPoolMC` | `QueuedAnswered` | `std/os.go:628` queues with a bare `AcquireN`: its hold counts as running. With `Weight <- Heavy` and `Reserve <- Plainly` it fails too: a step of two slots at the head of the queue leaves one free, and the sum of `deadlock.go:271` short | "an impossible wait becomes an error instead of a hang" (`deadlock.go:65`) |
| `QueueHeads` | `QueueMC` | `NewHeadStartsAgain` | `queue/verdicts.go:261` returns early at a new head that has no count, so the old head's line stays, and is read again when that head is pushed back to | "A new head starts the count again" (`:243`) |
| `ApplyJobs` | `ApplyMC` | `MergedAsGated` | `queue/validate.go:356`: a job skips a change ahead whose build failed in that job alone, and both merge | "main plus every change ahead of it in its partition" (`docs/concepts/merge-queue.md:23`) |
| `ApplyLost` | `ApplyMC` | `StopsOnSurprise` | `queue/apply.go:1043` takes a lost answer for a refusal and never compares the base | "the check after the merge detects" it, "stopping applying" (`apply.go:34`) |

`BrokerClientRedial` checks the client's remaining properties too, `TypeOK`, `RemoteTrue`
and `KnownFirst`, and finds them true. With `lag` in `Windows` `SeatsComeBack` fails as
well, and with `record` `KeepsSeat` and `RedialedOrStranded`: a grant recorded on a dead
connection is one nobody redials for.

## What is proved

TLAPS checks the theorems of eight modules, for every value of the constants the modules'
assumptions allow: every set of requests, connections and invocations, every nesting of
claims, every budget; every set of dependents, waits and processes; every plan, stack,
world, depth and number of slots. A theorem that asks more of the constants says so in its
ASSUME; those hypotheses are listed at the end.

### The budget and its queue

* The verdict compares sums over sets of claims. `BudgetProofs` shows what the fold that
  computes them does (`SumEmpty`, `SumWithout`, `SumMonotone`). The library's induction
  theorems take an operator, which the installed provers cannot instantiate, so the
  induction is by a smallest counterexample (`SmallestSet`, from the library's
  well-foundedness of the naturals). From the sums follow `FewerFit` and `FitsWithOthers`:
  a claim seated because it fits, fits with whatever it does not run underneath.
* `AdmissionTypeCorrect`. `OneFreeSeat`: `OneFreeSeatPerAncestor`, with the addition that
  whoever was charged runs underneath the ancestor it was charged to and was seated by a
  verdict (`ChargedToAncestors`): a claim seated under an ancestor is what takes the
  ancestor's seat from the next.
* `RegularLeavesFitAlways`: `RegularLeavesFit`. It speaks of the leaves alone, which is not
  inductive: a step may end, and its parent be a leaf again. `FitInv` says it of every set
  of regular claims of which none runs underneath another.
* `NeverWedgedAlways`: `NeverWedged`, a fact of each state. Of the claims seated, the one
  with the longest chain is blocked on a child that waits, and nothing seated has taken the
  free seat it has for that child.
* `TypeCorrect`. `AccountedCorrect`: `Accounted`, in two books: the table against the
  requests that hold a claim, and the queue against those parked. It rests on what an
  insertion and a removal do to the queue's elements (`EnqueueElements`,
  `DequeueElements`).
* `OvertakenCorrect`: `OvertakenBounded`, inductive with the types alone. An insertion
  passes only what does not hold its place (`PlaceProperties`), and a grant that nothing
  was judged ahead of passes a head that is not starved (`BumpHeadBounded`).
* `GatesLeadCorrect`: `GatesLead`. The invariant adds that only queued requests are marked
  as gates (`MarksQueued`): a mark left behind would put a later request among them.
* `HeadKeepsRoomAlways`: `HeadKeepsRoom`, all those seated behind the head at once. A claim
  seated behind it was judged with the head's seat taken. As with the leaves, the invariant
  is of every set of those of which none runs underneath another (`RoomKept`), and
  `FitsWithOthers` adds the next.
* `Refinement`: `Spec => ImplementsAdmission`, step by step. It needs `Accounted`, since
  `Admission` judges against what is seated and the code against its table; that nothing
  but a parked `Claim` is in the queue (`OnlyParkedWaitAlways`); and that what a grant is
  judged behind is nobody or one other parked request (`AheadIsParked`).
* `ValidationsCappedAlways`: `ValidationsCapped`. The invariant relates a connection's seat
  to the run its steps are of: whoever holds a claim in a capped tree has its run seated,
  and the runs seated by asking are within the cap.
* `NoLostRoomAlways`: a broker at rest (`Settled`: nobody holds `s.mu`, no goroutine owes a
  wake, nothing granted is half released) has no room that a parked request fits in and
  may sit in. The inductive `WakeInv` says of every moment that a wake is due (`WakeDue`:
  a debt, a claim still to be freed, a hang-up under way), or a gate stands before a
  starved head, or everyone in the queue but those the wake under way has yet to try has
  been judged against what is held now and kept ahead of it (`Judged`). Each step of the
  code either leaves a debt, or only takes room: what had no room then has none now
  (`StillNoRoom`, from the monotony of the sums).
* `NoLostWakeAlways`: the same of the whole verdict, the free seat of an ancestor included,
  and of who would be turned away. A grant may now give room: to those beneath it. So it
  asks `AncestorsFirst` of the behaviour. `NoLostWakeUngated` is `NoLostWake` as `queue`
  checks it, where no run is a gate. `NoLostWakeOneLevel` asks nothing of the behaviour:
  where nesting is one level deep, who is blocked in exec holds its claim until its
  connection is forgotten, and then nothing of its invocation waits (`Blocked`, `Beneath`).
* `StrandsNobodyAlways`, `DrainSeatsNothingAlways`: from `EndInv`, which follows a drain and
  a close through their steps against `park`, the wakes and the hang-ups: what each stage
  has emptied stays empty, and a connection is gone only when it owes nothing.

### The parts around the broker

* `RaceIsWonAlways`: `RaceIsWon`, of any processes and dialers. While none is killed or
  gone, whoever removed a socket is yet to bind one, a stale socket has made nobody lose,
  and any other socket leads to the process that bound it last (`ElectionInv`), whatever a
  probe missed and whoever removed whose.
* `KeepsSeatAlways`, `KnownFirstAlways`, `RemoteTrueAlways`: by `ClientInv`, of any number
  of steps and of brokers' deaths, at any point of the opening of a connection included. It
  follows a claim through a reconnection: the client holds exactly the steps that run
  (`Holding`); of the snapshot an opener re-asserts, each step is still to do or has its
  seat under the id the client knows (`Reasserts`); what it hands back is the seat of a
  step that is done (`HandsBack`), so no release or hand-back takes a running step's seat;
  once the connection is published, every running step has its seat there (`Knows`).
* `LentIsHandedBackAlways`, `SeatsAccountedAlways`: `HoldInv` adds that a claim the hold has
  was kept by a wait that came back (`Kept`), so the one a retake is given is another.
  `RunsClaimedAlways`: `ClaimInv` counts in `lent` the waits that are waiting; a hold
  without its claim has a wait that will take it back, or a retake that was refused.
  `HoldTypeCorrect` follows from it: the count never falls below zero.
* `SlotsKeptAlways`, `PoolTypeCorrect`: by `PoolInv`, of every pool, weights, tree of tasks
  and reservations. Free slots, those of the tasks that hold some, and those reserved add
  up to the capacity; the watch's records follow the tasks; a spell runs only underneath a
  task that has handed its slots back. The semaphore's queue holds each task once.
* `WedgeIsSeenAlways`: a pool whose slots are all held by tasks that wait for locks, none
  of them reserved, reads as wedged. A wait for a lock marks its own hold (`LockMarked`),
  and no spell of the task restores another mark meanwhile, since its spells have ended by
  then (`SpellsInside`); the account of the slots does the rest. The converse is false
  (`SlotPoolMarks`).
* `ServicesTypeCorrect`. `StoppedOnceCorrect`, `NoneOrphanedCorrect`: `ServicesInv` counts
  for each entry the stages it can be in (in the table, to be forgotten, to be stopped,
  stopped) and says they are at most one, and one while its instance starts or runs
  (`OneStage`). A StopAll moves an entry from the first to the second, so no reap and no
  late timer can move it again.
* `StopsNothingInUseAlways`: `StopsNothingInUse`. `UseInv` adds that an entry's count is at
  least the number of dependents that were handed it (`UsesCounted`), so a reap that finds
  a count of zero finds nobody, however late its timer.
* `LockTypeCorrect`, `LockInvAlways`: slot, flock and record follow the stage of one
  invocation. `Has` says which of the three it has of the lock it is at, from the stage;
  the files tell the truth about the living (`RecordTrue`, `RequestTrue`), a dead one's
  may say anything. From it `OwnerNamedAlways`, and the steps that `YieldsToWaiter`
  (`YieldsToWaiterAlways`) and `RefusedAsNested` (`RefusedAsNestedAlways`) speak of. `Locks` and
  `LockSurprises` check `LockInv` too when it is added to them.

### The merge queue

* `GatedOnAllAheadAlways`, `StackKeptAlways`: from `QueueInv`. A flight is built on exactly
  the validated changes and the flights below it (`BuiltOnAhead`), flights and decisions
  are in order (`Ordered`), and a gate says what the world does (`GatesTrue`); a failed
  change grounds all that break this. `VTypeOKAlways`.
* `FaultWaitsBackedAlways`: no line of the file counts more than was recorded at its head,
  less what is still to be counted.
* `KickIsOwnAlways`: `KickIsOwn`, from both: only a refusal and a judgement kick (`Kicks`),
  and what is read in order was built on what is validated (`LowestOnGreen`).
* `MergedAsGatedAlways`, `MainStaysGreenAlways`: by `ApplyInv`. A change the applier has in
  hand is green and all that it was gated on is merged (`HandsReady`), which stays true
  whatever others do, since what is merged stays so. `ATypeOKAlways`.
* `OneGreenAlways`: `SuccessInv` follows the applier's stages: no success stands while it
  checks a change, only the change's own while its merge is asked for, and what a dead run
  left is set back before the next starts. It needs no `~Apart`.

### Hypotheses

| Theorem | Assumes | Why, and without it |
|---|---|---|
| `NeverWedgedAlways` | `Chained`: what an invocation's parent runs underneath, it runs underneath, in that order | `AppendInvocationAncestor` (`types/ancestry.go:78`) builds every chain; `AdmissionMC` assumes it, so TLC checks it of the scene |
| `ValidationsCappedAlways` | `OneRunPerProcess`: the claims of one capped process, holds aside, are of one run | a connection has one seat, taken for the run that asked first (`seatLocked`, `owner.go:476`): a second run of that process would not be counted. `BrokerMC` assumes it, so TLC checks it of every scene |
| `NoLostRoomAlways` and the three `NoLostWake` theorems | `OneRunPerProcess`, as above | who may take a validation seat is read off the connection's run |
| `NoLostWakeAlways`, `NoLostWakeUngated` | `[]AncestorsFirst`: the invocations a parked request runs underneath hold their claims, or nothing of them waits to | a step is blocked in exec, its claim granted, while its child asks (`freeSlot`, `internal/cache/machine.go:354`); TLC finds it true in each of the broker's scenes. Without it an ancestor seated later brings a free seat, and a grant wakes nobody: of three magus in a chain the middle one is killed while a step of the innermost waits for the whole machine; the outermost asks for its next step, and that step's grant has a free seat for the orphan, at which nobody looks |
| `NoLostWakeOneLevel` | `OneLevel`: what parks runs underneath one claimed step, wrappers aside, and an invocation asks over one connection | a chain of two magus, and what `job exec` wraps; it is where `AncestorsFirst` is no hypothesis but follows. `BrokerMC` assumes it of the scenes in which nothing is re-asserted |
| `NoLostRoomAlways`, `NoLostWakeAlways`, `NoLostWakeOneLevel` | conclude nothing of a `StarvedBehindGate`: a gate in front of a starved head | `BrokerGateLate` shows what is lost there |
| `KeepsSeatAlways`, `KnownFirstAlways`, `RemoteTrueAlways` | `Windows = {}`: no callback or grant of a dead connection is heard after a new one is published | `BrokerClientLag` shows that the last two fail without |
| the same | `[]KeysApart`: no two running steps were granted one id | `ids` shows that the first fails without; TLC finds it true of two steps and two deaths |
| `PoolTypeCorrect`, `SlotsKeptAlways`, `WedgeIsSeenAlways` | `SlotPoolAssumption`, of the instance | `StepMC` assumes it of its two pools, so TLC checks it |
| `MergedAsGatedAlways`, `MainStaysGreenAlways` | `~Apart`: pipelines | `ApplyJobs` shows that the first fails without |
| `MainStaysGreenAlways` | `Partitioned`, `BreakOwnUnits`: changes with a unit in common share a partition, and only the changes that affect a unit break it | what `partition.go` computes and gates by; `ApplyMC` meets both |

### Model-checked only

* Liveness, which is out of the prover's reach: `ParkedAnswered`, `DrainEnds`, `Answered`,
  `EndsStopped`, `Settles`, `RedialedOrStranded`, `SeatsComeBack`, `AllRun`, `QueuedAnswered`,
  `AllDecided`, `GreenSettles`.
* What the hypotheses above leave out: `NoLostWake` beside a gate that stands in front of a
  starved head, where `queue` shows that its own scene, with a gate and every interleaving
  of its five requests, loses no wake and `BrokerGateLate` that another does; the client
  where ids collide or a dead connection is heard late, where it does go wrong.
* `BrokerClient`'s type invariant, which bounds the ids a broker counts to by the number of
  its steps and deaths: the proofs need no such bound.

## What is not modelled

* Admission: memory curves, `Overrun` at the budget and the wake timer they need; the
  frames a parked client hears and their order; a run's bounded wait for a claim
  (`budgetWait`). Floating-point weights are small numbers: the queue only compares them.
* Broker: the groups that ride a claim, and signals; crash watches and status. A
  connection that never says hello holds nothing and is left out. In the client, riders,
  held commands, hello refusals and the start hook; in the election, sockets a supervisor
  bound, and brokers of other protocols.
* Services: the in-process registry used when no broker can be reached, `Sweep`, and the
  process control under `Start` and `Stop`.
* Project locks: the pipe of a run's upstream, and the watcher of a vanished root.
* Slots: cancelled contexts, and pool events. Of the keyed cache locks, the lock files
  across processes and the table of runs in flight.
* Merge queue: planning and partitioning, regeneration and its bundles, update commits
  (`MayHold` stands for what they find), and the atomic merge of a stack (`mergeRun`): the
  provider modelled merges one change at a time.
* Files, hashes, process control and presentation: the other parts listed in
  `PROJECT.json`, each with its reason.

Two hazards have no property for such a reason: the wake timer (`broker/budget.go:195`) and
the reuse of a process group's id (`broker/owner.go:307`). Others have none that passes,
because the code does what the hazard fears: `lock.go:869`, `service/runner.go:165` and
`queue/apply.go:1043`, in `LockSurprises`, `ServicesAdopt` and `ApplyLost`. What a broker
that replaces another no longer knows of sessions (`broker/server.go:513`) is `BrokerRestart`.

## Plan

1. Proofs: that no wake is lost of deeper chains while no magus in their middle is killed;
   that only the end of a redial strands a client, which is a step's property
   (`RedialedOrStranded`'s second half).
2. `mergeRun`, beside `MergeChange`; planning and `partition.go` against the assumption
   `Partitioned`.
3. Groups that ride a claim, in `Broker` and `BrokerClient`; the wake timer with two-step
   curves; services in the broker's drain.
4. The job store: claims, leases and landings.
5. Publication in the cache store against eviction.
