------------------------------ MODULE Services ------------------------------
(***************************************************************************)
(* The registry of shared services (internal/service): dependents that ask *)
(* for one key share one instance, which is kept warm for an idle window   *)
(* after the last of them lets go and then stopped.                        *)
(*                                                                         *)
(* Keys share nothing but the registry's mutex, so the module follows one  *)
(* key.  A dependent acquires it once and releases it once: a broker's     *)
(* session counts its acquires, so that a release frame and a hang-up let  *)
(* go of each exactly once.  An entry of the table is named by the         *)
(* dependent whose Acquire made it.                                        *)
(*                                                                         *)
(* The mutex covers the table alone.  Start, Stop and the journal run      *)
(* outside it, and every step that takes it is one action.                 *)
(***************************************************************************)
EXTENDS Naturals, FiniteSets

CONSTANTS
  Dependent,
  NoEntry,
  World       \* what service the key may name, see ASSUME

ASSUME ServicesAssumption ==
  /\ NoEntry \notin Dependent
  /\ World \subseteq [warm : BOOLEAN, start : BOOLEAN, foreign : BOOLEAN, stoppable : BOOLEAN]
  /\ \A w \in World : w.foreign => w.start

VARIABLES
  world,     \* the service, and who else is about; never changes
  pc,        \* of each dependent: where its acquire is
  of,        \* the entry it joined or made
  table,     \* the key's entry in r.entries
  refs,      \* e.refs
  phase,     \* of each entry: not made, starting, or how Start came out
  timer,     \* the entries whose idle timer is running
  lapsed,    \* of each entry: idle timers that fired and have yet to reap
  dropping,  \* of each entry: teardowns that have yet to drop its record
  stopping,  \* of each entry: teardowns that have yet to stop it
  calls,     \* of each entry: the Runner.Stop calls made on its handle
  up,        \* the instances running, see Instance
  journal,   \* the key has a record
  stopped    \* bound: StopAll ran

tableVars    == <<table, refs, timer>>
teardownVars == <<dropping, stopping, calls>>
registryVars == <<pc, of, tableVars, phase, lapsed, teardownVars, up, journal, stopped>>
vars == <<world, registryVars>>

Stage == {"out", "starting", "booting", "waiting", "cleanup", "recording",
          "held", "refused", "released"}

Entry == Dependent

KeepWarm  == world.warm       \* the service's idle window is longer than zero
StartKind == world.start      \* it is a start command (one service of the machine)
Foreign   == world.foreign    \* something else started it before anybody asked
Stoppable == world.stoppable  \* somebody may ask the broker to stop every service

\* A command service is a process of its own.  A start service is known only by
\* its readiness probe: whoever started it, there is one.
Instance(e) == IF StartKind THEN "machine" ELSE e

Init ==
  /\ world \in World
  /\ pc = [d \in Dependent |-> "out"]
  /\ of = [d \in Dependent |-> NoEntry]
  /\ table = NoEntry
  /\ refs = [e \in Entry |-> 0]
  /\ phase = [e \in Entry |-> "none"]
  /\ timer = {}
  /\ lapsed = [e \in Entry |-> 0]
  /\ dropping = [e \in Entry |-> 0]
  /\ stopping = [e \in Entry |-> 0]
  /\ calls = [e \in Entry |-> 0]
  /\ up = IF Foreign THEN {"machine"} ELSE {}
  /\ journal = FALSE
  /\ stopped = FALSE

Inc(f, e) == [f EXCEPT ![e] = @ + 1]
Dec(f, e) == [f EXCEPT ![e] = @ - 1]

-----------------------------------------------------------------------------
(* Acquire.                                                                  *)

\* Join the entry in the table, whatever has become of its start.
Join(d) ==
  /\ pc[d] = "out"
  /\ table # NoEntry
  /\ timer' = timer \ {table}
  /\ refs' = Inc(refs, table)
  /\ of' = [of EXCEPT ![d] = table]
  /\ pc' = [pc EXCEPT ![d] = "waiting"]
  /\ UNCHANGED <<table, phase, lapsed, teardownVars, up, journal, stopped>>

\* Make the entry and go on to start the service.
Make(d) ==
  /\ pc[d] = "out"
  /\ table = NoEntry
  /\ table' = d
  /\ refs' = [refs EXCEPT ![d] = 1]
  /\ phase' = [phase EXCEPT ![d] = "starting"]
  /\ of' = [of EXCEPT ![d] = d]
  /\ pc' = [pc EXCEPT ![d] = "starting"]
  /\ UNCHANGED <<timer, lapsed, teardownVars, up, journal, stopped>>

\* Mutant of Ready: a failed start returns without closing ready.
ReadyOnSuccess(d, outcome) ==
  /\ phase' = [phase EXCEPT ![d] = IF outcome = "failed" THEN @ ELSE outcome]
  /\ pc' = [pc EXCEPT ![d] = CASE outcome = "own"     -> "recording"
                               [] outcome = "failed"  -> "cleanup"
                               [] outcome = "adopted" -> "held"]

\* Start returned: the entry is ready, and its maker goes on to journal it, to
\* discard it, or straight to its caller.
Ready(d, outcome) ==
  /\ phase' = [phase EXCEPT ![d] = outcome]
  /\ pc' = [pc EXCEPT ![d] = CASE outcome = "own"     -> "recording"
                               [] outcome = "failed"  -> "cleanup"
                               [] outcome = "adopted" -> "held"]

\* A command service: forked and ready, or nothing is left running.
StartCommand(d) ==
  /\ ~StartKind
  /\ pc[d] = "starting"
  /\ \/ Ready(d, "own") /\ up' = up \cup {Instance(d)}
     \/ Ready(d, "failed") /\ UNCHANGED up
  /\ UNCHANGED <<of, tableVars, lapsed, teardownVars, journal, stopped>>

\* A start service is probed first, and adopted when it is ready already.
Probe(d) ==
  /\ StartKind
  /\ pc[d] = "starting"
  /\ IF Instance(d) \in up
       THEN Ready(d, "adopted")
       ELSE pc' = [pc EXCEPT ![d] = "booting"] /\ UNCHANGED phase
  /\ UNCHANGED <<of, tableVars, lapsed, teardownVars, up, journal, stopped>>

\* Its start command succeeds and the probe passes, or never does and the stop
\* command runs; or the start command fails, with one more probe.
Boot(d) ==
  /\ pc[d] = "booting"
  /\ \/ Ready(d, "own") /\ up' = up \cup {Instance(d)}
     \/ Ready(d, "failed") /\ up' = up \ {Instance(d)}
     \/ /\ Ready(d, IF Instance(d) \in up THEN "adopted" ELSE "failed")
        /\ UNCHANGED up
  /\ UNCHANGED <<of, tableVars, lapsed, teardownVars, journal, stopped>>

\* A failed start is not cached.
Discard(d) ==
  /\ pc[d] = "cleanup"
  /\ table' = IF table = d THEN NoEntry ELSE table
  /\ pc' = [pc EXCEPT ![d] = "refused"]
  /\ UNCHANGED <<of, refs, timer, phase, lapsed, teardownVars, up, journal, stopped>>

Record(d) ==
  /\ pc[d] = "recording"
  /\ journal' = TRUE
  /\ pc' = [pc EXCEPT ![d] = "held"]
  /\ UNCHANGED <<of, tableVars, phase, lapsed, teardownVars, up, stopped>>

\* One that joined has the entry's outcome for its own.
Answer(d) ==
  /\ pc[d] = "waiting"
  /\ phase[of[d]] # "starting"
  /\ pc' = [pc EXCEPT ![d] = IF phase[of[d]] = "failed" THEN "refused" ELSE "held"]
  /\ UNCHANGED <<of, tableVars, phase, lapsed, teardownVars, up, journal, stopped>>

-----------------------------------------------------------------------------
(* Release and teardown.                                                     *)

\* The entry leaves the table, to be stopped outside the mutex.
Retire(e) ==
  /\ table' = NoEntry
  /\ dropping' = Inc(dropping, e)

\* "Releasing an unknown or already-zero key is a no-op."
Counted == table # NoEntry /\ refs[table] > 0

\* Mutant of Arm: the last release starts no idle timer.
ArmNone(e) == timer' = timer

Arm(e) == timer' = timer \cup {e}

\* A release counts against whatever entry the table has for the key.
Release(d) ==
  /\ pc[d] = "held"
  /\ pc' = [pc EXCEPT ![d] = "released"]
  /\ \/ ~Counted /\ UNCHANGED <<tableVars, dropping>>
     \/ /\ Counted
        /\ refs' = Dec(refs, table)
        /\ \/ refs[table] > 1 /\ UNCHANGED <<table, timer, dropping>>
           \/ refs[table] <= 1 /\ KeepWarm /\ Arm(table) /\ UNCHANGED <<table, dropping>>
           \/ refs[table] <= 1 /\ ~KeepWarm /\ Retire(table) /\ UNCHANGED timer
  /\ UNCHANGED <<of, phase, lapsed, stopping, calls, up, journal, stopped>>

\* An idle timer fires; its reap still has to take the mutex, and an acquire
\* that comes first can no longer call it off.
Lapse(e) ==
  /\ e \in timer
  /\ timer' = timer \ {e}
  /\ lapsed' = Inc(lapsed, e)
  /\ UNCHANGED <<pc, of, table, refs, phase, teardownVars, up, journal, stopped>>

\* Mutants of Idle: reap looks at the count alone, or at the table alone.
IdleByCount(e) == refs[e] = 0
IdleByTable(e) == table = e

Idle(e) == refs[e] = 0 /\ table = e

Reap(e) ==
  /\ lapsed[e] > 0
  /\ lapsed' = Dec(lapsed, e)
  /\ IF Idle(e) THEN Retire(e) ELSE UNCHANGED <<table, dropping>>
  /\ UNCHANGED <<pc, of, refs, timer, phase, stopping, calls, up, journal, stopped>>

\* `magus server broker stop --services`.
StopAll ==
  /\ Stoppable
  /\ ~stopped
  /\ stopped' = TRUE
  /\ timer' = timer \ {table}
  /\ IF table # NoEntry THEN Retire(table) ELSE UNCHANGED <<table, dropping>>
  /\ UNCHANGED <<pc, of, refs, phase, lapsed, stopping, calls, up, journal>>

\* The record goes by the key.
Forget(e) ==
  /\ dropping[e] > 0
  /\ dropping' = Dec(dropping, e)
  /\ stopping' = Inc(stopping, e)
  /\ journal' = FALSE
  /\ UNCHANGED <<pc, of, tableVars, phase, lapsed, calls, up, stopped>>

\* Mutant of Settled: a teardown does not wait for a start in flight.
SettledAlways(e) == TRUE

Settled(e) == phase[e] # "starting"

Owned(e) == phase[e] = "own"

Stop(e) ==
  /\ stopping[e] > 0
  /\ Settled(e)
  /\ stopping' = Dec(stopping, e)
  /\ IF Owned(e)
       THEN /\ calls' = Inc(calls, e)
            /\ up' = up \ {Instance(e)}
       ELSE UNCHANGED <<calls, up>>
  /\ UNCHANGED <<pc, of, tableVars, phase, lapsed, dropping, journal, stopped>>

-----------------------------------------------------------------------------
Act ==
  \/ \E d \in Dependent :
       \/ Join(d) \/ Make(d) \/ StartCommand(d) \/ Probe(d) \/ Boot(d)
       \/ Discard(d) \/ Record(d) \/ Answer(d) \/ Release(d)
  \/ \E e \in Entry : Lapse(e) \/ Reap(e) \/ Forget(e) \/ Stop(e)
  \/ StopAll

Next == Act /\ UNCHANGED world

\* Start, Stop and the readiness probe are bounded by timeouts, a mutex held for
\* a moment is got in the end, and a run that acquired ends; nobody has to acquire.
Fairness ==
  /\ \A d \in Dependent :
       /\ WF_registryVars(StartCommand(d) \/ Probe(d) \/ Boot(d))
       /\ WF_registryVars(Discard(d) \/ Record(d) \/ Answer(d))
       /\ WF_registryVars(Release(d))
  /\ \A e \in Entry : WF_registryVars(Lapse(e)) /\ WF_registryVars(Reap(e)) /\ WF_registryVars(Forget(e)) /\ WF_registryVars(Stop(e))

Spec == Init /\ [][Next]_vars
FairSpec == Spec /\ Fairness

-----------------------------------------------------------------------------
\* Every variable keeps its shape (registry.go's entry and table).
TypeOK ==
  /\ world \in World
  /\ pc \in [Dependent -> Stage]
  /\ of \in [Dependent -> Entry \cup {NoEntry}]
  /\ table \in Entry \cup {NoEntry}
  /\ refs \in [Entry -> Nat]
  /\ phase \in [Entry -> {"none", "starting", "own", "adopted", "failed"}]
  /\ timer \subseteq Entry
  /\ lapsed \in [Entry -> Nat]
  /\ dropping \in [Entry -> Nat]
  /\ stopping \in [Entry -> Nat]
  /\ calls \in [Entry -> Nat]
  /\ up \subseteq Entry \cup {"machine"}
  /\ journal \in BOOLEAN
  /\ stopped \in BOOLEAN

\* Runner.Stop "is called at most once per Handle" (registry.go:35), though a
\* release, any number of idle timers and a StopAll may all be after one entry.
StoppedOnce == \A e \in Entry : calls[e] <= 1

\* A process the registry started is in its table or on its way to being
\* stopped, a start that a teardown overtook included: none is orphaned.
NoneOrphaned ==
  ~StartKind => \A e \in Entry :
    Instance(e) \in up => table = e \/ dropping[e] + stopping[e] > 0

\* What a dependent was handed keeps running until it lets go.
HeldRuns ==
  \A d \in Dependent : pc[d] = "held" => Instance(of[d]) \in up

\* The registry never stops what something else started (registry.go:33), and a
\* command service is taken from under a dependent by a StopAll alone, never by the
\* late idle timer of an earlier release: it is reaped "when the last dependent
\* releases" (registry.go:137).
StopsNothingInUse ==
  /\ Foreign => up # {}
  /\ ~StartKind /\ ~stopped => HeldRuns

\* While a dependent holds a service it started, the journal has the record a
\* later broker needs: "a NEW broker can reap orphans left by a previous one"
\* (journal.go:23).
HeldJournaled ==
  \A d \in Dependent : pc[d] = "held" /\ of[d] = d /\ table = d /\ Owned(d) => journal

\* Only a StopAll takes a service from under the dependents that hold it: it is
\* reaped "when the last dependent releases" (registry.go:137).
ReapedUnheld ==
  [][\A e \in Entry : table = e /\ table' # e /\ stopped' = stopped =>
       \A d \in Dependent : of[d] = e => pc'[d] # "held"]_vars

\* An entry is reaped only once the idle window of its last release is over:
\* an instance is kept "warm for an idle window after its last dependent
\* releases" (registry.go:6).
WarmForWindow ==
  [][\A e \in Entry : table = e /\ table' # e /\ stopped' = stopped => e \notin timer]_vars

\* The record goes "once the service has been stopped cleanly" (journal.go:80).
ForgottenStopped == [][journal /\ ~journal' => up = {}]_vars

\* What the registry started does not outlive the dependents that used it.
EndsStopped == Foreign \/ <>[](up = {})

\* An acquire is answered, by its own start or by the one it joined.
Answered ==
  \A d \in Dependent :
    pc[d] \in {"starting", "booting", "waiting"} ~> pc[d] \in {"held", "refused"}
=============================================================================
