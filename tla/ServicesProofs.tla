--------------------------- MODULE ServicesProofs ---------------------------
(***************************************************************************)
(* Theorems about Services, for any set of dependents: whatever the order  *)
(* of releases, late idle timers and a StopAll, an instance is stopped at  *)
(* most once and is never left without somebody to stop it.                *)
(***************************************************************************)
EXTENDS Services, FiniteSetTheorems, TLAPS

\* How far an entry is on its way out: in the table, being forgotten, being
\* stopped, stopped.
Stages(e) == (IF table = e THEN 1 ELSE 0) + dropping[e] + stopping[e] + calls[e]

\* A dependent that has not asked has made nothing.
Unmade ==
  \A e \in Entry : pc[e] = "out" => phase[e] = "none" /\ Stages(e) = 0 /\ ~(e \in up /\ ~StartKind)

\* An entry's start and its maker keep step.
InStep ==
  \A e \in Entry :
    /\ pc[e] \in {"starting", "booting"} => phase[e] = "starting"
    /\ pc[e] = "booting" => StartKind
    /\ pc[e] = "cleanup" => phase[e] = "failed"

\* An entry is at one stage, and one whose instance runs or is being started
\* does not leave them.
OneStage ==
  \A e \in Entry :
    /\ Stages(e) <= 1
    /\ phase[e] \in {"starting", "own"} => Stages(e) = 1
    /\ phase[e] = "starting" => calls[e] = 0
    /\ ~StartKind /\ e \in up => phase[e] = "own" /\ calls[e] = 0

ServicesInv == TypeOK /\ Unmade /\ InStep /\ OneStage

-----------------------------------------------------------------------------
LEMMA InitInv == Init => ServicesInv
<1> SUFFICES ASSUME Init PROVE ServicesInv OBVIOUS
<1> USE ServicesAssumption DEF Init, Entry, StartKind, Foreign
<1>1. TypeOK BY DEF TypeOK, Stage, Instance
<1>2. \A e \in Entry : Stages(e) = 0 /\ (~StartKind => e \notin up) BY DEF Stages
<1> QED BY <1>1, <1>2 DEF ServicesInv, Unmade, InStep, OneStage

\* The steps that leave the way out alone.
LEMMA AcquireInv ==
  ASSUME ServicesInv, world' = world, NEW d \in Dependent,
         Join(d) \/ Make(d) \/ Record(d) \/ Answer(d)
  PROVE  ServicesInv'
<1> USE ServicesAssumption DEF ServicesInv, Entry, StartKind, KeepWarm, tableVars, teardownVars
<1>0. CASE Make(d)
  <2>1. TypeOK' BY <1>0 DEF Make, TypeOK, Stage
  <2>2. \A e \in Entry : Stages(e)' = IF e = d THEN 1 ELSE Stages(e)
    BY <1>0 DEF Make, TypeOK, Unmade, Stages
  <2>3. calls[d] = 0 /\ calls' = calls
    <3>1. Stages(d) = 0 BY <1>0 DEF Make, Unmade
    <3>2. dropping[d] \in Nat /\ stopping[d] \in Nat /\ calls[d] \in Nat BY DEF TypeOK
    <3>3. calls[d] = 0 BY <3>1, <3>2 DEF Stages
    <3> QED BY <1>0, <3>3 DEF Make
  <2> QED BY <1>0, <2>1, <2>2, <2>3 DEF Make, TypeOK, Unmade, InStep, OneStage
<1>1. CASE Join(d)
  BY <1>1 DEF Join, TypeOK, Unmade, InStep, OneStage, Stages, Stage, Inc
<1>3. CASE Record(d)
  BY <1>3 DEF Record, TypeOK, Unmade, InStep, OneStage, Stages, Stage
<1>4. CASE Answer(d)
  BY <1>4 DEF Answer, TypeOK, Unmade, InStep, OneStage, Stages, Stage
<1> QED BY <1>0, <1>1, <1>3, <1>4

\* A start comes out.
LEMMA StartInv ==
  ASSUME ServicesInv, world' = world, NEW d \in Dependent,
         StartCommand(d) \/ Probe(d) \/ Boot(d) \/ Discard(d)
  PROVE  ServicesInv'
<1> USE ServicesAssumption DEF ServicesInv, Entry, StartKind, KeepWarm, tableVars, teardownVars
<1>1. CASE StartCommand(d)
  <2>1. CASE Ready(d, "own") /\ up' = up \cup {Instance(d)}
    <3>1. TypeOK' BY <1>1, <2>1 DEF StartCommand, Ready, Instance, TypeOK, Stage
    <3>2. \A e \in Entry : Stages(e)' = Stages(e)
      BY <1>1 DEF StartCommand, Stages
    <3>3. up' = up \cup {d} /\ pc[d] = "starting"
      BY <1>1, <2>1 DEF StartCommand, Instance
    <3>4. Stages(d) = 1 /\ calls[d] = 0
      BY <3>3 DEF InStep, OneStage, TypeOK, Stages
    <3> QED BY <1>1, <2>1, <3>1, <3>2, <3>3, <3>4
            DEF StartCommand, Ready, TypeOK, Unmade, InStep, OneStage
  <2>2. CASE Ready(d, "failed") /\ UNCHANGED up
    BY <1>1, <2>2 DEF StartCommand, Ready, Instance, TypeOK, Unmade, InStep, OneStage, Stages, Stage
  <2> QED BY <1>1, <2>1, <2>2 DEF StartCommand
<1>2. CASE Probe(d)
  <2>1. TypeOK' BY <1>2 DEF Probe, Ready, TypeOK, Stage
  <2>2. \A e \in Entry : Stages(e)' = Stages(e) BY <1>2 DEF Probe, Stages
  <2>3. StartKind BY <1>2 DEF Probe
  <2> QED BY <1>2, <2>1, <2>2, <2>3 DEF Probe, Ready, TypeOK, Unmade, InStep, OneStage
<1>3. CASE Boot(d)
  <2> SUFFICES ASSUME StartKind PROVE ServicesInv'
    BY <1>3 DEF Boot, InStep
  <2>1. CASE Ready(d, "own") /\ up' = up \cup {Instance(d)}
    BY <1>3, <2>1 DEF Boot, Ready, Instance, TypeOK, Unmade, InStep, OneStage, Stages, Stage
  <2>2. CASE Ready(d, "failed") /\ up' = up \ {Instance(d)}
    BY <1>3, <2>2 DEF Boot, Ready, Instance, TypeOK, Unmade, InStep, OneStage, Stages, Stage
  <2>3. CASE Ready(d, IF Instance(d) \in up THEN "adopted" ELSE "failed") /\ UNCHANGED up
    BY <1>3, <2>3 DEF Boot, Ready, Instance, TypeOK, Unmade, InStep, OneStage, Stages, Stage
  <2> QED BY <1>3, <2>1, <2>2, <2>3 DEF Boot
<1>4. CASE Discard(d)
  BY <1>4 DEF Discard, TypeOK, Unmade, InStep, OneStage, Stages, Stage
<1> QED BY <1>1, <1>2, <1>3, <1>4

\* An entry leaves the table, or a count or a timer changes.
LEMMA ReleaseInv ==
  ASSUME ServicesInv, world' = world, NEW d \in Dependent,
         Release(d) \/ Lapse(d) \/ Reap(d)
  PROVE  ServicesInv'
<1> USE ServicesAssumption DEF ServicesInv, Entry, StartKind, KeepWarm, tableVars, teardownVars
<1>1. CASE Release(d)
  <2>1. CASE ~Counted
    BY <1>1, <2>1 DEF Release, TypeOK, Unmade, InStep, OneStage, Stages, Stage
  <2>2. CASE Counted /\ (refs[table] > 1 \/ KeepWarm)
    <3>1. table \in Dependent /\ refs[table] \in Nat \ {0}
      BY <2>2 DEF Counted, TypeOK
    <3>2. UNCHANGED <<of, phase, teardownVars, table, up, lapsed, journal, stopped>>
      BY <1>1, <2>2, <3>1 DEF Release, Arm
    <3>3. refs' = Dec(refs, table) /\ (timer' = timer \/ timer' = timer \cup {table})
      BY <1>1, <2>2, <3>1 DEF Release, Arm
    <3>4. pc' = [pc EXCEPT ![d] = "released"] /\ pc[d] = "held"
      BY <1>1 DEF Release
    <3>5. TypeOK' BY <3>1, <3>2, <3>3, <3>4 DEF Dec, TypeOK, Stage
    <3>6. \A e \in Entry : Stages(e)' = Stages(e)
      BY <3>2 DEF Stages
    <3> QED BY <3>1, <3>2, <3>4, <3>5, <3>6 DEF TypeOK, Unmade, InStep, OneStage
  <2>3. CASE Counted /\ ~(refs[table] > 1 \/ KeepWarm)
    <3>1. table \in Dependent /\ refs[table] \in Nat \ {0}
      BY <2>3 DEF Counted, TypeOK
    <3>2. UNCHANGED <<of, phase, stopping, calls, timer, up, lapsed, journal, stopped>>
      BY <1>1, <2>3, <3>1 DEF Release
    <3>3. refs' = Dec(refs, table) /\ Retire(table)
      BY <1>1, <2>3, <3>1 DEF Release, TypeOK
    <3>4. pc' = [pc EXCEPT ![d] = "released"] /\ pc[d] = "held"
      BY <1>1 DEF Release
    <3>5. TypeOK' BY <3>1, <3>2, <3>3, <3>4 DEF Retire, Inc, Dec, TypeOK, Stage
    <3>6. \A e \in Entry : Stages(e)' = Stages(e)
      BY <3>1, <3>2, <3>3 DEF Retire, Inc, TypeOK, Stages
    <3> QED BY <3>1, <3>2, <3>4, <3>5, <3>6 DEF Unmade, InStep, OneStage
  <2> QED BY <2>1, <2>2, <2>3
<1>2. CASE Lapse(d)
  BY <1>2 DEF Lapse, Inc, TypeOK, Unmade, InStep, OneStage, Stages, Stage
<1>3. CASE Reap(d)
  BY <1>3 DEF Reap, Idle, Retire, Inc, Dec, TypeOK, Unmade, InStep, OneStage, Stages, Stage
<1> QED BY <1>1, <1>2, <1>3

LEMMA StopAllInv == ServicesInv /\ StopAll /\ world' = world => ServicesInv'
<1> SUFFICES ASSUME ServicesInv, StopAll, world' = world PROVE ServicesInv' OBVIOUS
<1> USE ServicesAssumption DEF ServicesInv, Entry, StartKind, KeepWarm
<1>1. TypeOK' BY DEF StopAll, Retire, Inc, TypeOK, Stage
<1>2. \A e \in Entry : Stages(e)' = Stages(e)
  BY DEF StopAll, Retire, Inc, TypeOK, Stages
<1> QED BY <1>1, <1>2 DEF StopAll, Unmade, InStep, OneStage

LEMMA TeardownInv ==
  ASSUME ServicesInv, world' = world, NEW e \in Entry, Forget(e) \/ Stop(e)
  PROVE  ServicesInv'
<1> USE ServicesAssumption DEF ServicesInv, Entry, StartKind, KeepWarm, tableVars, teardownVars
<1>1. CASE Forget(e)
  <2>1. TypeOK'
    <3>1. dropping[e] \in Nat \ {0} BY <1>1 DEF Forget, TypeOK
    <3>2. dropping' \in [Entry -> Nat] /\ stopping' \in [Entry -> Nat]
      BY <1>1, <3>1 DEF Forget, Inc, Dec, TypeOK
    <3> QED BY <1>1, <3>2 DEF Forget, TypeOK
  <2>2. Unmade' BY <1>1 DEF Forget, Inc, Dec, TypeOK, Unmade, OneStage, Stages
  <2>3. InStep' BY <1>1 DEF Forget, Inc, Dec, TypeOK, InStep
  <2>4. OneStage' BY <1>1 DEF Forget, Inc, Dec, TypeOK, Unmade, InStep, OneStage, Stages
  <2> QED BY <2>1, <2>2, <2>3, <2>4
<1>2. CASE Stop(e)
  <2>1. TypeOK'
    <3>1. /\ stopping' = Dec(stopping, e) /\ stopping[e] \in Nat \ {0}
          /\ calls' = Inc(calls, e) \/ calls' = calls
          /\ up' = up \ {Instance(e)} \/ up' = up
          /\ UNCHANGED <<pc, of, table, refs, timer, phase, lapsed, dropping, journal, stopped>>
      BY <1>2 DEF Stop, TypeOK
    <3>2. stopping' \in [Entry -> Nat] /\ calls' \in [Entry -> Nat]
      BY <3>1 DEF Inc, Dec, TypeOK
    <3> QED BY <3>1, <3>2 DEF TypeOK
  <2>2. Unmade' BY <1>2 DEF Stop, Settled, Owned, Instance, Inc, Dec, TypeOK, Unmade, OneStage, Stages
  <2>3. InStep' BY <1>2 DEF Stop, Settled, Owned, Instance, Inc, Dec, TypeOK, InStep
  <2>4. OneStage'
    <3>1. Stages(e) = 1 /\ table # e /\ dropping[e] = 0 /\ stopping[e] = 1 /\ calls[e] = 0
      <4>1. /\ dropping[e] \in Nat /\ stopping[e] \in Nat /\ calls[e] \in Nat
            /\ Stages(e) <= 1 /\ stopping[e] > 0
        BY <1>2 DEF Stop, TypeOK, OneStage
      <4> QED BY <4>1 DEF Stages
    <3>2. CASE Owned(e)
      <4>1. Stages(e)' = 1
        BY <1>2, <3>1, <3>2 DEF Stop, Inc, Dec, TypeOK, Stages
      <4>2. \A f \in Entry \ {e} : Stages(f)' = Stages(f) /\ calls'[f] = calls[f]
        BY <1>2, <3>2 DEF Stop, Inc, Dec, TypeOK, Stages
      <4>3. ~StartKind => up' = up \ {e}
        BY <1>2, <3>2 DEF Stop, Instance
      <4>4. up' \subseteq up /\ phase' = phase /\ phase[e] = "own"
        BY <1>2, <3>2 DEF Stop, Owned
      <4> QED BY <4>1, <4>2, <4>3, <4>4 DEF OneStage
    <3>3. CASE ~Owned(e)
      <4>1. UNCHANGED <<calls, up, phase>> /\ phase[e] \notin {"own", "starting"}
        BY <1>2, <3>3 DEF Stop, Settled, Owned
      <4>2. Stages(e)' = 0
        BY <1>2, <3>1, <4>1 DEF Stop, Inc, Dec, TypeOK, Stages
      <4>3. \A f \in Entry \ {e} : Stages(f)' = Stages(f)
        BY <1>2, <4>1 DEF Stop, Inc, Dec, TypeOK, Stages
      <4> QED BY <4>1, <4>2, <4>3 DEF OneStage
    <3> QED BY <3>2, <3>3
  <2> QED BY <2>1, <2>2, <2>3, <2>4
<1> QED BY <1>1, <1>2

\* Every entry of the table is in one stage of its life at a time, whatever starts,
\* releases, timers and a StopAll do to it.
THEOREM ServicesInvariant == Spec => []ServicesInv
<1>1. ServicesInv /\ [Next]_vars => ServicesInv'
  <2> SUFFICES ASSUME ServicesInv, [Next]_vars PROVE ServicesInv' OBVIOUS
  <2>1. CASE UNCHANGED vars
    BY <2>1 DEF vars, registryVars, tableVars, teardownVars, ServicesInv, TypeOK, Unmade, InStep, OneStage, Stages, StartKind
  <2> QED BY <2>1, AcquireInv, StartInv, ReleaseInv, StopAllInv, TeardownInv DEF Next, Act, Entry
<1> QED BY InitInv, <1>1, PTL DEF Spec

-----------------------------------------------------------------------------
\* Runner.Stop is called at most once on a handle, though releases, fired idle
\* timers and a StopAll may all be after the same entry.
THEOREM StoppedOnceCorrect == Spec => []StoppedOnce
<1>1. ServicesInv => StoppedOnce
  BY DEF ServicesInv, TypeOK, OneStage, StoppedOnce, Stages, Entry
<1> QED BY <1>1, ServicesInvariant, PTL

\* No process the registry started is out of its table without a teardown that
\* will stop it, one whose start was in flight when it was torn down included.
THEOREM NoneOrphanedCorrect == Spec => []NoneOrphaned
<1>1. ServicesInv => NoneOrphaned
  BY DEF ServicesInv, TypeOK, OneStage, NoneOrphaned, Stages, Entry, Instance
<1> QED BY <1>1, ServicesInvariant, PTL

\* The registry's state keeps its shape: a count is never taken below zero.
THEOREM ServicesTypeCorrect == Spec => []TypeOK
  BY ServicesInvariant, PTL DEF ServicesInv

-----------------------------------------------------------------------------
(* Who uses an instance.                                                     *)

\* The dependents an entry counts, from the Acquire that joined or made it to their
\* release; one whose start failed counts them no more.
Counts  == {"starting", "booting", "recording", "waiting", "held"}
Users(e) == {d \in Dependent : of[d] = e /\ pc[d] \in Counts}

\* A maker is of its own entry, and nobody is handed one whose start has not come out.
Handed ==
  /\ table # NoEntry => phase[table] # "none"
  /\ \A d \in Dependent :
       /\ pc[d] \in {"starting", "booting", "recording", "cleanup"} => of[d] = d
       /\ pc[d] \in {"recording", "held"} => phase[of[d]] \in {"own", "adopted"}
       /\ pc[d] = "waiting" => phase[of[d]] # "none"
       /\ pc[d] \in Counts => of[d] \in Entry

\* Until a StopAll, whoever uses an entry finds it in the table, which counts at least
\* its users.
UsesCounted ==
  ~stopped =>
    /\ \A d \in Dependent : pc[d] \in Counts /\ phase[of[d]] # "failed" => of[d] = table
    /\ table # NoEntry /\ phase[table] # "failed" =>
         IsFiniteSet(Users(table)) /\ Cardinality(Users(table)) <= refs[table]

\* What something else started is adopted; a command service that is in the table runs.
Runs ==
  /\ Foreign => "machine" \in up /\ \A e \in Entry : phase[e] # "own" /\ pc[e] # "booting"
  /\ ~StartKind => \A e \in Entry : phase[e] # "adopted" /\ (phase[e] = "own" /\ table = e => e \in up)

UseInv == Handed /\ UsesCounted /\ Runs

LEMMA HandedStep ==
  ASSUME ServicesInv, Handed, Act, world' = world
  PROVE  Handed'
<1> USE DEF Entry, tableVars, teardownVars, Counts
<1>1. /\ pc \in [Dependent -> Stage] /\ of \in [Dependent -> Entry \cup {NoEntry}]
      /\ table \in Entry \cup {NoEntry} /\ NoEntry \notin Entry
      /\ phase \in [Entry -> {"none", "starting", "own", "adopted", "failed"}]
  BY ServicesAssumption DEF ServicesInv, TypeOK
<1>2. \A e \in Entry : /\ pc[e] = "out" => phase[e] = "none"
                       /\ pc[e] \in {"starting", "booting"} => phase[e] = "starting"
                       /\ pc[e] = "cleanup" => phase[e] = "failed"
  BY DEF ServicesInv, Unmade, InStep
<1>3. ASSUME NEW d \in Dependent, Join(d) PROVE Handed'
  BY <1>1, <1>3 DEF Handed, Join
<1>4. ASSUME NEW d \in Dependent, Make(d) PROVE Handed'
  BY <1>1, <1>2, <1>4 DEF Handed, Make
<1>5. ASSUME NEW d \in Dependent, NEW outcome \in {"own", "failed", "adopted"},
             Ready(d, outcome), pc[d] \in {"starting", "booting"}, UNCHANGED <<of, table>>
      PROVE  Handed'
  <2>1. /\ phase' = [phase EXCEPT ![d] = outcome] /\ phase[d] = "starting" /\ of[d] = d
        /\ \A c \in Dependent \ {d} : pc'[c] = pc[c]
        /\ \/ pc'[d] = "recording" /\ outcome = "own"
           \/ pc'[d] = "cleanup"
           \/ pc'[d] = "held" /\ outcome = "adopted"
    BY <1>1, <1>2, <1>5 DEF Ready, Handed
  <2>. QED  BY <1>1, <1>5, <2>1 DEF Handed
<1>6. ASSUME NEW d \in Dependent, StartCommand(d) \/ Probe(d) \/ Boot(d) PROVE Handed'
  <2>1. CASE \E outcome \in {"own", "failed", "adopted"} : Ready(d, outcome)
    BY <1>5, <1>6, <2>1 DEF StartCommand, Probe, Boot
  <2>2. CASE pc' = [pc EXCEPT ![d] = "booting"] /\ UNCHANGED phase
    BY <1>1, <1>6, <2>2 DEF StartCommand, Probe, Boot, Handed
  <2>. QED  BY <1>6, <2>1, <2>2 DEF StartCommand, Probe, Boot
<1>7. ASSUME NEW d \in Dependent, Discard(d) \/ Record(d) \/ Answer(d) PROVE Handed'
  BY <1>1, <1>7 DEF Handed, Discard, Record, Answer
<1>8. ASSUME NEW d \in Dependent, Release(d) PROVE Handed'
  BY <1>1, <1>8 DEF Handed, Release, Retire
<1>9. ASSUME NEW e \in Entry, Lapse(e) \/ Reap(e) \/ Forget(e) \/ Stop(e) PROVE Handed'
  BY <1>1, <1>9 DEF Handed, Lapse, Reap, Forget, Stop, Retire
<1>10. CASE StopAll
  BY <1>1, <1>10 DEF Handed, StopAll, Retire
<1>. QED  BY <1>3, <1>4, <1>6, <1>7, <1>8, <1>9, <1>10 DEF Act

LEMMA RunsStep ==
  ASSUME ServicesInv, Runs, Act, world' = world
  PROVE  Runs'
<1> USE DEF Entry, tableVars, teardownVars
<1>1. /\ pc \in [Dependent -> Stage] /\ table \in Entry \cup {NoEntry} /\ NoEntry \notin Entry
      /\ phase \in [Entry -> {"none", "starting", "own", "adopted", "failed"}]
      /\ StartKind' = StartKind /\ Foreign' = Foreign /\ (Foreign => StartKind)
  BY ServicesAssumption DEF ServicesInv, TypeOK, StartKind, Foreign
<1>2. \A e \in Entry : /\ pc[e] \in {"starting", "booting"} => phase[e] = "starting"
                       /\ pc[e] = "booting" => StartKind
                       /\ pc[e] = "out" => phase[e] = "none"
  BY DEF ServicesInv, Unmade, InStep
<1>3. ASSUME NEW d \in Dependent, Join(d) \/ Discard(d) \/ Record(d) \/ Answer(d) PROVE Runs'
  BY <1>1, <1>3 DEF Runs, Join, Discard, Record, Answer
<1>4. ASSUME NEW d \in Dependent, Make(d) PROVE Runs'
  BY <1>1, <1>2, <1>4 DEF Runs, Make
<1>5. ASSUME NEW d \in Dependent, StartCommand(d) PROVE Runs'
  <2>1. /\ ~StartKind /\ ~Foreign /\ table' = table
        /\ \/ phase' = [phase EXCEPT ![d] = "own"] /\ up' = up \cup {d}
           \/ phase' = [phase EXCEPT ![d] = "failed"] /\ up' = up
    BY <1>1, <1>5 DEF StartCommand, Ready, Instance
  <2>. QED  BY <1>1, <2>1 DEF Runs
<1>6. ASSUME NEW d \in Dependent, Probe(d) PROVE Runs'
  <2>1. /\ StartKind /\ up' = up
        /\ \/ "machine" \in up /\ phase' = [phase EXCEPT ![d] = "adopted"] /\ pc'[d] = "held"
           \/ "machine" \notin up /\ phase' = phase
        /\ \A e \in Entry \ {d} : pc'[e] = pc[e]
    BY <1>1, <1>6 DEF Probe, Ready, Instance
  <2>. QED  BY <1>1, <2>1 DEF Runs
<1>7. ASSUME NEW d \in Dependent, Boot(d) PROVE Runs'
  <2>1. StartKind /\ ~Foreign
    BY <1>1, <1>2, <1>7 DEF Boot, Runs
  <2>. QED  BY <1>1, <2>1 DEF Runs
<1>8. ASSUME NEW d \in Dependent, Release(d) PROVE Runs'
  BY <1>1, <1>8 DEF Runs, Release, Retire
<1>9. ASSUME NEW e \in Entry, Lapse(e) \/ Reap(e) \/ Forget(e) PROVE Runs'
  BY <1>1, <1>9 DEF Runs, Lapse, Reap, Forget, Retire
<1>10. ASSUME NEW e \in Entry, Stop(e) PROVE Runs'
  <2>1. table # e
    <3>1. /\ dropping[e] \in Nat /\ stopping[e] \in Nat /\ calls[e] \in Nat
          /\ stopping[e] > 0 /\ Stages(e) <= 1
      BY <1>10 DEF Stop, ServicesInv, TypeOK, OneStage
    <3>. QED  BY <3>1 DEF Stages
  <2>2. /\ UNCHANGED <<pc, phase, table>>
        /\ up' = up \/ (up' = up \ {Instance(e)} /\ phase[e] = "own")
    BY <1>10 DEF Stop, Owned
  <2>. QED  BY <1>1, <2>1, <2>2 DEF Runs, Instance
<1>11. CASE StopAll
  BY <1>1, <1>11 DEF Runs, StopAll, Retire
<1>. QED
  BY <1>3, <1>4, <1>5, <1>6, <1>7, <1>8, <1>9, <1>10, <1>11 DEF Act

\* The uses of an entry that stays in the table are still counted when nobody joins it.
LEMMA UsesKept ==
  ASSUME UsesCounted, UNCHANGED <<of, table, refs, stopped>>,
         \A d \in Dependent : pc'[d] \in Counts /\ phase'[of[d]] # "failed" =>
                               pc[d] \in Counts /\ phase[of[d]] # "failed",
         table # NoEntry /\ phase[table] = "failed" => phase'[table] = "failed",
         refs \in [Entry -> Nat], table \in Entry \cup {NoEntry}
  PROVE  UsesCounted'
<1> SUFFICES ASSUME ~stopped PROVE UsesCounted'
  BY DEF UsesCounted
<1>1. \A d \in Dependent : pc'[d] \in Counts /\ phase'[of'[d]] # "failed" => of'[d] = table'
  BY DEF UsesCounted
<1>2. ASSUME table # NoEntry, phase'[table] # "failed"
      PROVE  IsFiniteSet(Users(table)') /\ Cardinality(Users(table)') <= refs'[table]
  <2>1. Users(table)' \subseteq Users(table)
    BY <1>2 DEF Users
  <2>2. IsFiniteSet(Users(table)) /\ Cardinality(Users(table)) <= refs[table] /\ refs[table] \in Nat
    BY <1>2 DEF UsesCounted
  <2>3. /\ IsFiniteSet(Users(table)')
        /\ Cardinality(Users(table)') <= Cardinality(Users(table))
        /\ Cardinality(Users(table)) \in Nat /\ Cardinality(Users(table)') \in Nat
    BY <2>1, <2>2, FS_Subset, FS_CardinalityType
  <2>. QED  BY <2>2, <2>3
<1>. QED  BY <1>1, <1>2 DEF UsesCounted

\* An entry nobody uses may leave the table.
LEMMA UsesGone ==
  ASSUME table' = NoEntry,
         \A d \in Dependent : pc'[d] \in Counts => phase'[of'[d]] = "failed"
  PROVE  UsesCounted'
  BY DEF UsesCounted

LEMMA UsesStep ==
  ASSUME ServicesInv, Handed, UsesCounted, Act, world' = world
  PROVE  UsesCounted'
<1> USE DEF Entry, tableVars, teardownVars
<1>1. /\ pc \in [Dependent -> Stage] /\ of \in [Dependent -> Entry \cup {NoEntry}]
      /\ table \in Entry \cup {NoEntry} /\ NoEntry \notin Entry
      /\ phase \in [Entry -> {"none", "starting", "own", "adopted", "failed"}]
      /\ refs \in [Entry -> Nat]
  BY ServicesAssumption DEF ServicesInv, TypeOK
<1>2. \A e \in Entry : /\ pc[e] = "out" => phase[e] = "none"
                       /\ pc[e] \in {"starting", "booting"} => phase[e] = "starting"
                       /\ pc[e] = "cleanup" => phase[e] = "failed"
  BY DEF ServicesInv, Unmade, InStep
<1> SUFFICES ASSUME ~stopped PROVE UsesCounted'
  BY DEF UsesCounted, Act, Join, Make, StartCommand, Probe, Boot, Discard, Record, Answer,
         Release, Lapse, Reap, Forget, Stop, StopAll
<1>3. /\ \A d \in Dependent : pc[d] \in Counts /\ phase[of[d]] # "failed" => of[d] = table
      /\ table # NoEntry /\ phase[table] # "failed" =>
           IsFiniteSet(Users(table)) /\ Cardinality(Users(table)) <= refs[table]
      /\ \A d \in Dependent : pc[d] \in Counts => of[d] \in Entry
  BY DEF UsesCounted, Handed
<1>4. ASSUME NEW d \in Dependent, Join(d) PROVE UsesCounted'
  <2>1. /\ pc[d] = "out" /\ pc'[d] = "waiting" /\ of'[d] = table /\ table \in Entry
        /\ \A c \in Dependent \ {d} : pc'[c] = pc[c] /\ of'[c] = of[c]
        /\ refs'[table] = refs[table] + 1 /\ UNCHANGED <<table, phase>>
    BY <1>1, <1>4 DEF Join, Inc
  <2>2. ASSUME phase[table] # "failed"
        PROVE  IsFiniteSet(Users(table)') /\ Cardinality(Users(table)') <= refs'[table]
    <3>1. Users(table)' = Users(table) \cup {d} /\ d \notin Users(table)
      BY <2>1 DEF Users, Counts
    <3>2. IsFiniteSet(Users(table)) /\ Cardinality(Users(table)) <= refs[table]
      BY <1>3, <2>1, <2>2, <1>1
    <3>3. /\ IsFiniteSet(Users(table) \cup {d})
          /\ Cardinality(Users(table) \cup {d}) = Cardinality(Users(table)) + 1
          /\ Cardinality(Users(table)) \in Nat
      BY <3>1, <3>2, FS_AddElement, FS_CardinalityType
    <3>. QED  BY <1>1, <2>1, <3>1, <3>2, <3>3
  <2>. QED  BY <1>3, <2>1, <2>2 DEF UsesCounted
<1>5. ASSUME NEW d \in Dependent, Make(d) PROVE UsesCounted'
  <2>1. /\ table = NoEntry /\ table' = d /\ of'[d] = d /\ refs'[d] = 1
        /\ phase[d] = "none" /\ phase'[d] = "starting"
        /\ \A c \in Dependent \ {d} : pc'[c] = pc[c] /\ of'[c] = of[c] /\ phase'[c] = phase[c]
    BY <1>1, <1>2, <1>5 DEF Make
  <2>2. \A c \in Dependent \ {d} : pc[c] \in Counts => phase[of[c]] = "failed" /\ of[c] # d
    BY <1>1, <1>3, <2>1
  <2>3. Users(d)' \subseteq {d}
    BY <2>1, <2>2 DEF Users
  <2>4. IsFiniteSet(Users(d)') /\ Cardinality(Users(d)') <= 1
    <3>1. IsFiniteSet({d}) /\ Cardinality({d}) = 1
      BY FS_Singleton
    <3>. QED  BY <2>3, <3>1, FS_Subset
  <2>5. \A c \in Dependent \ {d} : pc'[c] \in Counts => phase'[of'[c]] = "failed"
    BY <1>3, <2>1, <2>2
  <2>. QED  BY <2>1, <2>4, <2>5 DEF UsesCounted
<1>6. ASSUME NEW d \in Dependent, StartCommand(d) \/ Probe(d) \/ Boot(d) PROVE UsesCounted'
  <2>1. /\ UNCHANGED <<of, table, refs, stopped>> /\ pc[d] \in {"starting", "booting"}
        /\ \A c \in Dependent \ {d} : pc'[c] = pc[c] /\ phase'[c] = phase[c]
    BY <1>1, <1>6 DEF StartCommand, Probe, Boot, Ready
  <2>2. phase[d] = "starting" /\ of[d] = d
    BY <1>2, <2>1 DEF Handed
  <2>. QED  BY <1>1, <1>3, <2>1, <2>2, UsesKept DEF Counts
<1>7. ASSUME NEW d \in Dependent, Record(d) \/ Answer(d) PROVE UsesCounted'
  <2>1. /\ UNCHANGED <<of, table, refs, phase, stopped>> /\ pc[d] \in Counts
        /\ \A c \in Dependent \ {d} : pc'[c] = pc[c]
    BY <1>1, <1>7 DEF Record, Answer, Counts
  <2>2. pc'[d] \in Counts => phase[of[d]] # "failed"
    BY <1>1, <1>7 DEF Record, Answer, Counts, Handed
  <2>. QED  BY <1>1, <2>1, <2>2, UsesKept
<1>8. ASSUME NEW d \in Dependent, Discard(d) PROVE UsesCounted'
  <2>1. /\ UNCHANGED <<of, refs, phase, stopped>> /\ phase[d] = "failed"
        /\ pc'[d] = "refused" /\ \A c \in Dependent \ {d} : pc'[c] = pc[c]
    BY <1>1, <1>2, <1>8 DEF Discard
  <2>2. \A c \in Dependent : pc'[c] \in Counts => pc[c] \in Counts
    BY <2>1 DEF Counts
  <2>3. CASE table = d
    BY <1>3, <1>8, <2>1, <2>2, <2>3, UsesGone DEF Discard
  <2>4. CASE table # d
    BY <1>1, <1>8, <2>1, <2>2, <2>4, UsesKept DEF Discard
  <2>. QED  BY <2>3, <2>4
<1>9. ASSUME NEW d \in Dependent, Release(d) PROVE UsesCounted'
  <2>1. /\ pc[d] = "held" /\ pc'[d] = "released"
        /\ \A c \in Dependent \ {d} : pc'[c] = pc[c]
        /\ UNCHANGED <<of, phase, stopped>>
    BY <1>1, <1>9 DEF Release
  <2>2. of[d] = table /\ phase[table] # "failed" /\ table \in Entry /\ d \in Users(table)
    BY <1>3, <2>1 DEF Handed, Counts, Users
  <2>3. /\ Cardinality(Users(table) \ {d}) = Cardinality(Users(table)) - 1
        /\ IsFiniteSet(Users(table) \ {d}) /\ Cardinality(Users(table) \ {d}) \in Nat
        /\ Cardinality(Users(table)) <= refs[table] /\ Cardinality(Users(table)) \in Nat
    BY <1>1, <1>3, <2>2, FS_RemoveElement, FS_CardinalityType
  <2>4. Counted /\ refs' = Dec(refs, table) /\ refs'[table] = refs[table] - 1
    BY <1>1, <1>9, <2>2, <2>3 DEF Release, Counted, Dec
  <2>5. CASE table' = table
    <3>1. /\ IsFiniteSet(Users(table)')
          /\ Cardinality(Users(table)') <= Cardinality(Users(table) \ {d})
          /\ Cardinality(Users(table)') \in Nat
      <4>1. Users(table)' \subseteq Users(table) \ {d}
        BY <2>1, <2>5 DEF Users, Counts
      <4>. QED  BY <2>3, <4>1, FS_Subset, FS_CardinalityType
    <3>2. Cardinality(Users(table)') <= refs'[table]
      BY <1>1, <2>2, <2>3, <2>4, <3>1
    <3>3. \A c \in Dependent : pc'[c] \in Counts /\ phase'[of'[c]] # "failed" => of'[c] = table
      BY <1>3, <2>1 DEF Counts
    <3>. QED  BY <2>1, <2>5, <3>1, <3>2, <3>3 DEF UsesCounted
  <2>6. CASE table' # table
    <3>1. refs[table] <= 1 /\ table' = NoEntry
      BY <1>1, <1>9, <2>4, <2>6 DEF Release, Retire
    <3>2. Users(table) \ {d} = {}
      <4>1. Cardinality(Users(table) \ {d}) = 0
        BY <1>1, <2>2, <2>3, <3>1
      <4>. QED  BY <2>3, <4>1, FS_EmptySet
    <3>3. ASSUME NEW c \in Dependent, pc'[c] \in Counts, phase'[of'[c]] # "failed" PROVE FALSE
      <4>1. c # d /\ pc[c] \in Counts /\ phase[of[c]] # "failed"
        BY <2>1, <3>3 DEF Counts
      <4>2. c \in Users(table) \ {d}
        BY <1>3, <4>1 DEF Users
      <4>. QED  BY <3>2, <4>2
    <3>. QED  BY <3>1, <3>3, UsesGone
  <2>. QED  BY <2>5, <2>6
<1>10. ASSUME NEW e \in Entry, Reap(e) PROVE UsesCounted'
  <2>1. UNCHANGED <<pc, of, refs, phase, stopped>>
    BY <1>10 DEF Reap
  <2>2. CASE Idle(e)
    <3>1. table = e /\ refs[table] = 0 /\ table' = NoEntry
      BY <1>10, <2>2 DEF Reap, Idle, Retire
    <3>2. phase[table] # "failed" => Users(table) = {}
      <4> SUFFICES ASSUME phase[table] # "failed" PROVE Users(table) = {}
        OBVIOUS
      <4>1. IsFiniteSet(Users(table)) /\ Cardinality(Users(table)) <= 0
        BY <1>1, <1>3, <3>1
      <4>2. Cardinality(Users(table)) = 0
        BY <4>1, FS_CardinalityType
      <4>. QED  BY <4>1, <4>2, FS_EmptySet
    <3>3. ASSUME NEW c \in Dependent, pc[c] \in Counts PROVE phase[of[c]] = "failed"
      BY <1>3, <3>2, <3>3 DEF Users
    <3>. QED  BY <2>1, <3>1, <3>3, UsesGone
  <2>3. CASE ~Idle(e)
    BY <1>1, <1>10, <2>1, <2>3, UsesKept DEF Reap
  <2>. QED  BY <2>2, <2>3
<1>11. ASSUME NEW e \in Entry, Lapse(e) \/ Forget(e) \/ Stop(e) PROVE UsesCounted'
  BY <1>1, <1>11, UsesKept DEF Lapse, Forget, Stop
<1>12. CASE StopAll
  BY <1>12 DEF StopAll, UsesCounted
<1>. QED
  BY <1>4, <1>5, <1>6, <1>7, <1>8, <1>9, <1>10, <1>11, <1>12 DEF Act

\* The registry stops nothing that something else started, and a release, a late idle
\* timer or a failed start never takes a command service from a dependent that was
\* handed it: only a StopAll does (registry.go:137), whatever the number of dependents.
THEOREM StopsNothingInUseAlways == Spec => []StopsNothingInUse
<1>1. Init => UseInv
  BY ServicesAssumption
     DEF Init, UseInv, Handed, UsesCounted, Runs, Counts, Entry, StartKind, Foreign
<1>2. ServicesInv /\ UseInv /\ [Next]_vars => UseInv'
  <2>1. ASSUME UseInv, UNCHANGED vars PROVE UseInv'
    <3>1. \A e : Users(e)' = Users(e)
      BY <2>1 DEF Users, vars, registryVars
    <3>. QED
      BY <2>1, <3>1 DEF UseInv, Handed, UsesCounted, Runs, vars, registryVars, tableVars,
                        StartKind, Foreign
  <2>. QED  BY <2>1, HandedStep, RunsStep, UsesStep DEF UseInv, Next
<1>3. ServicesInv /\ UseInv => StopsNothingInUse
  BY DEF UseInv, Handed, UsesCounted, Runs, StopsNothingInUse, HeldRuns, Instance, Counts, Entry
<1>. QED  BY <1>1, <1>2, <1>3, ServicesInvariant, PTL DEF Spec
=============================================================================
