------------------------------ MODULE QueueMC ------------------------------
(***************************************************************************)
(* Plans and worlds for the merge queue's validation.  One plan is run     *)
(* three ways, chosen at the start: as pipelines in one process, which an  *)
(* error may stop; as a job for each change; and as pipelines over and     *)
(* over, on machines that fail.                                            *)
(***************************************************************************)
EXTENDS QueueValidate

CONSTANTS a, b, c

VARIABLE scene

Jobs == INSTANCE QueueValidate WITH Apart <- TRUE, Depth <- 1
Faults == INSTANCE QueueValidate WITH
  MayFault <- TRUE, MayStop <- TRUE, Depth <- 2, MaxRuns <- 3

\* All share a partition, in this order; b is stacked on a.
OneGroup == [x \in Change |-> 1]
InOrder == [x \in Change |-> CASE x = a -> 1 [] x = b -> 2 [] x = c -> 3]
StackBA == [x \in Change |-> IF x = b THEN a ELSE NoChange]
UnitsOf == [x \in Change |-> IF x = c THEN {"u", "v"} ELSE {"u"}]

\* What is red alone, in pairs, and the base itself, by the unit they break.
Rules ==
  [of : {{}, {a}, {b}, {c}, {a, b}, {a, c}, {b, c}}, unit : {"u", "v"}]
FewRules == {R \in SUBSET Rules : Cardinality(R) <= 2}
AllWorlds == [red : FewRules, clash : {{}, {<<a, c>>}}, refused : {{}, {a}, {b}}]
\* Jobs share less, so one thing that is red will do.
JobWorlds == {w \in AllWorlds : Cardinality(w.red) <= 1}
\* On failing machines, c is red and b cannot be built.
FaultWorlds == [red : {{[of |-> {c}, unit |-> "u"]}}, clash : {{}}, refused : {{b}}]

AllInit ==
  /\ VInit
  /\ scene \in {"pipelines", "jobs", "faults"}
  /\ scene = "jobs" => world \in JobWorlds
  /\ scene = "faults" => world \in FaultWorlds

AllNext ==
  /\ \/ scene = "pipelines" /\ VNext
     \/ scene = "jobs" /\ Jobs!VNext
     \/ scene = "faults" /\ Faults!VNext
  /\ UNCHANGED scene

\* A run's goroutines go on, and a gate ends.
AllSpec ==
  /\ AllInit /\ [][AllNext]_<<vvars, scene>>
  /\ WF_vvars(/\ \/ scene = "pipelines" /\ Advances
                 \/ scene = "jobs" /\ Jobs!Advances
                 \/ scene = "faults" /\ Faults!Advances
              /\ UNCHANGED scene)
=============================================================================
