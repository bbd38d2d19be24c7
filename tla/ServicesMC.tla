----------------------------- MODULE ServicesMC -----------------------------
(***************************************************************************)
(* The registry on a handful of dependents.                                *)
(***************************************************************************)
EXTENDS Services

CONSTANTS d1, d2, d3, d4

ThreeDependents == {d1, d2, d3}
FourDependents == {d1, d2, d3, d4}

A(warm, start, foreign, stoppable) ==
  [warm |-> warm, start |-> start, foreign |-> foreign, stoppable |-> stoppable]

\* A command kept warm, one that is not, a start service of ours and one of
\* somebody else's.
AllWorlds == {A(TRUE, FALSE, FALSE, TRUE), A(FALSE, FALSE, FALSE, FALSE),
              A(TRUE, TRUE, FALSE, TRUE), A(TRUE, TRUE, TRUE, TRUE)}

WarmCommand     == {A(TRUE, FALSE, FALSE, FALSE)}
StoppedCommand  == {A(TRUE, FALSE, FALSE, TRUE)}
StartedMachine  == {A(TRUE, TRUE, FALSE, FALSE)}
=============================================================================
