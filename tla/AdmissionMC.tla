----------------------------- MODULE AdmissionMC -----------------------------
(***************************************************************************)
(* Two root steps that each take half of a four-slot machine, and what     *)
(* they run: a fan-out of two beneath the first, one of them running a     *)
(* magus of its own; a child of the second that needs more than the first  *)
(* root leaves free; a job exec wrapper and the magus under it; a stranger.*)
(***************************************************************************)
EXTENDS Admission

CONSTANTS rootA, rootB, fanA1, fanA2, deepA, childB, exec, inExec, stranger, huge

MCRequest == {rootA, rootB, fanA1, fanA2, deepA, childB, exec, inExec, stranger, huge}

MCInvocation == {"a", "b", "a1", "a2", "a11", "b1", "wrap", "x", "s", "h"}

Step(inv, anc, slots, mb, pid) ==
  [invocation |-> inv, ancestors |-> anc, slots |-> slots, mb |-> mb, pid |-> pid, weight |-> 0]

MCClaim == [r \in MCRequest |->
  CASE r = rootA    -> Step("a", <<>>, 2, 1, 1)
    [] r = rootB    -> Step("b", <<>>, 2, 1, 2)
    [] r = fanA1    -> Step("a1", <<"a">>, 2, 1, 3)
    [] r = fanA2    -> Step("a2", <<"a">>, 0, 3, 4)
    [] r = deepA    -> Step("a11", <<"a", "a1">>, 3, 2, 5)
    [] r = childB   -> Step("b1", <<"b">>, 3, 1, 6)
    [] r = exec     -> Step("wrap", <<"b">>, 2, 0, 7)
    [] r = inExec   -> Step("x", <<"b", "wrap">>, 2, 2, 8)
    [] r = stranger -> Step("s", <<>>, 1, 4, 9)
    [] r = huge     -> Step("h", <<>>, 5, 0, 10)]

MCParent == [r \in MCRequest |->
  CASE r \in {fanA1, fanA2} -> rootA
    [] r = deepA            -> fanA1
    [] r \in {childB, exec} -> rootB
    [] r = inExec           -> exec
    [] OTHER                -> NoParent]

ASSUME MCChained == Chained
=============================================================================
