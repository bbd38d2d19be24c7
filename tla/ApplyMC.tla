------------------------------ MODULE ApplyMC ------------------------------
(* A plan and worlds for the applier's runs.                                 *)
EXTENDS QueueApply

CONSTANTS a, b, c

\* All share a partition, in this order, or c has its own; b is stacked on a.
OneGroup == [x \in Change |-> 1]
TwoGroups == [x \in Change |-> IF x = c THEN 2 ELSE 1]
InOrder == [x \in Change |-> CASE x = a -> 1 [] x = b -> 2 [] x = c -> 3]
StackBA == [x \in Change |-> IF x = b THEN a ELSE NoChange]
Unstacked == [x \in Change |-> NoChange]
UnitsOf == [x \in Change |-> {"u"}]

OnU(S) == [of |-> S, unit |-> "u"]
With(red, clash, refused) == [red |-> red, clash |-> clash, refused |-> refused]
QuietWorlds == {With({}, {}, {})}
\* Nothing is wrong, the first change is, the first two together are, two conflict, or one
\* cannot be built.
FewWorlds ==
  QuietWorlds \cup
  {With({OnU({a})}, {}, {}), With({OnU({a, b})}, {}, {}),
   With({}, {<<a, c>>}, {}), With({OnU({c})}, {}, {b})}
NoOne == {}
OnlyA == {a}
=============================================================================
