SPECIFICATION Spec
CONSTANTS
  Proc = {p1, p2}
  Client = {c1}
  NoProc = NoProc
  MayGo = FALSE
  Overlap = TRUE
INVARIANTS
  BindIsTheLock
\* Every process may be done.
CHECK_DEADLOCK FALSE
