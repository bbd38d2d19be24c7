SPECIFICATION Spec
CONSTANTS
  Proc = {p1, p2}
  Client = {c1}
  NoProc = NoProc
  MayGo = TRUE
  Overlap = FALSE
INVARIANTS
  HandshakeHolds
\* Every process may be done.
CHECK_DEADLOCK FALSE
