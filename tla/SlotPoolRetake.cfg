SPECIFICATION Spec
CONSTANTS
  Task = {a, b, d}
  NoTask = NoTask
  NoKey = NoKey
  a = a
  b = b
  c = c
  d = d
  e = e
  k = k
  Cap = 1
  Weight <- Light
  Parent <- One
  Key <- LockedAD
  Reserve <- Plainly
INVARIANTS
  TypeOK
PROPERTIES
  RetakesEnd
\* The tasks end.
CHECK_DEADLOCK FALSE
