SPECIFICATION Spec
CONSTANTS
  Task = {a, b, d, e}
  NoTask = NoTask
  NoKey = NoKey
  a = a
  b = b
  c = c
  d = d
  e = e
  k = k
  Cap = 2
  Weight <- Light
  Parent <- One
  Key <- LockedAD
  Reserve <- ReserveE
PROPERTIES
  QueuedAnswered
\* The tasks end.
CHECK_DEADLOCK FALSE
