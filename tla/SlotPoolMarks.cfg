SPECIFICATION Spec
CONSTANTS
  Task = {a, b, c, d, e}
  NoTask = NoTask
  NoKey = NoKey
  a = a
  b = b
  c = c
  d = d
  e = e
  k = k
  Cap = 1
  Weight <- Light
  Parent <- Fan
  Key <- Unlocked
  Reserve <- Plainly
PROPERTIES
  VerdictIsTrue
\* The tasks end.
CHECK_DEADLOCK FALSE
