SPECIFICATION AllSpec
CONSTANTS
  Wait = {d1, d2, d3}
  Own = Own
  NoClaim = NoClaim
  Refuses = {d3}
  a = a
  b = b
  c = c
  d = d
  e = e
  f = f
  k = k
  NoTask = NoTask
  NoKey = NoKey
INVARIANTS
  LentIsHandedBack
  SeatsAccounted
  RunsClaimed
PROPERTIES
  AllRun
  QueuedAnswered
\* The tasks end.
CHECK_DEADLOCK FALSE
