SPECIFICATION ASpec
CONSTANTS
  a = a
  b = b
  c = c
  NoChange = NoChange
  Foreign = Foreign
  Group <- TwoGroups
  Pos <- InOrder
  Units <- UnitsOf
  Change = {a, c}
  Below <- Unstacked
  Worlds <- QuietWorlds
  Depth = 1
  Parallel = 2
  MaxFaultWaits = 3
  Apart = FALSE
  MayFault = FALSE
  MayStop = FALSE
  MaxHead = 0
  MaxRuns = 1
  AutoMerges <- NoOne
  MayHold = FALSE
  MayLose = TRUE
  MaxForeign = 1
  MaxEvents = 0
  MaxApplies = 1
PROPERTIES
  StopsOnSurprise
\* Applying is over once everything is settled.
CHECK_DEADLOCK FALSE
