SPECIFICATION ASpec
CONSTANTS
  a = a
  b = b
  c = c
  NoChange = NoChange
  Foreign = Foreign
  Group <- OneGroup
  Pos <- InOrder
  Units <- UnitsOf
  Change = {a, b, c}
  Below <- Unstacked
  Worlds <- QuietWorlds
  Depth = 1
  Parallel = 2
  MaxFaultWaits = 3
  Apart = TRUE
  MayFault = FALSE
  MayStop = TRUE
  MaxHead = 0
  MaxRuns = 1
  AutoMerges <- NoOne
  MayHold = FALSE
  MayLose = FALSE
  MaxForeign = 0
  MaxEvents = 0
  MaxApplies = 1
INVARIANTS
  MergedAsGated
\* Applying is over once everything is settled.
CHECK_DEADLOCK FALSE
