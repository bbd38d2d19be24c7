SPECIFICATION FairASpec
CONSTANTS
  a = a
  b = b
  c = c
  NoChange = NoChange
  Foreign = Foreign
  Group <- OneGroup
  Pos <- InOrder
  Units <- UnitsOf
  Change = {a, b, c}
  Below <- StackBA
  Worlds <- FewWorlds
  Depth = 2
  Parallel = 1
  MaxFaultWaits = 3
  Apart = FALSE
  MayFault = FALSE
  MayStop = FALSE
  MaxHead = 0
  MaxRuns = 1
  AutoMerges <- OnlyA
  MayHold = TRUE
  MayLose = TRUE
  MaxForeign = 1
  MaxEvents = 1
  MaxApplies = 2
INVARIANTS
  MainStaysGreen
  MergedAsGated
  OneGreen
PROPERTIES
  GreenSettles
\* Applying is over once everything is settled.
CHECK_DEADLOCK FALSE
