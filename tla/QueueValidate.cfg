SPECIFICATION AllSpec
CONSTANTS
  a = a
  b = b
  c = c
  NoChange = NoChange
  Change = {a, b, c}
  Group <- OneGroup
  Pos <- InOrder
  Below <- StackBA
  Units <- UnitsOf
  Worlds <- AllWorlds
  Depth = 3
  Parallel = 2
  MaxFaultWaits = 2
  Apart = FALSE
  MayFault = FALSE
  MayStop = TRUE
  MaxHead = 1
  MaxRuns = 1
INVARIANTS
  StackKept
  FaultWaitsBacked
PROPERTIES
  KickIsOwn
  AllDecided
\* A run is over once everything is decided.
CHECK_DEADLOCK FALSE
