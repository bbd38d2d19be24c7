SPECIFICATION FairSpec
CONSTANTS
  d1 = d1
  d2 = d2
  d3 = d3
  d4 = d4
  Dependent <- ThreeDependents
  NoEntry = NoEntry
  World <- AllWorlds
INVARIANTS
  StoppedOnce
  NoneOrphaned
  StopsNothingInUse
PROPERTIES
  Answered
  EndsStopped
\* Every dependent has come and gone.
CHECK_DEADLOCK FALSE
