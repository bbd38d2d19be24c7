SPECIFICATION Spec
CONSTANTS
  d1 = d1
  d2 = d2
  d3 = d3
  d4 = d4
  Dependent <- FourDependents
  NoEntry = NoEntry
  World <- StoppedCommand
PROPERTIES
  ReapedUnheld
\* Every dependent has come and gone.
CHECK_DEADLOCK FALSE
