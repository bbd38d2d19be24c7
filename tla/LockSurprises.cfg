SPECIFICATION FairSpec
CONSTANTS
  i1 = i1
  i2 = i2
  i3 = i3
  i4 = i4
  p1 = p1
  p2 = p2
  p3 = p3
  p4 = p4
  NoInv = NoInv
  Prober = Prober
  Inv <- FourInvs
  Project = {1, 2, 3}
  Plans <- SurprisingPlans
INVARIANTS
  TypeOK
PROPERTIES
  QueuesPastBound
  RequestKept
  RefusedByStranger
  ReentryTrue
  Settles
\* Every invocation has ended.
CHECK_DEADLOCK FALSE
