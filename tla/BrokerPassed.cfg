SPECIFICATION Spec
CONSTANTS
  r1 = r1
  r2 = r2
  r3 = r3
  r4 = r4
  r5 = r5
  p1 = p1
  p2 = p2
  p3 = p3
  p4 = p4
  NoRun = "none"
  NoConn = NoConn
  NoParent = NoParent
  NoTree = NoTree
  Wrapper = {}
  Invocation = {"a", "b", "g"}
  Request <- FourRequests
  Conn <- ThreeConns
  Claim <- PassClaim
  ReqConn <- PassConn
  Kind <- PassKind
  Parent <- NoParents
  Gate = {}
  Tree <- NoTrees
  PidRun <- RunsByPid
  BudgetSlots = 2
  BudgetMB = 0
  MaxValidations = 1
  MaxOvertakes = 1
  DefaultWeight = 5
  Stops = {}
  Quits = {}
  Cancels = {}
PROPERTIES
  NothingPassesStarved
\* Nothing asks twice and nothing stops this broker.
CHECK_DEADLOCK FALSE
