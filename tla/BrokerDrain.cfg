SPECIFICATION FairSpec
CONSTANTS
  r1 = r1
  r2 = r2
  r3 = r3
  r4 = r4
  r5 = r5
  p1 = p1
  p2 = p2
  p3 = p3
  p4 = p4
  NoRun = "none"
  NoConn = NoConn
  NoParent = NoParent
  NoTree = NoTree
  Wrapper = {}
  Invocation = {"a", "b", "c"}
  Request <- ThreeRequests
  Conn <- ThreeConns
  Claim <- DrainClaim
  ReqConn <- DrainConn
  Kind <- DrainKind
  Parent <- NoParents
  Gate = {}
  Tree <- NoTrees
  PidRun <- RunsByPid
  BudgetSlots = 2
  BudgetMB = 0
  MaxValidations = 1
  MaxOvertakes = 1
  DefaultWeight = 5
  Stops = {"drain", "stop"}
  Quits = {p1}
  Cancels = {r2}
INVARIANTS
  Accounted
  StrandsNobody
PROPERTIES
  DrainSeatsNothing
  ParkedAnswered
  DrainEnds
\* Nothing asks twice, and a broker nobody stops keeps serving.
CHECK_DEADLOCK FALSE
