SPECIFICATION Spec
CONSTANTS
  r1 = r1
  r2 = r2
  r3 = r3
  r4 = r4
  r5 = r5
  p1 = p1
  p2 = p2
  p3 = p3
  p4 = p4
  NoRun = "none"
  NoConn = NoConn
  NoParent = NoParent
  NoTree = NoTree
  Wrapper = {}
  Invocation = {"a", "b", "g", "g1", "g2"}
  Request <- FiveRequests
  Conn <- FourConns
  Claim <- HostClaim
  ReqConn <- HostConn
  Kind <- AllPark
  Parent <- HostParent
  Gate = {p2}
  Tree <- NoTrees
  PidRun <- RunsByPid
  BudgetSlots = 2
  BudgetMB = 0
  MaxValidations = 1
  MaxOvertakes = 1
  DefaultWeight = 5
  Stops = {}
  Quits = {p2}
  Cancels = {r2}
INVARIANTS
  NoLostWake
  OvertakenBounded
  HeadKeepsRoom
  GatesLead
PROPERTIES
  ImplementsAdmission
\* Nothing asks twice and nothing stops this broker.
CHECK_DEADLOCK FALSE
