SPECIFICATION AdmissionSpec
CONSTANTS
  rootA = rootA
  rootB = rootB
  fanA1 = fanA1
  fanA2 = fanA2
  deepA = deepA
  childB = childB
  exec = exec
  inExec = inExec
  stranger = stranger
  huge = huge
  NoParent = NoParent
  NoRun = "none"
  Wrapper = {"wrap"}
  Unasked = {exec}
  BudgetSlots = 4
  BudgetMB = 6
  Request <- MCRequest
  Invocation <- MCInvocation
  Claim <- MCClaim
  Parent <- MCParent
INVARIANTS
  RegularLeavesFit
  OneFreeSeatPerAncestor
  NeverWedged
\* Every request is over in the end: nothing asks twice.
CHECK_DEADLOCK FALSE
