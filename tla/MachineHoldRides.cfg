SPECIFICATION Spec
CONSTANTS
  Wait = {d1, d2}
  Own = Own
  NoClaim = NoClaim
  Refuses = {}
INVARIANTS
  TypeOK
  RidesAClaim
\* The step ends.
CHECK_DEADLOCK FALSE
