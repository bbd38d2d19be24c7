SPECIFICATION Spec
CONSTANTS
  Step = {s1, s2}
  Redialer = Redialer
  NoOne = NoOne
  MaxDeaths = 2
  MayClose = FALSE
  Windows = {}
INVARIANTS
  TypeOK
  RemoteTrue
PROPERTIES
  KnownFirst
  Reasserted
\* The steps end.
CHECK_DEADLOCK FALSE
