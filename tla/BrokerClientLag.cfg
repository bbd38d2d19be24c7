SPECIFICATION Spec
CONSTANTS
  Step = {s1, s2}
  Redialer = Redialer
  NoOne = NoOne
  MaxDeaths = 1
  MayClose = FALSE
  Windows = {"lag", "record"}
INVARIANTS
  RemoteTrue
PROPERTIES
  KnownFirst
\* The steps end.
CHECK_DEADLOCK FALSE
