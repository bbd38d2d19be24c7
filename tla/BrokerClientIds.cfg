SPECIFICATION Spec
CONSTANTS
  Step = {s1, s2, s3}
  Redialer = Redialer
  NoOne = NoOne
  MaxDeaths = 1
  MayClose = FALSE
  Windows = {}
PROPERTIES
  KeepsSeat
\* The steps end.
CHECK_DEADLOCK FALSE
