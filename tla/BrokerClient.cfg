SPECIFICATION AllSpec
CONSTANTS
  Step = {s1, s2}
  Redialer = Redialer
  NoOne = NoOne
  MaxDeaths = 2
  MayClose = TRUE
  Windows = {}
  Proc = {p1, p2, p3}
  Dialer = {c1}
  NoProc = NoProc
INVARIANTS
  RaceIsWon
PROPERTIES
  RedialedOrStranded
  SeatsComeBack
  KeepsSeat
\* The steps end.
CHECK_DEADLOCK FALSE
