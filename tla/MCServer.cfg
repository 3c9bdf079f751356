\* A crashed server and one without clients stop: not a deadlock.
SPECIFICATION ServerSpec
CHECK_DEADLOCK FALSE
CONSTANTS
  c1 = c1
  c2 = c2
  Conns <- MCConns
  MaxSent = 1
  MaxAnswers = 2
INVARIANTS
  ServerTypeOK
  RouteNeverDangles
PROPERTIES
  DeadStaysDead
  ClosedIsFreed
