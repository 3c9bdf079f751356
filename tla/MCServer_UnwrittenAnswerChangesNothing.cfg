
SPECIFICATION ServerSpec
CHECK_DEADLOCK FALSE
CONSTANTS
  c1 = c1
  c2 = c2
  Conns <- MCConns
  MaxSent = 1
  MaxAnswers = 2
PROPERTIES
  UnwrittenAnswerChangesNothing
