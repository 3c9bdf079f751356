\* A program that has ended for good stays so: not a deadlock.
SPECIFICATION ClientSpec
CHECK_DEADLOCK FALSE
CONSTANTS
  Lines = {"toggle"}
  Keys = {"nudge"}
  MaxCommands = 2
  MaxSessions = 2
  MaxMessages = 2
INVARIANTS
  ClientInv
  ActiveWhileUsable
  FreedOnlyAtExit
PROPERTIES
  ImplementsOperator
  EndsWhenCutOff
