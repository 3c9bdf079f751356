\* A stopped server and a client that has ended stay so: not a deadlock.
SPECIFICATION LinkSpec
CHECK_DEADLOCK FALSE
CONSTANTS
  Lines = {"drive", "stop", "query", "toggle"}
  Keys = {"nudge", "stop", "toggle"}
  MaxCommands = 4
  MaxSessions = 2
  RingPackets = 3
  MaxEvents = 3
  MaxInputs = 6
INVARIANTS
  LinkTypeOK
  ModesAgree
  PatientOperatorLosesNothing
  LastWordHolds
  ColoursAreRecognised
  ForgetsAtMostAStep
PROPERTIES
  StrandedStaysStranded
  GreetingIsHeard
  StopIsObeyed
