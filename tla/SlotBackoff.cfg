SPECIFICATION Spec
CONSTANTS
  Clients = {"c1", "c2"}
  NoClient = "none"
  Base = 1
  MaxDelay = 6
  Second = 4
  MaxTime = 18
  MaxFailures = 4
CHECK_DEADLOCK FALSE
INVARIANTS
  AttemptsSpaced
PROPERTIES
  RetryAfterIsEnough
