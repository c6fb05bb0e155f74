SPECIFICATION Spec
CONSTANTS
  Browsers = {b1, b2}
  MaxInputs = 2
  MaxConns = 2
  MaxFaults = 1
  OutboxCap = 1
  GateCap = 2
INVARIANTS KeptThoughOvertaken
CHECK_DEADLOCK FALSE
