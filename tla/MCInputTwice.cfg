SPECIFICATION Spec
CONSTANTS
  Browsers = {b1}
  MaxInputs = 1
  MaxConns = 2
  MaxFaults = 0
  OutboxCap = 1
  GateCap = 2
PROPERTIES NeverTwice
CHECK_DEADLOCK FALSE
