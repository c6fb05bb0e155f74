SPECIFICATION FairSpec
CONSTANTS
  Browsers = {b1}
  MaxInputs = 1
  MaxConns = 2
  MaxFaults = 2
  OutboxCap = 1
  GateCap = 1
PROPERTIES EventuallyResolved
CHECK_DEADLOCK FALSE
