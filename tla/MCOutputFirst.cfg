SPECIFICATION Spec
CONSTANTS
  MaxOutputs = 3
  MaxConns = 3
  MaxFaults = 1
  BufferCap = 2
  MaxReplayFailures = 1
INVARIANTS FirstOutputHeld
CHECK_DEADLOCK FALSE
