SPECIFICATION FairSpec
CONSTANTS
  MaxOutputs = 3
  MaxConns = 3
  MaxFaults = 1
  BufferCap = 2
  MaxReplayFailures = 1
INVARIANTS TypeOK HeldUntilStored NumbersUnique
PROPERTIES LogSpec DuplicateTestSound EventuallyStored
CHECK_DEADLOCK FALSE
