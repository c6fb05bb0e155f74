CONSTANTS
  Launches = {l1, l2}
  None = None
  GiveUp = 2
  MaxRequests = 2
  MaxFaults = 0
SPECIFICATION Spec
INVARIANT
  OneAgent
