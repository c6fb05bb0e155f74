SPECIFICATION FairSpec
CONSTANTS
  N = 2
  MaxFrames = 2
  MaxRequests = 1
  MaxFaults = 1
\* A quiet session whose users' requests are used up has nothing left to do.
CHECK_DEADLOCK FALSE
INVARIANTS
  TypeOK
  BackendSendsOnce
PROPERTIES
  FinishedStays
  StackFollows
