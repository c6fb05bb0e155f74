CONSTANTS
  Launches = {l1, l2}
  None = None
  GiveUp = 2
  MaxRequests = 1
  MaxFaults = 1
SPECIFICATION FairSpec
INVARIANTS
  TypeOK
  TrackedRunsOrReports
  OneBoundToken
PROPERTIES
  PauseOutlastsReconnects
  DesiredComesBack
  StoppedEnds
