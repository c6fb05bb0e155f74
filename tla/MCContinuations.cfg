SPECIFICATION FairSpec
CONSTANTS
  Ids = {c1, c2}
  Overloads = {c2}
  Hubs = {h1}
  MaxChanges = 1
  MaxFaults = 1
INVARIANTS TypeOK InjectedOnce RowTellsTrue
PROPERTY Settles
\* A quiet system stops: nobody has to do anything.
CHECK_DEADLOCK FALSE
