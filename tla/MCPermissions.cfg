SPECIFICATION FairSpec
CONSTANTS
  Messages = {1, 2}
  MaxConns = 2
  MaxFaults = 1
  MaxReloads = 1
INVARIANTS TypeOK EntryHasHandler
PROPERTIES RegistrySpec LiveKeepsEntry LiveShownActive LetGoForCause PromptsResolve RowsClear
\* A quiet system may stop: the agent is owed no prompt once it asked all it asks,
\* and the faults are bounded.
CHECK_DEADLOCK FALSE
