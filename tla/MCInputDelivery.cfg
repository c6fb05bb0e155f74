SPECIFICATION Spec
CONSTANTS
  Browsers = {b1, b2}
  MaxInputs = 2
  MaxConns = 2
  MaxFaults = 1
  OutboxCap = 1
  GateCap = 1
SYMMETRY Swapped
CONSTRAINT FaultsAlone
INVARIANTS TypeOK KeptUntilTaken NothingVanishes
PROPERTIES InOrder ResendsCollapse
CHECK_DEADLOCK FALSE
