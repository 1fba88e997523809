SPECIFICATION Spec
CONSTANTS
  None = None
  Clients = {c1, c2}
  MaxSession = 1
  MaxRaw = 2
  Capacity = 1
  MaxRuns = 2
INVARIANTS
  RestartPublishes
CHECK_DEADLOCK FALSE
