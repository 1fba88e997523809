SPECIFICATION FairSpec
CONSTANTS
  None = None
  Clients = {c1, c2}
  MaxSession = 2
  MaxRaw = 2
  Capacity = 1
  MaxRuns = 2
INVARIANTS
  AnswersOwnRaw
  LeaseBoundary
  PolicyFollowsLease
  HolderSentItsOwn
PROPERTIES
  RawMovesOn
CHECK_DEADLOCK FALSE
