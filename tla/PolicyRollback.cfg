SPECIFICATION Spec
CONSTANTS
  Nothing = Nothing
  MaxSession = 2
  MaxEpoch = 5
  MaxPatches = 2
CHECK_DEADLOCK FALSE
INVARIANTS
  FailedPatchKeepsPolicy
