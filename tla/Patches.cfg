\* One upload (uploads share neither names nor records), two inode numbers,
\* three calls that fail, two deaths of the process, one file of a user.
CONSTANTS
  Nothing = Nothing
  MaxSession = 2
  MaxEpoch = 5
  MaxPatches = 2
  Patches = {p1, p2}
  Mutations = {m1}
  NoCall = NoCall
  MaxCalls = 2
  MaxStarts = 2
  MaxStops = 1
  Uploads = {u1}
  Inodes = {i1, i2}
  None = None
  MaxFaults = 3
  MaxCrashes = 2
  MaxUser = 1
SPECIFICATION MCSpec
INVARIANTS
  ComposedForGate
  EpochNamesPolicy
  CommittedPolicyInForce
  CandidateCustody
  StopLeavesNothing
  ActiveKept
  NamesIt
PROPERTIES
  CommitsCurrentAssets
  ImplementsAtomic
  EveryCallReturns
  UserDataKept
  NeverForgotten
CHECK_DEADLOCK FALSE
