SPECIFICATION FairSpec
CONSTANTS
  Processor = Processor
  Controllers = {api}
  Worker = Worker
  LeaseA = LeaseA
  LeaseB = LeaseB
  Leases <- MCLeases
  NoLease = NoLease
  Policies <- MCPolicies
  None = None
  MaxBase = 2
  MaxTime = 1
INVARIANTS
  WireMatchesPolicy
  WireProofFresh
PROPERTIES
  OvertakenStaysOff
  ImplementsGate
  StopReleasesAll
