SPECIFICATION MCSpec
CONSTANTS
  Processor = Processor
  Controllers = {api}
  Worker = Worker
  LeaseA = LeaseA
  LeaseB = LeaseB
  Leases <- MCLeases
  NoLease = NoLease
  Policies <- MCOneRenderer
  None = None
  MaxBase = 3
  MaxTime = 1
  Parts = {left, right}
  NoFrame = NoFrame
  MaxFrames = 3
  MaxWriters = 2
  MaxAttempts = 2
INVARIANTS
  CustodyExact
  HeldIsWhole
PROPERTIES
  ImplementsHandoff
  ClosedShowsPlaceholder
