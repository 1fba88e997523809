SPECIFICATION SpecRing
CONSTANTS
  Parts = {left, right}
  NoFrame = NoFrame
  MaxFrames = 3
  MaxWriters = 2
  MaxAttempts = 2
INVARIANTS
  NeverTorn
