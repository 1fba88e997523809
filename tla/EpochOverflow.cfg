SPECIFICATION Spec
CONSTANTS
  Processor = Processor
  Controllers = {}
  Worker = Worker
  None = None
  MaxBase = 4
  MaxKey = 3
INVARIANTS
  NeverFourEpochs
