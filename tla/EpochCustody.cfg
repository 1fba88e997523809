SPECIFICATION MCSpec
CONSTANTS
  Processor = Processor
  Controllers = {api}
  Worker = Worker
  None = None
  MaxBase = 4
  MaxKey = 5
  MaxCount = 3
INVARIANTS
  LateSendAttributed
  ReferencesExact
  RetainedIsCustody
  FinalReportExact
