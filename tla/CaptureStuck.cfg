SPECIFICATION FairCapture
CONSTANTS
  MaxGenerations = 2
PROPERTIES
  FailsAtBoundary
CHECK_DEADLOCK FALSE
