SPECIFICATION Spec
CONSTANTS
  MaxLen = 3
  MaxTruncations = 1
  MaxWriteFailures = 0
PROPERTIES
  TruncatedLogStreamedFromStart
CHECK_DEADLOCK FALSE
