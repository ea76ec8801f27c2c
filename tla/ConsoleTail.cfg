SPECIFICATION Spec
CONSTANTS
  MaxLen = 3
  MaxTruncations = 1
  MaxWriteFailures = 1
INVARIANTS
  TypeOK
  StreamedInOrder
  NothingSkipped
  StoppedStreamIsComplete
  ZeroWarningIsTrue
PROPERTIES
  StopReturns
CHECK_DEADLOCK FALSE
