SPECIFICATION Spec
CONSTANTS
  BuilderGrace = 1
  HarnessGrace = 2
  MaxSignals = 0
PROPERTIES
  OtherFileKept
CHECK_DEADLOCK FALSE
