SPECIFICATION Spec
CONSTANTS
  BuilderGrace = 1
  HarnessGrace = 2
  MaxSignals = 3
INVARIANTS
  TypeOK
  SuccessIsOwnExit
  NoQemuLeftBehind
  EndsAfterQemu
PROPERTIES
  SignalEndsBuilder
CHECK_DEADLOCK FALSE
