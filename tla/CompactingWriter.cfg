SPECIFICATION Spec
CONSTANTS
  MaxLen = 5
  MaxFailures = 1
INVARIANTS
  OutputIsRendering
  NoEmptyRuns
CHECK_DEADLOCK FALSE
