SPECIFICATION Spec
CONSTANTS
  NumCases = 3
  Concurrency = 2
  Keep = "failures"
  CaseDir <- SharedDirs
  PortLimit = 23000
INVARIANT KeptArtifactsExist
CHECK_DEADLOCK FALSE
