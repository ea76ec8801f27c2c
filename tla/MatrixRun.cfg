SPECIFICATION RunSpec
CONSTANTS
  NumCases = 3
  Concurrency = 2
  Keep = "failures"
  CaseDir <- DistinctDirs
  PortLimit = 24000
  Harnesses = {us, other}
  Us = us
  NumNames = 2
  NumSources = 2
  Configs <- MCConfigs
  Chunks = 2
  MaxKills = 1
INVARIANTS
  TypeOK
  ExitZeroMeansAllPassed
  PortsNotShared
  KeptArtifactsExist
  CacheHoldsWholeFiles
PROPERTIES
  CasesStartOnTheirISOs
  RunEnds
CHECK_DEADLOCK FALSE
