SPECIFICATION Spec
CONSTANTS
  MaxInt = 15
  GiB = 4
  SmallDisk = 1
  Values <- MCValues
  Multipliers <- MCMultipliers
  ISOSizes <- MCISOSizes
  Storages <- MCStorages
INVARIANTS
  AcceptedBuildFits
  RefusedForCause
CHECK_DEADLOCK FALSE
