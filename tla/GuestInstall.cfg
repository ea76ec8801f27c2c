SPECIFICATION GuestSpec
CONSTANTS
  Debs <- MCDebs
  Arch <- MCArch
  Depends <- MCDepends
  MaxSignals = 2
  StorageConfigs <- MCStorageConfigs
  BootLines <- MCBootLines
  GrubEdits <- MCGrubEdits
INVARIANTS
  TypeOK
  OfflineInstallFindsAll
  ScriptEndsHonestly
  InstallerAsksNobody
  TemplateIsClean
  UEFIImageIsPortable
  
CHECK_DEADLOCK FALSE
