SPECIFICATION Spec
CHECK_DEADLOCK FALSE
CONSTANTS
  Module <- MCModule
  Legible <- MCLegible
  Binary <- MCBinary
  Report <- MCReport
  RegistryMax = 3
  AuditMax = 18
  MinTests = 10
  ApiMajor = 1
  ApiMinor = 2
  InventoryMax = 2
  PathMax = 16
  LevelMax = 6
  DirSize = 4
  Files <- MCFiles
  MaxRuns = 1
INVARIANTS
  ExecutionOrder
  ActiveIsOnInventory
  OnlySoundFilesAreAccepted
PROPERTIES
  EveryRunEnds
