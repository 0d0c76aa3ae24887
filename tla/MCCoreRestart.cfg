SPECIFICATION Spec
CHECK_DEADLOCK FALSE
CONSTANTS
  Module <- MCRestartModule
  Legible <- MCLegible
  Binary <- MCRestartBinary
  Report <- MCReport
  RegistryMax = 2
  AuditMax = 11
  MinTests = 10
  ApiMajor = 1
  ApiMinor = 2
  InventoryMax = 2
  PathMax = 16
  LevelMax = 6
  DirSize = 4
  Files <- MCRestartFiles
  MaxRuns = 3
INVARIANTS
  ExecutedWasBenched
  UnchangedNotRebenched
  SuccessIsComplete
