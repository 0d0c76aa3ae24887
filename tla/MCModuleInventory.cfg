SPECIFICATION Spec
CONSTANTS
  Module <- MCModule
  Legible <- MCLegible
  Binary <- MCBinary
  Report <- MCReport
  MinTests = 10
  InventoryMax = 2
INVARIANTS
  Durable
  VouchesForStored
  OneRecordPerId
