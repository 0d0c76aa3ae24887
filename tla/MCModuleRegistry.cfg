SPECIFICATION Spec
CONSTANTS
  Module <- MCModule
  Binary <- MCBinary
  Report <- MCReport
  RegistryMax = 2
  AuditMax = 6
  MinTests = 10
  ApiMajor = 1
  ApiMinor = 2
INVARIANTS
  TypeOK
  StandingIsEarned
  ActiveIsOnRecord
  AuditReplays
PROPERTIES
  RetiredIsFinal
  ErrorGrantsNothing
  ImplementsGovernance
