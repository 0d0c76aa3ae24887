SPECIFICATION Spec
CHECK_DEADLOCK FALSE
CONSTANTS
  Indexes <- MCIndexes
  Chains <- MCChains
  Collections <- MCCollections
  MaxIndex = 3
  MaxCorpora = 3
  MaxBuilds = 1
INVARIANTS
  ConflictsFailClosed
