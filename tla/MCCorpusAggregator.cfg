SPECIFICATION Spec
CHECK_DEADLOCK FALSE
CONSTANTS
  Indexes <- MCIndexes
  Chains <- MCChains
  Collections <- MCCollections
  MaxIndex = 3
  MaxCorpora = 3
  MaxBuilds = 3
INVARIANTS
  OutputIsWhole
  CurrentIsNewest
PROPERTIES
  OutputIsAuthoritative
  FailureKeepsOutput
  UnchangedNotRewritten
