SPECIFICATION Spec
CHECK_DEADLOCK FALSE
CONSTANTS
  Name <- MCName
  Indexes <- MCIndexes
  Chains <- MCChains
  Libraries <- MCLibraries
  SeenMax = 2
  MaxRuns = 2
  MaxChanges = 2
INVARIANTS
  ProvenanceTypeOK
  OneCorpusPerIdentity
PROPERTIES
  CorpusIsVouched
  GoodRunIsComplete
