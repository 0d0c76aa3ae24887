SPECIFICATION Spec
CONSTANTS
  Name = {1, 2, 3}
  Kb = 3
  Libraries <- MCLibraries
  Authorities <- MCAuthorities
  Selections <- MCSelections
  SeenMax = 1
  MaxCorpora = 2
  MaxIndex = 2
  MaxRuns = 3
  MaxChanges = 2
CHECK_DEADLOCK FALSE
PROPERTY
  NamesAreNotAuthoritative
