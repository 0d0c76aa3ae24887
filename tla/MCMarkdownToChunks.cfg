SPECIFICATION DocumentSpec
CONSTANTS
  Documents <- MCOutlines
  Inputs <- MCInputs
  Levels = 3
  BlockMax = 5
  MaxCombined = 7
  PathMax = 3
CHECK_DEADLOCK FALSE
INVARIANTS
  ParentIsEnclosing
  LinesAccounted
  CodeIsVerbatim
  NothingLost
  ChunksAreCoherent
  ChunksAreTight
  ParserOutputIsAccepted
  HeadingPathIsOutline
  SourceIsCovered
PROPERTY
  EveryDocumentEnds
