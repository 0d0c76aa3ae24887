SPECIFICATION Spec
CONSTANTS
  Documents <- MCBinary
  Levels = 3
  BlockMax = 5
CHECK_DEADLOCK FALSE
PROPERTY
  MalformedIsRejected
