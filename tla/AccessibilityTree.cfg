SPECIFICATION FairSpec
CONSTANTS
  MaxNodes = 5
  MaxDepth = 3
CHECK_DEADLOCK FALSE
INVARIANTS
  VerdictIsRight
PROPERTIES
  ValidationEnds
