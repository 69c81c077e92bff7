SPECIFICATION Spec
CONSTANTS
  N = 5
  Twice = 3
  Key <- MCKey
  RowId <- MCRowId
  Entry <- MCEntry
  MaxKeys = 2
  MaxPages = 7
INVARIANTS
  TypeOK
  Balanced
  ChainAgreesWithTree
  RangeInOrder
PROPERTY KeyMapSpec
CHECK_DEADLOCK FALSE
