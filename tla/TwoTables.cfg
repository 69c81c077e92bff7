SPECIFICATION TwinSpec
CONSTANTS
  PageSpace = 5
  SlotSize = 1
  NoRecord = none
  short = short
  long = long
  Key = {1, 2}
  Text <- MCText
  Null = null
  Size <- MCSize
  KeyUnique = TRUE
  KeyNullable = TRUE
  TextUnique = TRUE
  IoErrors = FALSE
  CatalogRoom = 4
  MaxPages = 3
  MaxIndexes = 2
  MaxHeight = 2
INVARIANTS
  SameRows
  IndexesMatchHeap
  TextsUnique
CHECK_DEADLOCK FALSE
