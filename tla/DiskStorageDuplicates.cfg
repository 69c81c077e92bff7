SPECIFICATION Spec
CONSTANTS
  PageSpace = 7
  SlotSize = 1
  NoRecord = none
  short = short
  long = long
  Key = {1, 2}
  Text <- MCText
  Null = null
  Size <- MCSize
  KeyUnique = FALSE
  KeyNullable = TRUE
  TextUnique = FALSE
  IoErrors = FALSE
  CatalogRoom = 4
  MaxPages = 2
  MaxIndexes = 1
  MaxHeight = 1
INVARIANT IndexesUnique
CHECK_DEADLOCK FALSE
