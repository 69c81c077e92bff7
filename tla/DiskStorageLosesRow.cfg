SPECIFICATION Spec
CONSTANTS
  PageSpace = 4
  SlotSize = 1
  NoRecord = none
  short = short
  long = long
  Key = {1, 2}
  Text <- MCText
  Null = null
  Size <- MCSize
  KeyUnique = FALSE
  KeyNullable = TRUE
  TextUnique = FALSE
  IoErrors = FALSE
  CatalogRoom = 4
  MaxPages = 3
  MaxIndexes = 1
  MaxHeight = 2
PROPERTY UpdateKeepsRows
CHECK_DEADLOCK FALSE
