SPECIFICATION Spec
CONSTANTS
  PageSpace = 4
  SlotSize = 1
  NoRecord = none
  short = short
  long = long
  Key = {k1, k2}
  Text <- MCText
  Null = null
  Size <- MCSize
  KeyUnique = FALSE
  KeyNullable = TRUE
  TextUnique = FALSE
  IoErrors = TRUE
  CatalogRoom = 4
  MaxPages = 3
  MaxIndexes = 1
  MaxHeight = 1
INVARIANTS
  EntriesSound
  IndexesMatchHeap
  CatalogCurrent
PROPERTY StatementExact
CHECK_DEADLOCK FALSE
SYMMETRY MCSymmetry
