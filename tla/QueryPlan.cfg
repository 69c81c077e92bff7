SPECIFICATION Spec
CONSTANTS
  PageSpace = 5
  SlotSize = 1
  NoRecord = none
  short = short
  long = long
  Key = {1, 2}
  Text <- MCText
  Null = null
  Size <- MCSize
  KeyUnique = FALSE
  KeyNullable = TRUE
  TextUnique = FALSE
  IoErrors = TRUE
  CatalogRoom = 3
  MaxPages = 2
  MaxIndexes = 1
  MaxHeight = 1
  Rank <- MCRank
  Wheres <- MCWheres
  Anything = anything
  Failure = failure
INVARIANT SelectAnswers
CHECK_DEADLOCK FALSE
