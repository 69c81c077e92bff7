SPECIFICATION Spec
CONSTANTS
  PageSpace = 4
  SlotSize = 1
  NoRecord = none
  MaxPages = 3
  short = short
  other = other
  long = long
  Row = {short, other, long}
  Size <- MCSize
INVARIANTS
  TypeOK
  PagesReadable
PROPERTIES
  ScanOrderStable
  RowStoreSpec
CHECK_DEADLOCK FALSE
