SPECIFICATION Spec
CONSTANTS
  Base = 4
  SizeWidth = 1
  WordWidth = 2
  PageSize = 20
  Deleted = Deleted
  MaxSlots = 3
  Rows <- MCRows
INVARIANTS
  LoadsAgain
  RowsReadBack
  WrongLengthNoticed
PROPERTY ImplementsRecordPage
CHECK_DEADLOCK FALSE
