SPECIFICATION Spec
CONSTANTS
  PageSpace = 4
  SlotSize = 1
  NoRecord = none
  text = text
  Key = {1}
  Text <- MCText
  Null = null
  Size <- MCSize
  Inserts <- MCInserts
  MaxPages = 3
INVARIANTS
  TypeOK
  CheckpointKept
  DeletedForGood
PROPERTY StatementsEnd
