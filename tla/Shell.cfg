SPECIFICATION Spec
CONSTANTS
  Letters <- MCLetters
  Digits <- MCDigits
  Spaces <- MCSpaces
  Zeros = {"0"}
  Huge = {"huge"}
  NewLine = "newline"
  Pieces <- MCPieces
  Slips <- MCSlips
  Quoted <- MCQuoted
  Weight <- MCWeight
  MaxWeight = 7
INVARIANTS
  StatementsWhole
  WordsLongest
  ConditionsAsTyped
  ListsAsTyped
CHECK_DEADLOCK FALSE
