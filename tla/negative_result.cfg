SPECIFICATION Spec
CONSTANTS
  MaxInt = 2
  Texts <- MCTexts
  Ids <- MCIds
  ServerLoc <- MCServerLoc
  ClientLoc <- MCClientLoc
PROPERTIES
  IntegerReturned
CHECK_DEADLOCK FALSE
