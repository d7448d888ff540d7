SPECIFICATION Spec
CONSTANTS
  MaxInt = 2
  Texts <- MCTexts
  Ids <- MCIds
  ServerLoc <- MCServerLoc
  ClientLoc <- MCClientLoc
PROPERTIES
  RequestServed
CHECK_DEADLOCK FALSE
