SPECIFICATION Spec
CONSTANTS
  MaxInt = 2
  Texts <- MCTexts
  Ids <- MCIds
  ServerLoc <- MCServerLoc
  ClientLoc <- MCClientLoc
INVARIANTS
  SetBeforeUse
  RegistrationUnderstood
  ResponseAwaited
  ServerSurvives
PROPERTIES
  BehavesLocally
  CallReturns
CHECK_DEADLOCK FALSE
