SPECIFICATION Spec
CONSTANTS
  c1 = c1
  c2 = c2
  s1 = s1
  s2 = s2
  opA = opA
  opB = opB
  broker = broker
  Clients <- MCClients
  Servers <- MCServers
  Ops <- MCOps
  Services <- MCServices
  Program <- DistinctPrograms
  Rand <- MCRand
  MaxCalls = 2
  MaxRuns = 1
  TimedWaits <- Everybody
  Killable <- Everybody
  Restartable <- Nobody
INVARIANTS
  TypeOK
  RoutedToRequester
  CallAtOnePlace
  ResponseMatched
  AnsweredIsForgotten
  AckBeforeRequest
  SentFromFrame
PROPERTIES
  PromiseKept
CHECK_DEADLOCK FALSE
