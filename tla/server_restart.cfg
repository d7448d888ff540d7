SPECIFICATION Spec
CONSTANTS
  c1 = c1
  c2 = c2
  s1 = s1
  s2 = s2
  opA = opA
  opB = opB
  broker = broker
  Clients <- MCClients
  Servers <- MCServers
  Ops <- MCOps
  Services <- MCServices
  Program <- ShortPrograms
  Rand <- MCRand
  MaxCalls = 2
  MaxRuns = 2
  TimedWaits <- Nobody
  Killable <- BrokerAndFirst
  Restartable <- BrokerAndFirst
INVARIANTS
  RequestAtProvider
  CallAtOnePlace
  BacklogBound
PROPERTIES
  PromiseKept
CHECK_DEADLOCK FALSE
