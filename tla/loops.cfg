SPECIFICATION FairSpec
CONSTANTS
  x1 = x1
  x2 = x2
  x3 = x3
  x4 = x4
  Calls <- MCCalls
  ListenQueue = 1
  MaxThreads = 2
  Builds = {TRUE, FALSE}
PROPERTIES
  HandlesAsOneStep
  EveryCallAnswered
CHECK_DEADLOCK FALSE
