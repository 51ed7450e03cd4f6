SPECIFICATION FairSpec
CONSTANTS
  Routes <- MCRoutes
  Waited <- MCWaited
  Talking <- MCTalking
  MaxClicks = 1
  MaxRequests = 2
PROPERTIES
  WaitEnds
CHECK_DEADLOCK FALSE
