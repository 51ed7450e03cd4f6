SPECIFICATION FairSpec
CONSTANTS
  Routes <- MCRoutes
  Waited <- MCWaited
  Talking <- MCTalking
  MaxClicks = 2
  MaxRequests = 3
INVARIANTS
  PoliteNoCyclicWait
PROPERTIES
  ClicksFifo
  WaitersServed
CHECK_DEADLOCK FALSE
