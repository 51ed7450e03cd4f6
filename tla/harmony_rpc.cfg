SPECIFICATION FairSpec
CONSTANTS
  MaxCalls = 2
  MaxMenu = 2
  MaxLaunches = 2
  MaxTries = 2
  CallLens <- MCCallLens
  EchoLen = 3
  HeaderLen = 1
INVARIANTS
  OneCopyPerCall
  OrderlyReply
  ReceiverSurvivesFirstLaunch
PROPERTIES
  MenuRequestsFifo
  MenuServed
CHECK_DEADLOCK FALSE
