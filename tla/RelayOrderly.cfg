SPECIFICATION FairSpec
CONSTANTS
  Surroundings <- Orderly
  MaxStream = 1
  MaxLocal = 2
  MaxServer = 3
  ChannelSize = 1
  MaxAssemblies = 1
  MaxMessageBytes = 2
INVARIANTS
  OrderlyRelayIsEnough
  ErrorsReachTheirRequest
PROPERTIES
  EveryMessageArrives
CHECK_DEADLOCK FALSE
