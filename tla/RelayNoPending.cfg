SPECIFICATION Spec
CONSTANTS
  Surroundings <- BothRequesting
  MaxStream = 0
  MaxLocal = 3
  MaxServer = 3
  ChannelSize = 1
  MaxAssemblies = 1
  MaxMessageBytes = 2
INVARIANTS
  NoPendingRequestIsTrue
CHECK_DEADLOCK FALSE
