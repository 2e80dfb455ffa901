SPECIFICATION Spec
CONSTANTS
  Surroundings <- AnyRelay
  MaxStream = 1
  MaxLocal = 3
  MaxServer = 4
  ChannelSize = 2
  MaxAssemblies = 2
  MaxMessageBytes = 3
INVARIANTS
  WireIsFaithful
  AssembliesAreUnmixed
  ErrorsAreOwed
PROPERTIES
  ImplementsStreamDelivery
CHECK_DEADLOCK FALSE
