SPECIFICATION Spec
CONSTANTS
  Target = 40
  MaxFrame = 60
  MaxMessage = 120
  SegmentFields = 2
  Lengths <- MCLengths
  Metadata <- MCMetadata
INVARIANTS
  SegmentsCarryTheMessage
  LongMessagesAreReceivable
PROPERTY EndsWhenThereIsRoom
CHECK_DEADLOCK FALSE
