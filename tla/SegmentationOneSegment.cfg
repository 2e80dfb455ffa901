SPECIFICATION Spec
CONSTANTS
  Target = 40
  MaxFrame = 60
  MaxMessage = 120
  SegmentFields = 2
  Lengths <- MCLengths
  Metadata <- MCMetadata
INVARIANT AlwaysReceivable
CHECK_DEADLOCK FALSE
