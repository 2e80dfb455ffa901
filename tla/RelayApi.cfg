SPECIFICATION FairSpec
CONSTANTS
  Procs = {p1, p2}
  MaxIssued = 3
  MaxCalls = 2
  MaxRetries = 1
INVARIANTS
  AnswersItsSnapshot
PROPERTIES
  RefusedOnlyForWantOfAnother
  AbandonsIfChangedInFlight
  EveryCallEnds
CHECK_DEADLOCK FALSE
