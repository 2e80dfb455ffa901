SPECIFICATION Spec
CONSTANTS
  Procs = {p1, p2}
  Commands = {"tui", "broker", "install", "rollback", "enable", "disable"}
  Catalogs <- MixedCatalogs
  MaxVersion = 3
  MaxDay = 2
  MaxStarts = 5
INVARIANTS
  OneCheckADay
  OnlyFittingInstalled
PROPERTIES
  RollbackSticks
  ReplacedBetweenSessions
  ReplacedIsBackedUp
SYMMETRY ProcSymmetry
CHECK_DEADLOCK FALSE
