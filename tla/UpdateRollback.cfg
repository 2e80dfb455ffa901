SPECIFICATION Spec
CONSTANTS
  Procs = {p1, p2}
  Commands = {"install"}
  Catalogs <- GoodCatalog
  MaxVersion = 2
  MaxDay = 1
  MaxStarts = 2
INVARIANT RollbackGoesBack
SYMMETRY ProcSymmetry
CHECK_DEADLOCK FALSE
