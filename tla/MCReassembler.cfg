SPECIFICATION Spec
CONSTANTS
  Keys = {k1, k2, k3}
  Data = {"text", "noise"}
  Segments <- MCSegments
  Objects <- MCObjects
  MaxSegments = 3
  MaxMessageBytes = 4
  MaxChunk = 2
  MaxAssemblies = 2
SYMMETRY KeySymmetry
INVARIANTS
  CountersAreExact
  Bounded
  HeldAreIncomplete
PROPERTY ChunksAreFinal
