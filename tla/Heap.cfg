CONSTANTS
  Var = {x, y}
  Address = {1, 2, 3, 4, 5, 6}
  MaxLiteral = 1
  MaxElements = 2
  MaxValueDepth = 2
  HeapLimit = 320
  MaxFrames = 1
  MaxSteps = 5
SPECIFICATION Spec
INVARIANTS LiveIsExact DepthsAreTrue
PROPERTY ValuesAreSeparate
CHECK_DEADLOCK FALSE
SYMMETRY Names
