CONSTANTS
  MaxObj = 3
  MinThreshold = 2
  MaxBytes = 4
  Shapes <- MCShapes
SPECIFICATION MCSpec
INVARIANTS
  ClosureKept
