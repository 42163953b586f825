CONSTANTS
  MaxObj = 3
  MinThreshold = 1
  MaxBytes = 4
  Shapes <- MCShapes
SPECIFICATION Spec
INVARIANTS
  TypeOK
  NoDangling
  TriColor
  SweepReadsLiveFunc
  MarksReset
  RefundsCovered
PROPERTIES
  CollectionEnds
  ImplementsAbstract
