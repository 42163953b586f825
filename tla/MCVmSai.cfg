CONSTANTS
  Sites <- MCSites
  Family <- MCFamily
  Operands <- MCOperands
  Threshold = 2
  MaxStat = 4
SPECIFICATION Spec
INVARIANTS
  TransparentElsewhere
  Hysteresis
