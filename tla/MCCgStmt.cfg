CONSTANTS
  Vals <- MCVals
  Programs <- All
  Admit = {}
SPECIFICATION Spec
CHECK_DEADLOCK FALSE
INVARIANTS
  InStep
  JumpsStay
PROPERTIES
  KeepsPace
