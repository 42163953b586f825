CONSTANTS
  a = a
  b = b
  Names = {a, b}
  Types <- MCTypes
  MaxDecls = 4
  MaxDepth = 3
SYMMETRY Symmetry
SPECIFICATION Spec
CHECK_DEADLOCK FALSE
INVARIANTS
  UsesReachTheirObject
  NamesAgree
  RefusesOnlyRedeclaration
  JumpsAccepted
  LocalsApart
