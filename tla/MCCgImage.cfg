CONSTANTS
  x = x
  y = y
  f = f
  g = g
  Vars <- MCVars
  Funcs <- MCFuncs
  Types <- MCTypes
  MaxDecls = 3
  MaxInner = 2
  MaxRelocs = 2
SYMMETRY Symmetry
SPECIFICATION Spec
CHECK_DEADLOCK FALSE
INVARIANTS
  FileReferencesResolve
  MemoryReferencesResolve
  StorageApart
