CONSTANTS
  Contents <- MCContents
  Hash <- MCHash
  InitCap = 2
  MaxStr = 4
SPECIFICATION Spec
CHECK_DEADLOCK FALSE
INVARIANTS
  ProbesEnd
  Findable
  OnePerContent
