CONSTANTS
  NInt = 2
  NFlt = 2
  ArgTypes <- MCTypes
  Signatures <- MCSignatures
  Locals <- MCLocals
  Admit = {}
SPECIFICATION CallSpec
CHECK_DEADLOCK FALSE
INVARIANTS
  ParamsArrive
  FrameHolds
