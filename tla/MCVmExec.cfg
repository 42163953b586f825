CONSTANTS
  StackMax = 4
  FrameMax = 3
  TryMax = 2
  UpvalMax = 2
  LocalMax = 1
  CaptureInTry = FALSE
  ReturnInTry = FALSE
SPECIFICATION Spec
CHECK_DEADLOCK FALSE
INVARIANTS
  CapturesHold
  OpenListSorted
  CalleeBelowFrame
  HandlersInContext
