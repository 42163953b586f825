CONSTANTS
  ByteBits <- MCByteBits
  Frame <- MCFrame
  Cells <- MCCells
  Trees <- MCTrees
  Memories <- MCMemories
  Junk <- MCJunk
  Admit = {}
SPECIFICATION Spec
CHECK_DEADLOCK FALSE
INVARIANTS
  ComputesMeaning
  CallsAligned
PROPERTIES
  Finishes
