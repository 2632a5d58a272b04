\* A run ends with a frame, an error or the limit: no step follows.
SPECIFICATION Spec
CHECK_DEADLOCK FALSE
CONSTANTS
  HalfBits = 8
  Channels = {0, 3}
  Regions <- MCRegions
  Largest = 2
  LargestLast = 4
  LowRegs = {0, 1}
  Instructions <- MCInstructions
  Prologues <- MCPrologues
  ThumbEntry = 2052
  Rom <- MCRom
  StackTop <- MCStackTop
  VblankLine = 160
  MaxUnits = 4
  MinInstructions = 4
  MaxInstructions = 10
INVARIANT SameAsThumb
INVARIANT DmaMovesBlock
