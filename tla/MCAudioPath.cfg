SPECIFICATION Spec
CONSTANTS
  A = A
  Fifos = {A}
  Destination <- OneForBoth
  FifoCapacity = 5
  Threshold = 1
  WordSize = 2
  BurstWords = 2
  PcmCapacity = 2
  Callbacks = {2}
  Timers = {0, 1, 2}
  Sources = {2, 4}
  RamEnd = 8
  MaxWrites = 4
  MaxOverflows = 3
CHECK_DEADLOCK FALSE
INVARIANTS TypeOK RefillFits PcmAligned FromBuffer InOrder NeverStarves
