SPECIFICATION FairSpec
CONSTANTS
  Presenters = {p1}
  Buffers = {b1, b2, b3, b4}
  NoBuffer = NoBuffer
  Height = 2
  TotalLines = 3
  MaxFrames = 3
INVARIANTS TypeOK Exclusive Snapshots BoundedBuffers
PROPERTIES ImplementsMailbox EveryFrameSeen
