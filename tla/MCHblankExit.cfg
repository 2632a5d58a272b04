SPECIFICATION Spec
CONSTANTS
  VisibleLines = 1
  TotalLines = 3
  HalfBase = 2
  MaxSeq = 2
  GuestWrites <- TurnsOnAndExits
  HandlerAcksAll = FALSE
INVARIANT SeqOrder
PROPERTY CompletedMonotone
