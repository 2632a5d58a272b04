SPECIFICATION Spec
CONSTANTS
  VisibleLines = 1
  TotalLines = 3
  HalfBase = 2
  MaxSeq = 3
  GuestWrites <- TurnsOn
  HandlerAcksAll = FALSE
INVARIANT TypeOK
PROPERTY StaleByAtMostOne
