SPECIFICATION HostFairSpec
CONSTANTS
  VisibleLines = 1
  TotalLines = 3
  HalfBase = 2
  MaxSeq = 1
  GuestWrites <- TurnsOn
  HandlerAcksAll = TRUE
PROPERTIES ClockTicks FlagRecovers
