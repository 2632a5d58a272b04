SPECIFICATION Spec
CONSTANTS
  VisibleLines = 1
  TotalLines = 3
  GuestWrites <- MCGuestWrites
INVARIANT
  VblankOncePerFrame
PROPERTY
  InterruptsArrive
