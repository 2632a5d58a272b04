SPECIFICATION FairWaitSpec
CONSTANTS
  vblank = vblank
  hblank = hblank
  Interrupts = {vblank, hblank}
  Vblank = vblank
INVARIANTS NoFlagLost WaitsForNew MaskRestored
PROPERTY WaitReturns
