--------------------------- MODULE MCInterruptLine ---------------------------
EXTENDS InterruptLine

MCGuestWrites ==
  { [reg |-> "IE", mask |-> Interrupts, val |-> Interrupts],
    [reg |-> "IME", mask |-> {"ON"}, val |-> {"ON"}],
    [reg |-> "DISPSTAT", mask |-> Status \cup IrqEnables,
     val |-> IrqEnables \cup {"VBLANK"}],
    [reg |-> "DISPSTAT", mask |-> {}, val |-> {}] }
=============================================================================
