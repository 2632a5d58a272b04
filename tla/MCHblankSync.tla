---------------------------- MODULE MCHblankSync ----------------------------
(* Small instances of HblankSync.  Two lines out of three may request.     *)
EXTENDS HblankSync

\* The program turns the display and both interrupts on, in any order, and may
\* write the same values again at any time.
TurnsOn ==
  {[reg |-> "IE", val |-> Interrupts], [reg |-> "IME", val |-> TRUE],
   [reg |-> "DISPCNT", val |-> TRUE], [reg |-> "DISPSTAT", val |-> IrqEnables]}

\* It also ends an HBLANK by writing FAST_EXIT_ADDR.
TurnsOnAndExits == TurnsOn \cup {ExitWrite}
=============================================================================
