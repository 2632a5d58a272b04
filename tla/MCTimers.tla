------------------------------ MODULE MCTimers ------------------------------
\* Two timers with four counter values each, of which the upper may cascade.
EXTENDS Timers

TwoPeriods == <<1, 3>>
SomeControls ==
  {[enabled |-> FALSE, cascade |-> FALSE, scale |-> 1],
   [enabled |-> TRUE, cascade |-> FALSE, scale |-> 1],
   [enabled |-> TRUE, cascade |-> FALSE, scale |-> 2],
   [enabled |-> TRUE, cascade |-> TRUE, scale |-> 1]}
=============================================================================
