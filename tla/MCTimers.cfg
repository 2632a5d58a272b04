SPECIFICATION Spec
CONSTANTS
  TimerCount = 2
  Modulus = 4
  Periods <- TwoPeriods
  Batches = {1, 5}
  Reloads = {0, 2}
  Controls <- SomeControls
  MaxCycles = 6
  MaxWrites = 3
CHECK_DEADLOCK FALSE
INVARIANTS TypeOK CounterExact NoCycleLost CascadeExact ReloadKept
