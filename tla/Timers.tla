------------------------------- MODULE Timers -------------------------------
(***************************************************************************)
(* The four timers of kgba.  The audio clock thread advances them by the   *)
(* cycles that passed and mirrors each counter into the I/O page; the KVM  *)
(* thread serves the guest's writes, first into the same page and then,    *)
(* reading the page again, into the timers.  The timers are under a mutex, *)
(* the page is not: the counter mirror and the guest's reload value share  *)
(* one halfword.                                                           *)
(***************************************************************************)
EXTENDS Integers

CONSTANTS
  TimerCount,     \* four
  Modulus,        \* a counter's values (2^16)
  Periods,        \* the cycles of a tick for each prescaler setting
  Batches,        \* the cycles one call of advance may bring
  Reloads,        \* the reload values the guest writes
  Controls,       \* the control values the guest writes
  MaxCycles,      \* bound: cycles a timer counts since its control was written
  MaxWrites       \* bound: the writes of the guest

TimerIds == 0..(TimerCount - 1)
Halfwords == 0..(Modulus - 1)
ControlType == [enabled: BOOLEAN, cascade: BOOLEAN, scale: DOMAIN Periods]

ASSUME TimerAssumption ==
  /\ TimerCount \in Nat \ {0}
  /\ Modulus \in Nat \ {0, 1}
  /\ \A s \in DOMAIN Periods : Periods[s] \in Nat \ {0}
  /\ Batches \subseteq Nat
  /\ Reloads \subseteq Halfwords
  /\ Controls \subseteq ControlType /\ \E c \in Controls : ~c.enabled
  /\ MaxCycles \in Nat /\ MaxWrites \in Nat

VARIABLES
  timers,    \* Timers: reload, counter, control, accumulated_cycles
  page,      \* the I/O page: per timer the halfwords at +0 and at +2
  kvm,       \* the write the KVM thread is serving
  writes,    \* how many writes the guest has made
  written,   \* history: the reload value the guest wrote last, if it is sure
  past       \* history: what each timer has counted since it was written

vars == <<timers, page, kvm, writes, written, past>>

\* A reload value that the counter's mirror may have overwritten in the page.
Unsure == Modulus

Off == CHOOSE c \in Controls : ~c.enabled
Idle == [pc |-> "idle", timer |-> 0, both |-> FALSE, value |-> 0]

\* A timer's past: the counter it started from, and the ticks and overflows
\* since; and since its control was written: its cycles, ticks, and the
\* overflows of the timer below.
NoPast == [from |-> 0, ticks |-> 0, overflows |-> 0, cycles |-> 0, got |-> 0,
           below |-> 0]

Init ==
  /\ timers = [i \in TimerIds |->
                 [reload |-> 0, counter |-> 0, control |-> Off, acc |-> 0]]
  /\ page = [i \in TimerIds |-> [low |-> 0, control |-> Off]]
  /\ kvm = Idle
  /\ writes = 0
  /\ written = [i \in TimerIds |-> 0]
  /\ past = [i \in TimerIds |-> NoPast]

\* Mutant: the counter of a timer that is off is mirrored as well.
MirrorsOff(i) == i > 0 \/ ~timers[i].control.cascade

\* The timers whose counter advance mirrors into the page.
Mirrors(i) == timers[i].control.enabled /\ (i > 0 \/ ~timers[i].control.cascade)

-----------------------------------------------------------------------------
(* The KVM thread: a write to one timer's registers.                       *)

\* mirror_io_write puts the bytes into the page: a halfword or the whole word.
GuestWrites(i) ==
  /\ kvm.pc = "idle"
  /\ writes < MaxWrites
  /\ writes' = writes + 1
  /\ \/ \E reload \in Reloads, both \in BOOLEAN, control \in Controls :
          /\ both \/ control = page[i].control
          /\ page' = [page EXCEPT ![i] = [low |-> reload, control |-> control]]
          /\ written' = [written EXCEPT ![i] =
                           IF timers[i].control.enabled THEN Unsure ELSE reload]
          /\ kvm' = [Idle EXCEPT !.pc = "read_low", !.timer = i, !.both = both]
     \/ \E control \in Controls :
          /\ page' = [page EXCEPT ![i].control = control]
          /\ kvm' = [Idle EXCEPT !.pc = "write_high", !.timer = i]
          /\ UNCHANGED written
  /\ UNCHANGED <<timers, past>>

\* write_timer_registers_from_io reads the halfword back from the page ...
ReadLow ==
  /\ kvm.pc = "read_low"
  /\ kvm' = [kvm EXCEPT !.pc = "write_low", !.value = page[kvm.timer].low]
  /\ UNCHANGED <<timers, page, writes, written, past>>

\* ... and write_register, under the lock, takes it for the reload value.
WriteLow ==
  /\ kvm.pc = "write_low"
  /\ timers' = [timers EXCEPT ![kvm.timer].reload = kvm.value]
  /\ past' = [past EXCEPT ![kvm.timer].from = timers[kvm.timer].counter,
                          ![kvm.timer].ticks = 0, ![kvm.timer].overflows = 0]
  /\ kvm' = IF kvm.both THEN [kvm EXCEPT !.pc = "write_high", !.value = 0]
            ELSE Idle
  /\ UNCHANGED <<page, writes, written>>

\* The control halfword: the accumulated cycles go, and a timer that becomes
\* enabled starts from its reload value, which is mirrored.
WriteHigh ==
  /\ kvm.pc = "write_high"
  /\ LET i == kvm.timer
         control == page[i].control
         starts == control.enabled /\ ~timers[i].control.enabled
         counter == IF starts THEN timers[i].reload ELSE timers[i].counter
     IN  /\ timers' = [timers EXCEPT ![i].control = control, ![i].acc = 0,
                                     ![i].counter = counter]
         /\ page' = IF starts THEN [page EXCEPT ![i].low = counter] ELSE page
         /\ past' = [past EXCEPT ![i] = [NoPast EXCEPT !.from = counter]]
  /\ kvm' = Idle
  /\ UNCHANGED <<writes, written>>

-----------------------------------------------------------------------------
(* The audio clock thread.                                                 *)

\* A tick: a counter that overflows starts from the reload value.
Tick(reload, state) ==
  IF state.counter + 1 = Modulus
  THEN [counter |-> reload, overflows |-> state.overflows + 1]
  ELSE [state EXCEPT !.counter = @ + 1]

\* Mutant: an overflow starts again from zero.
AddTicksFromZero(timer, ticks) ==
  LET after[n \in 0..ticks] ==
        IF n = 0 THEN [counter |-> timer.counter, overflows |-> 0]
        ELSE Tick(0, after[n - 1])
  IN  after[ticks]

\* Mutant: the counter is never reloaded.
AddTicksNoReload(timer, ticks) ==
  [counter |-> timer.counter + ticks, overflows |-> 0]

\* add_ticks: tick by tick.
AddTicks(timer, ticks) ==
  LET after[n \in 0..ticks] ==
        IF n = 0 THEN [counter |-> timer.counter, overflows |-> 0]
        ELSE Tick(timer.reload, after[n - 1])
  IN  after[ticks]

Period(timer) == Periods[timer.control.scale]
Counts(timer) == timer.control.enabled /\ ~timer.control.cascade

\* Mutant: a cascading timer counts the cycles as well.
TicksCascadeToo(timer, i, cycles, overflows) ==
  IF ~timer.control.enabled THEN 0
  ELSE IF timer.control.cascade
       THEN (IF i = 0 THEN 0 ELSE overflows) + cycles
       ELSE (timer.acc + cycles) \div Period(timer)

\* The ticks a timer gets: from the cycles, or from the overflows of the timer
\* below if it cascades (timer 0 then gets none).
Ticks(timer, i, cycles, overflows) ==
  IF Counts(timer) THEN (timer.acc + cycles) \div Period(timer)
  ELSE IF timer.control.enabled /\ i > 0 THEN overflows
  ELSE 0

\* Mutant: the cycles that make no whole tick are dropped.
LeftoverDropped(timer, cycles) == 0

\* The cycles that make no whole tick are kept.
Leftover(timer, cycles) ==
  IF Counts(timer) THEN (timer.acc + cycles) % Period(timer) ELSE timer.acc

\* What one timer does, given the overflows of the timer below.
StepOf(i, cycles, below) ==
  LET ticks == Ticks(timers[i], i, cycles, below)
      after == AddTicks(timers[i], ticks)
  IN  [ticks |-> ticks, counter |-> after.counter, overflows |-> after.overflows]

\* advance: timer after timer, under the lock.
Steps(cycles) ==
  LET step[i \in TimerIds] ==
        StepOf(i, cycles, IF i = 0 THEN 0 ELSE step[i - 1].overflows)
  IN  step

Advance(cycles) ==
  LET step == Steps(cycles) IN
  /\ \A i \in TimerIds : Counts(timers[i]) => past[i].cycles + cycles <= MaxCycles
  /\ timers' = [i \in TimerIds |->
                  [timers[i] EXCEPT !.counter = step[i].counter,
                                    !.acc = Leftover(timers[i], cycles)]]
  /\ page' = [i \in TimerIds |->
                IF Mirrors(i) THEN [page[i] EXCEPT !.low = step[i].counter]
                ELSE page[i]]
  /\ past' = [i \in TimerIds |->
                [past[i] EXCEPT
                   !.ticks = @ + step[i].ticks,
                   !.overflows = @ + step[i].overflows,
                   !.cycles = @ + IF Counts(timers[i]) THEN cycles ELSE 0,
                   !.got = @ + step[i].ticks,
                   !.below = @ + IF i = 0 THEN 0 ELSE step[i - 1].overflows]]
  /\ UNCHANGED <<kvm, writes, written>>

Next ==
  \/ \E i \in TimerIds : GuestWrites(i)
  \/ ReadLow \/ WriteLow \/ WriteHigh
  \/ \E cycles \in Batches : Advance(cycles)

Spec == Init /\ [][Next]_vars

-----------------------------------------------------------------------------

\* The types of the variables; a counter is always a halfword.
TypeOK ==
  /\ timers \in [TimerIds -> [reload: Halfwords, counter: Halfwords,
                              control: Controls, acc: Nat]]
  /\ page \in [TimerIds -> [low: Halfwords, control: Controls]]
  /\ kvm \in [pc: {"idle", "read_low", "write_low", "write_high"},
              timer: TimerIds, both: BOOLEAN, value: Halfwords]
  /\ writes \in 0..MaxWrites
  /\ \A i \in TimerIds : written[i] \in Reloads \cup {0, Unsure}
  /\ \A i \in TimerIds : past[i] \in [DOMAIN NoPast -> Nat]

\* Where a counter that starts at from and is reloaded from reload stands after
\* n ticks, and how often it has overflowed.
RefCounter(from, reload, n) ==
  IF n < Modulus - from THEN from + n
  ELSE reload + ((n - (Modulus - from)) % (Modulus - reload))

RefOverflows(from, reload, n) ==
  IF n < Modulus - from THEN 0
  ELSE 1 + ((n - (Modulus - from)) \div (Modulus - reload))

\* However the ticks were batched into calls of advance, and whatever the guest
\* wrote in between, a timer's counter and the overflows it reported are those
\* of a counter of Modulus - reload ticks per overflow (add_ticks).
CounterExact ==
  \A i \in TimerIds :
    LET p == past[i]
        reload == timers[i].reload
    IN  /\ timers[i].counter = RefCounter(p.from, reload, p.ticks)
        /\ p.overflows = RefOverflows(p.from, reload, p.ticks)

\* No cycle is lost or counted twice: since its control was written, a timer
\* that counts cycles has made one tick for each whole period (advance_timer's
\* accumulated_cycles).
NoCycleLost ==
  \A i \in TimerIds :
    Counts(timers[i]) =>
      /\ past[i].got = past[i].cycles \div Period(timers[i])
      /\ timers[i].acc = past[i].cycles % Period(timers[i])

\* A cascading timer has counted exactly the overflows of the timer below since
\* its control was written (advance_cascade_timer), whatever happened to that
\* one meanwhile.
CascadeExact ==
  \A i \in TimerIds \ {0} :
    timers[i].control.enabled /\ timers[i].control.cascade =>
      past[i].got = past[i].below

\* A reload value written while the counter is not being mirrored is the one the
\* timer uses, whatever advance does between the store into the page and
\* write_timer_registers_from_io reading it back. (While the timer runs, the
\* mirror may take the value's place.)
ReloadKept ==
  \A i \in TimerIds :
    written[i] # Unsure /\ (kvm.pc = "idle" \/ kvm.timer # i) =>
      timers[i].reload = written[i]
=============================================================================
