---------------------------- MODULE TimersProofs ----------------------------
(***************************************************************************)
(* A reload value reaches its timer through the page that advance writes   *)
(* to as well, and counters, leftover cycles and cascades are exact, for   *)
(* any number of timers, any counter width, prescaler and batch of cycles, *)
(* and any repertoire of writes.                                           *)
(***************************************************************************)
EXTENDS Timers, WellFoundedInduction, TLAPS

\* The parts of the state that the argument is about.
Shape ==
  /\ DOMAIN timers = TimerIds /\ DOMAIN page = TimerIds
  /\ \A i \in TimerIds :
       /\ timers[i] = [reload |-> timers[i].reload,
                       counter |-> timers[i].counter,
                       control |-> timers[i].control, acc |-> timers[i].acc]
       /\ page[i] = [low |-> page[i].low, control |-> page[i].control]
  /\ kvm = [pc |-> kvm.pc, timer |-> kvm.timer, both |-> kvm.both,
            value |-> kvm.value]
  /\ kvm.pc \in {"idle", "read_low", "write_low", "write_high"}
  /\ kvm.timer \in TimerIds
  /\ DOMAIN written = TimerIds

\* On its way, a sure reload value is in the page of a timer that is off, then in
\* the KVM thread's hands, then in the timer.
OnItsWay ==
  LET i == kvm.timer IN
  written[i] # Unsure =>
    /\ kvm.pc = "read_low" =>
         page[i].low = written[i] /\ ~timers[i].control.enabled
    /\ kvm.pc = "write_low" => kvm.value = written[i]
    /\ kvm.pc = "write_high" => timers[i].reload = written[i]

IInv == Shape /\ OnItsWay /\ ReloadKept

LEMMA Initially == Init => IInv
<1>1. 0 \in TimerIds
  BY TimerAssumption DEF TimerIds
<1> QED
  BY <1>1 DEF Init, IInv, Shape, OnItsWay, ReloadKept, Idle

\* advance changes counters, leftovers, and the page where it mirrors; never the
\* page of a timer that is off.
LEMMA AdvanceKeeps ==
  ASSUME IInv, NEW cycles \in Batches, Advance(cycles)
  PROVE  IInv'
<1> DEFINE step == Steps(cycles)
<1>1. /\ timers' = [i \in TimerIds |->
                      [timers[i] EXCEPT !.counter = step[i].counter,
                                        !.acc = Leftover(timers[i], cycles)]]
      /\ page' = [i \in TimerIds |->
                    IF Mirrors(i) THEN [page[i] EXCEPT !.low = step[i].counter]
                    ELSE page[i]]
      /\ kvm' = kvm /\ written' = written
  BY DEF Advance
<1> HIDE DEF step
<1>2. ASSUME NEW i \in TimerIds
      PROVE  /\ timers'[i] = [reload |-> timers[i].reload,
                              counter |-> step[i].counter,
                              control |-> timers[i].control,
                              acc |-> Leftover(timers[i], cycles)]
             /\ page'[i].control = page[i].control
             /\ page'[i] = [low |-> page'[i].low, control |-> page'[i].control]
             /\ ~timers[i].control.enabled => page'[i] = page[i]
  <2>1. /\ timers[i] = [reload |-> timers[i].reload,
                        counter |-> timers[i].counter,
                        control |-> timers[i].control, acc |-> timers[i].acc]
        /\ page[i] = [low |-> page[i].low, control |-> page[i].control]
    BY DEF IInv, Shape
  <2>2. timers'[i] = [timers[i] EXCEPT !.counter = step[i].counter,
                                       !.acc = Leftover(timers[i], cycles)]
    BY <1>1
  <2>3. CASE Mirrors(i)
    BY <1>1, <2>1, <2>2, <2>3 DEF Mirrors
  <2>4. CASE ~Mirrors(i)
    BY <1>1, <2>1, <2>2, <2>4
  <2> QED
    BY <2>3, <2>4
<1>3. Shape'
  BY <1>1, <1>2 DEF IInv, Shape
<1>4. \A i \in TimerIds :
        /\ timers'[i].reload = timers[i].reload
        /\ timers'[i].control = timers[i].control
        /\ ~timers[i].control.enabled => page'[i] = page[i]
  <2> TAKE i \in TimerIds
  <2> DEFINE counter == step[i].counter
             acc == Leftover(timers[i], cycles)
  <2>4. timers'[i] = [reload |-> timers[i].reload, counter |-> counter,
                      control |-> timers[i].control, acc |-> acc]
    BY <1>2
  <2> HIDE DEF counter, acc
  <2>1. timers'[i].reload = timers[i].reload
    BY <2>4
  <2>2. timers'[i].control = timers[i].control
    BY <2>4
  <2>3. ~timers[i].control.enabled => page'[i] = page[i]
    BY <1>2
  <2> QED
    BY <2>1, <2>2, <2>3
<1>5. kvm' = kvm /\ written' = written
  BY <1>1
<1>6. kvm.timer \in TimerIds
  BY DEF IInv, Shape
<1>7. OnItsWay'
  BY <1>4, <1>5, <1>6 DEF IInv, OnItsWay
<1>8. ReloadKept'
  BY <1>4, <1>5 DEF IInv, ReloadKept
<1> QED
  BY <1>3, <1>7, <1>8 DEF IInv

\* The guest's write begins a way only with a timer that is off.
LEMMA GuestKeeps ==
  ASSUME IInv, NEW i \in TimerIds, GuestWrites(i)
  PROVE  IInv'
<1>1. kvm.pc = "idle" /\ timers' = timers
  BY DEF GuestWrites
<1>2. ASSUME NEW reload \in Reloads, NEW both \in BOOLEAN, NEW control \in Controls,
             page' = [page EXCEPT ![i] = [low |-> reload, control |-> control]],
             written' = [written EXCEPT ![i] =
                           IF timers[i].control.enabled THEN Unsure ELSE reload],
             kvm' = [Idle EXCEPT !.pc = "read_low", !.timer = i, !.both = both]
      PROVE  IInv'
  <2>1. kvm' = [pc |-> "read_low", timer |-> i, both |-> both, value |-> 0]
    BY <1>2 DEF Idle
  <2>2. Shape'
    <3>1. DOMAIN page' = TimerIds /\ DOMAIN written' = TimerIds
      BY <1>2 DEF IInv, Shape
    <3>2. ASSUME NEW j \in TimerIds
          PROVE  page'[j] = [low |-> page'[j].low, control |-> page'[j].control]
      BY <1>2 DEF IInv, Shape
    <3> QED
      BY <1>1, <2>1, <3>1, <3>2 DEF IInv, Shape
  <2>3. OnItsWay'
    <3>1. page'[i].low = reload
      BY <1>2 DEF IInv, Shape
    <3>2. written'[i] # Unsure =>
            written'[i] = reload /\ ~timers'[i].control.enabled
      BY <1>1, <1>2 DEF IInv, Shape
    <3>3. kvm'.pc = "read_low" /\ kvm'.timer = i
      BY <2>1
    <3> QED
      BY <3>1, <3>2, <3>3 DEF OnItsWay, Unsure
  <2>4. ReloadKept'
    <3>1. ASSUME NEW j \in TimerIds, j # i
          PROVE  written'[j] = written[j]
      BY <1>2, <3>1 DEF IInv, Shape
    <3>2. kvm'.pc # "idle" /\ kvm'.timer = i
      BY <2>1
    <3> QED
      BY <1>1, <3>1, <3>2 DEF IInv, ReloadKept, Unsure
  <2> QED
    BY <2>2, <2>3, <2>4 DEF IInv
<1>3. ASSUME NEW control \in Controls,
             page' = [page EXCEPT ![i].control = control],
             kvm' = [Idle EXCEPT !.pc = "write_high", !.timer = i],
             written' = written
      PROVE  IInv'
  <2>1. kvm' = [pc |-> "write_high", timer |-> i, both |-> FALSE, value |-> 0]
    BY <1>3 DEF Idle
  <2>2. Shape'
    <3>1. DOMAIN page' = TimerIds
      BY <1>3 DEF IInv, Shape
    <3>2. ASSUME NEW j \in TimerIds
          PROVE  page'[j] = [low |-> page'[j].low, control |-> page'[j].control]
      BY <1>3 DEF IInv, Shape
    <3> QED
      BY <1>1, <1>3, <2>1, <3>1, <3>2 DEF IInv, Shape
  <2>3. OnItsWay' /\ ReloadKept'
    BY <1>1, <1>3, <2>1 DEF IInv, OnItsWay, ReloadKept, Unsure
  <2> QED
    BY <2>2, <2>3 DEF IInv
<1> QED
  BY <1>2, <1>3 DEF GuestWrites

LEMMA Inductive == IInv /\ [Next]_vars => IInv'
<1> SUFFICES ASSUME IInv, [Next]_vars PROVE IInv'
  OBVIOUS
<1>1. ASSUME NEW i \in TimerIds, GuestWrites(i) PROVE IInv'
  BY <1>1, GuestKeeps
<1>2. CASE ReadLow
  BY <1>2 DEF ReadLow, IInv, Shape, OnItsWay, ReloadKept
<1>3. CASE WriteLow
  <2> DEFINE i == kvm.timer
  <2>1. /\ timers' = [timers EXCEPT ![i].reload = kvm.value]
        /\ page' = page /\ written' = written /\ kvm.pc = "write_low"
        /\ \/ kvm' = [kvm EXCEPT !.pc = "write_high", !.value = 0]
           \/ kvm' = Idle
    BY <1>3 DEF WriteLow
  <2>2. 0 \in TimerIds /\ i \in TimerIds
    BY TimerAssumption DEF TimerIds, IInv, Shape
  <2>3. timers'[i].reload = kvm.value
    BY <2>1, <2>2 DEF IInv, Shape
  <2>4. \A j \in TimerIds : j # i => timers'[j] = timers[j]
    BY <2>1, <2>2 DEF IInv, Shape
  <2>5. /\ kvm' = [pc |-> kvm'.pc, timer |-> kvm'.timer, both |-> kvm'.both,
                   value |-> kvm'.value]
        /\ kvm'.timer \in TimerIds
        /\ \/ kvm'.pc = "idle"
           \/ kvm'.pc = "write_high" /\ kvm'.timer = i
    <3>1. CASE kvm' = Idle
      BY <3>1, <2>2 DEF Idle
    <3>2. CASE kvm' = [kvm EXCEPT !.pc = "write_high", !.value = 0]
      <4>1. kvm = [pc |-> kvm.pc, timer |-> i, both |-> kvm.both,
                   value |-> kvm.value]
        BY DEF IInv, Shape
      <4>2. kvm' = [pc |-> "write_high", timer |-> i, both |-> kvm.both,
                    value |-> 0]
        BY <3>2, <4>1
      <4> QED
        BY <4>2, <2>2
    <3> QED
      BY <2>1, <3>1, <3>2
  <2>6. Shape'
    <3>1. ASSUME NEW j \in TimerIds
          PROVE  timers'[j] = [reload |-> timers'[j].reload,
                               counter |-> timers'[j].counter,
                               control |-> timers'[j].control,
                               acc |-> timers'[j].acc]
      <4>1. timers[j] = [reload |-> timers[j].reload,
                         counter |-> timers[j].counter,
                         control |-> timers[j].control, acc |-> timers[j].acc]
        BY DEF IInv, Shape
      <4>2. timers'[j] = timers[j]
            \/ timers'[j] = [timers[j] EXCEPT !.reload = kvm.value]
        BY <2>1, <2>2 DEF IInv, Shape
      <4> QED
        BY <4>1, <4>2
    <3>2. DOMAIN timers' = TimerIds
      BY <2>1 DEF IInv, Shape
    <3>3. kvm'.pc \in {"idle", "read_low", "write_low", "write_high"}
      BY <2>5
    <3> QED
      BY <2>1, <2>5, <3>1, <3>2, <3>3 DEF IInv, Shape
  <2>7. OnItsWay'
    BY <2>1, <2>3, <2>5 DEF IInv, OnItsWay
  <2>8. ReloadKept'
    BY <2>1, <2>3, <2>4, <2>5 DEF IInv, OnItsWay, ReloadKept
  <2> QED
    BY <2>6, <2>7, <2>8 DEF IInv
<1>4. CASE WriteHigh
  <2> DEFINE i == kvm.timer
             control == page[i].control
             starts == control.enabled /\ ~timers[i].control.enabled
             counter == IF starts THEN timers[i].reload ELSE timers[i].counter
  <2>1. /\ timers' = [timers EXCEPT ![i].control = control, ![i].acc = 0,
                                    ![i].counter = counter]
        /\ page' = IF starts THEN [page EXCEPT ![i].low = counter] ELSE page
        /\ kvm' = Idle /\ written' = written /\ kvm.pc = "write_high"
    BY <1>4 DEF WriteHigh
  <2>2. 0 \in TimerIds /\ i \in TimerIds
    BY TimerAssumption DEF TimerIds, IInv, Shape
  <2> HIDE DEF control, starts, counter
  <2>3. \A j \in TimerIds : timers'[j].reload = timers[j].reload
    BY <2>1, <2>2 DEF IInv, Shape
  <2>4. Shape'
    BY <2>1, <2>2 DEF IInv, Shape, Idle
  <2> QED
    BY <2>1, <2>2, <2>3, <2>4 DEF IInv, Idle, OnItsWay, ReloadKept
<1>5. ASSUME NEW cycles \in Batches, Advance(cycles) PROVE IInv'
  BY <1>5, AdvanceKeeps
<1>6. CASE UNCHANGED vars
  BY <1>6 DEF vars, IInv, Shape, OnItsWay, ReloadKept
<1> QED
  BY <1>1, <1>2, <1>3, <1>4, <1>5, <1>6 DEF Next

THEOREM Invariance == Spec => []IInv
  BY Initially, Inductive, PTL DEF Spec

\* A reload value written to a timer that is off is the one it counts from,
\* whatever advance does between the two accesses to the page
\* (write_timer_registers_from_io).
THEOREM ReloadValueKept == Spec => []ReloadKept
<1>1. IInv => ReloadKept
  BY DEF IInv
<1> QED
  BY <1>1, Invariance, PTL

-----------------------------------------------------------------------------
(* Induction over the natural numbers, for sets of them: the least number  *)
(* that is not in the set would follow one that is.                        *)

LEMMA LeastNumber ==
  ASSUME NEW T, T \subseteq Nat, T # {}
  PROVE  \E x \in T : \A y \in T : x <= y
<1>1. PICK R : R = OpToRel(<, Nat)
  OBVIOUS
<1>2. IsWellFoundedOn(R, Nat)
  BY <1>1, NatLessThanWellFounded
<1>3. PICK x \in T : \A y \in T : ~ (<<y, x>> \in R)
  BY <1>2, WFMin
<1>4. \A i, j \in Nat : <<i, j>> \in R <=> i < j
  BY <1>1 DEF OpToRel
<1>5. \A y \in T : x \in Nat /\ y \in Nat /\ ~(y < x)
  BY <1>3, <1>4
<1> QED  BY <1>5

LEMMA Induction ==
  ASSUME NEW S, 0 \in S, \A n \in Nat : n \in S => n + 1 \in S
  PROVE  Nat \subseteq S
<1> SUFFICES ASSUME Nat \ S # {} PROVE FALSE
  OBVIOUS
<1>1. PICK x \in Nat \ S : \A y \in Nat \ S : x <= y
  <2>1. PICK T : T = Nat \ S
    OBVIOUS
  <2>2. T \subseteq Nat /\ T # {}
    BY <2>1
  <2> QED  BY <2>1, <2>2, LeastNumber
<1>2. x # 0 /\ x - 1 \in Nat
  BY <1>1
<1>3. x - 1 \in S
  BY <1>1, <1>2
<1> QED  BY <1>1, <1>2, <1>3

\* The series that starts from x and goes on by F exists.
IsSeries(g, m, x, F) ==
  g = [n \in 0..m |-> IF n = 0 THEN x ELSE F[<<n, g[n - 1]>>]]

LEMMA Recursion ==
  ASSUME NEW m \in Nat, NEW S, NEW x \in S, NEW F \in [Nat \X S -> S]
  PROVE  \E g \in [0..m -> S] : IsSeries(g, m, x, F)
<1> USE DEF IsSeries
<1> DEFINE T == {k \in Nat : \E g \in [0..k -> S] :
                   g = [n \in 0..k |-> IF n = 0 THEN x ELSE F[<<n, g[n - 1]>>]]}
<1>1. 0 \in T
  <2>1. PICK g : g = [n \in 0..0 |-> x]
    OBVIOUS
  <2>2. g \in [0..0 -> S]
    BY <2>1
  <2>3. g = [n \in 0..0 |-> IF n = 0 THEN x ELSE F[<<n, g[n - 1]>>]]
    BY <2>1
  <2> QED  BY <2>2, <2>3
<1>2. ASSUME NEW k \in Nat, k \in T PROVE k + 1 \in T
  <2>1. PICK g \in [0..k -> S] :
          g = [n \in 0..k |-> IF n = 0 THEN x ELSE F[<<n, g[n - 1]>>]]
    BY <1>2
  <2>2. PICK h : h = [n \in 0..(k + 1) |->
                       IF n = k + 1 THEN F[<<k + 1, g[k]>>] ELSE g[n]]
    OBVIOUS
  <2>3. F[<<k + 1, g[k]>>] \in S
    OBVIOUS
  <2>4. h \in [0..(k + 1) -> S]
    BY <2>2, <2>3
  <2>5. ASSUME NEW n \in 0..(k + 1)
        PROVE  h[n] = IF n = 0 THEN x ELSE F[<<n, h[n - 1]>>]
    <3>1. CASE n = k + 1
      <4>1. h[n] = F[<<k + 1, g[k]>>] /\ n # 0 /\ n - 1 = k
        BY <2>2, <3>1
      <4>2. h[k] = g[k]
        BY <2>2
      <4> QED  BY <3>1, <4>1, <4>2
    <3>2. CASE n # k + 1
      <4>1. n \in 0..k /\ h[n] = g[n] /\ (n # 0 => h[n - 1] = g[n - 1])
        BY <2>2, <3>2
      <4>2. g[n] = IF n = 0 THEN x ELSE F[<<n, g[n - 1]>>]
        BY <2>1, <4>1
      <4> QED  BY <4>1, <4>2
    <3> QED  BY <3>1, <3>2
  <2>6. h = [n \in 0..(k + 1) |-> IF n = 0 THEN x ELSE F[<<n, h[n - 1]>>]]
    BY <2>2, <2>5
  <2>7. k + 1 \in Nat
    OBVIOUS
  <2>8. \E f \in [0..(k + 1) -> S] :
          f = [n \in 0..(k + 1) |-> IF n = 0 THEN x ELSE F[<<n, f[n - 1]>>]]
    BY <2>4, <2>6
  <2> QED  BY <2>7, <2>8
<1>3. Nat \subseteq T
  <2> HIDE DEF T
  <2> QED  BY <1>1, <1>2, Induction
<1> QED  BY <1>3

-----------------------------------------------------------------------------
(* Division.                                                               *)

LEMMA Division ==
  ASSUME NEW n \in Nat, NEW d \in Nat, d > 0
  PROVE  /\ n \div d \in Nat /\ n % d \in 0..(d - 1)
         /\ n = (n \div d) * d + (n % d)
OBVIOUS

LEMMA DivisionUnique ==
  ASSUME NEW q \in Nat, NEW d \in Nat, NEW r \in 0..(d - 1), NEW n \in Nat,
         n = q * d + r
  PROVE  n \div d = q /\ n % d = r
OBVIOUS

\* Dividing piece by piece, with the remainder carried over, divides the whole.
Carries(a, b, d) ==
  /\ (a + b) \div d = (a \div d) + (((a % d) + b) \div d)
  /\ (a + b) % d = ((a % d) + b) % d

LEMMA DivisionCarries ==
  ASSUME NEW a \in Nat, NEW b \in Nat, NEW d \in Nat, d > 0
  PROVE  Carries(a, b, d)
<1>1. PICK q \in Nat, r \in 0..(d - 1) : /\ q = a \div d /\ r = a % d
                                      /\ a = q * d + r
  BY Division
<1>2. r + b \in Nat
  OBVIOUS
<1>3. PICK k \in Nat, s \in 0..(d - 1) : /\ k = (r + b) \div d /\ s = (r + b) % d
                                      /\ r + b = k * d + s
  BY <1>2, Division
<1>4. a + b = (q + k) * d + s /\ q + k \in Nat /\ a + b \in Nat
  <2>1. (q + k) * d = q * d + k * d
    OBVIOUS
  <2>2. q * d \in Nat /\ k * d \in Nat
    OBVIOUS
  <2>3. a + b = q * d + (r + b)
    BY <1>1, <2>2
  <2> QED  BY <1>3, <2>1, <2>2, <2>3
<1>5. (a + b) \div d = q + k /\ (a + b) % d = s
  BY <1>4, DivisionUnique
<1> QED  BY <1>1, <1>3, <1>5 DEF Carries

-----------------------------------------------------------------------------
(* The counter.                                                            *)

\* A counter that goes on from where it stood stands, and has overflowed, as if it
\* had gone all the way.
GoesOn(from, reload, a, b, now) ==
  /\ now \in Halfwords /\ RefOverflows(from, reload, a) \in Nat
  /\ RefCounter(now, reload, b) = RefCounter(from, reload, a + b)
  /\ RefOverflows(from, reload, a) + RefOverflows(now, reload, b)
       = RefOverflows(from, reload, a + b)

LEMMA CountingGoesOn ==
  ASSUME NEW from \in Halfwords, NEW reload \in Halfwords, NEW a \in Nat,
         NEW b \in Nat, NEW now, now = RefCounter(from, reload, a)
  PROVE  GoesOn(from, reload, a, b, now)
<1>g. SUFFICES /\ now \in Halfwords /\ RefOverflows(from, reload, a) \in Nat
               /\ RefCounter(now, reload, b) = RefCounter(from, reload, a + b)
               /\ RefOverflows(from, reload, a) + RefOverflows(now, reload, b)
                    = RefOverflows(from, reload, a + b)
  BY DEF GoesOn
<1>1. PICK d \in Nat : d = Modulus - reload /\ d > 0
  BY TimerAssumption DEF Halfwords
<1>2. PICK first \in Nat : first = Modulus - from /\ first > 0
  BY TimerAssumption DEF Halfwords
<1>3. /\ Modulus \in Nat /\ from \in Nat /\ reload \in Nat
      /\ from = Modulus - first /\ reload = Modulus - d
  BY <1>1, <1>2, TimerAssumption DEF Halfwords
<1>4. CASE a < first
  <2>1. now = from + a /\ RefOverflows(from, reload, a) = 0
    BY <1>2, <1>4 DEF RefCounter, RefOverflows
  <2>2. now \in Halfwords /\ Modulus - now = first - a
    BY <1>3, <1>4, <2>1 DEF Halfwords
  <2>3. CASE b < first - a
    <3>1. a + b < first /\ now + b = from + (a + b)
      BY <1>2, <1>3, <2>1, <2>3
    <3>2. RefCounter(now, reload, b) = now + b /\ RefOverflows(now, reload, b) = 0
      BY <2>2, <2>3 DEF RefCounter, RefOverflows
    <3>3. /\ RefCounter(from, reload, a + b) = from + (a + b)
          /\ RefOverflows(from, reload, a + b) = 0
      BY <1>2, <3>1 DEF RefCounter, RefOverflows
    <3> QED  BY <2>1, <2>2, <3>1, <3>2, <3>3
  <2>4. CASE ~(b < first - a)
    <3>1. ~(a + b < first) /\ b - (first - a) = (a + b) - first
      BY <1>2, <2>4
    <3>2. PICK more \in Nat : more = (a + b) - first
      BY <3>1, <1>2
    <3>3. /\ RefCounter(now, reload, b) = reload + (more % d)
          /\ RefOverflows(now, reload, b) = 1 + (more \div d)
      BY <1>1, <2>2, <2>4, <3>1, <3>2 DEF RefCounter, RefOverflows
    <3>4. /\ RefCounter(from, reload, a + b) = reload + (more % d)
          /\ RefOverflows(from, reload, a + b) = 1 + (more \div d)
      BY <1>1, <1>2, <3>1, <3>2 DEF RefCounter, RefOverflows
    <3>5. more \div d \in Nat
      BY <1>1, Division
    <3> QED  BY <2>1, <2>2, <3>3, <3>4, <3>5
  <2> QED  BY <2>3, <2>4
<1>5. CASE ~(a < first)
  <2>1. PICK k \in Nat : k = a - first
    BY <1>2, <1>5
  <2>2. PICK q \in Nat, r \in 0..(d - 1) : q = k \div d /\ r = k % d
    BY <1>1, Division
  <2>3. now = reload + r /\ RefOverflows(from, reload, a) = 1 + q
    BY <1>1, <1>2, <1>5, <2>1, <2>2 DEF RefCounter, RefOverflows
  <2>4. now \in Halfwords /\ Modulus - now = d - r
    BY <1>3, <2>2, <2>3 DEF Halfwords
  <2>5. ~(a + b < first) /\ (a + b) - first = k + b /\ k + b \in Nat /\ r + b \in Nat
    BY <1>2, <1>5, <2>1
  <2>6. /\ RefCounter(from, reload, a + b) = reload + ((k + b) % d)
        /\ RefOverflows(from, reload, a + b) = 1 + ((k + b) \div d)
    BY <1>1, <1>2, <2>5 DEF RefCounter, RefOverflows
  <2>7. (k + b) \div d = q + ((r + b) \div d) /\ (k + b) % d = (r + b) % d
    <3>1. Carries(k, b, d)
      BY <1>1, DivisionCarries
    <3> QED  BY <2>2, <3>1 DEF Carries
  <2>8. CASE b < d - r
    <3>1. /\ RefCounter(now, reload, b) = now + b
          /\ RefOverflows(now, reload, b) = 0
      BY <2>4, <2>8 DEF RefCounter, RefOverflows
    <3>2. r + b = 0 * d + (r + b) /\ r + b \in 0..(d - 1) /\ 0 \in Nat
      BY <2>8
    <3>3. (r + b) \div d = 0 /\ (r + b) % d = r + b
      BY <2>5, <3>2, DivisionUnique
    <3> QED  BY <1>3, <2>3, <2>4, <2>6, <2>7, <3>1, <3>3
  <2>9. CASE ~(b < d - r)
    <3>1. PICK more \in Nat : more = b - (d - r)
      BY <2>9
    <3>2. /\ RefCounter(now, reload, b) = reload + (more % d)
          /\ RefOverflows(now, reload, b) = 1 + (more \div d)
      BY <1>1, <2>4, <2>9, <3>1 DEF RefCounter, RefOverflows
    <3>3. r + b = d + more /\ d = 1 * d + 0 /\ 0 \in 0..(d - 1) /\ 1 \in Nat
      BY <1>1, <3>1
    <3>4. d \div d = 1 /\ d % d = 0
      BY <3>3, DivisionUnique
    <3>5. (d + more) \div d = 1 + ((0 + more) \div d) /\ (d + more) % d = (0 + more) % d
      <4>1. Carries(d, more, d)
        BY <1>1, DivisionCarries
      <4> QED  BY <3>4, <4>1 DEF Carries
    <3>6. 0 + more = more
      OBVIOUS
    <3>7. (r + b) \div d = 1 + (more \div d) /\ (r + b) % d = more % d
      BY <3>3, <3>5, <3>6
    <3>8. more \div d \in Nat
      BY <1>1, Division
    <3> QED  BY <2>3, <2>4, <2>6, <2>7, <3>2, <3>7, <3>8
  <2> QED  BY <2>8, <2>9
<1> QED  BY <1>4, <1>5

\* Without ticks, and with one.
LEMMA FirstTick ==
  ASSUME NEW now \in Halfwords, NEW reload \in Halfwords
  PROVE  /\ RefCounter(now, reload, 0) = now /\ RefOverflows(now, reload, 0) = 0
         /\ \A n \in Nat : Tick(reload, [counter |-> now, overflows |-> n])
              = [counter |-> RefCounter(now, reload, 1),
                 overflows |-> n + RefOverflows(now, reload, 1)]
<1>1. Modulus \in Nat /\ now \in Nat /\ reload \in Nat /\ now < Modulus /\ reload < Modulus
  BY TimerAssumption DEF Halfwords
<1>2. RefCounter(now, reload, 0) = now /\ RefOverflows(now, reload, 0) = 0
  BY <1>1 DEF RefCounter, RefOverflows
<1>3. CASE now + 1 = Modulus
  <2>1. PICK d \in Nat : d = Modulus - reload /\ d > 0
    BY <1>1
  <2>2. 0 = 0 * d + 0 /\ 0 \in 0..(d - 1) /\ 0 \in Nat
    BY <2>1
  <2>3. 0 \div d = 0 /\ 0 % d = 0
    BY <2>2, DivisionUnique
  <2>4. ~(1 < Modulus - now) /\ 1 - (Modulus - now) = 0
    BY <1>1, <1>3
  <2>5. RefCounter(now, reload, 1) = reload /\ RefOverflows(now, reload, 1) = 1
    BY <1>1, <2>1, <2>3, <2>4 DEF RefCounter, RefOverflows
  <2> QED  BY <1>2, <1>3, <2>5 DEF Tick
<1>4. CASE now + 1 # Modulus
  <2>1. 1 < Modulus - now
    BY <1>1, <1>4
  <2>2. RefCounter(now, reload, 1) = now + 1 /\ RefOverflows(now, reload, 1) = 0
    BY <2>1 DEF RefCounter, RefOverflows
  <2> QED  BY <1>2, <1>4, <2>2 DEF Tick
<1> QED  BY <1>3, <1>4

\* add_ticks counts as the formula says, for any number of ticks.
LEMMA AddTicksExact ==
  ASSUME NEW timer, timer.counter \in Halfwords, timer.reload \in Halfwords,
         NEW ticks \in Nat
  PROVE  AddTicks(timer, ticks) =
           [counter |-> RefCounter(timer.counter, timer.reload, ticks),
            overflows |-> RefOverflows(timer.counter, timer.reload, ticks)]
<1> DEFINE Ref(n) == [counter |-> RefCounter(timer.counter, timer.reload, n),
                      overflows |-> RefOverflows(timer.counter, timer.reload, n)]
           first == [counter |-> timer.counter, overflows |-> 0]
<1>1. Ref(0) = first
  BY FirstTick
<1>2. ASSUME NEW n \in Nat PROVE Tick(timer.reload, Ref(n)) = Ref(n + 1)
  <2>1. PICK now : now = RefCounter(timer.counter, timer.reload, n)
    OBVIOUS
  <2>2. /\ now \in Halfwords /\ RefOverflows(timer.counter, timer.reload, n) \in Nat
        /\ RefCounter(now, timer.reload, 1)
             = RefCounter(timer.counter, timer.reload, n + 1)
        /\ RefOverflows(timer.counter, timer.reload, n)
             + RefOverflows(now, timer.reload, 1)
             = RefOverflows(timer.counter, timer.reload, n + 1)
    <3>1. 1 \in Nat
      OBVIOUS
    <3>2. GoesOn(timer.counter, timer.reload, n, 1, now)
      BY <2>1, <3>1, CountingGoesOn
    <3> QED  BY <3>2 DEF GoesOn
  <2> QED  BY <2>1, <2>2, FirstTick
<1>3. PICK g : g = [n \in 0..ticks |-> Ref(n)]
  OBVIOUS
<1> HIDE DEF Ref
<1>4. ASSUME NEW n \in 0..ticks
      PROVE  g[n] = IF n = 0 THEN first ELSE Tick(timer.reload, g[n - 1])
  <2>1. CASE n = 0
    BY <1>1, <1>3, <2>1
  <2>2. CASE n # 0
    <3>1. n - 1 \in Nat /\ n - 1 \in 0..ticks /\ (n - 1) + 1 = n
      BY <2>2
    <3>2. Tick(timer.reload, Ref(n - 1)) = Ref(n)
      BY <1>2, <3>1
    <3> QED  BY <1>3, <2>2, <3>1, <3>2
  <2> QED  BY <2>1, <2>2
<1>5. g = [n \in 0..ticks |-> IF n = 0 THEN first ELSE Tick(timer.reload, g[n - 1])]
  BY <1>3, <1>4
<1>6. PICK after : /\ after = [n \in 0..ticks |->
                                IF n = 0 THEN first ELSE Tick(timer.reload, after[n - 1])]
                  /\ AddTicks(timer, ticks) = after[ticks]
  BY <1>5 DEF AddTicks
<1>7. after[0] = first
  BY <1>6
<1>8. \A n \in Nat : n + 1 <= ticks => after[n + 1] = Tick(timer.reload, after[n])
  <2> SUFFICES ASSUME NEW n \in Nat, n + 1 <= ticks
               PROVE  after[n + 1] = Tick(timer.reload, after[n])
    OBVIOUS
  <2>1. n + 1 \in 0..ticks /\ n + 1 # 0 /\ (n + 1) - 1 = n
    OBVIOUS
  <2> QED  BY <1>6, <2>1
<1> HIDE DEF first
<1> DEFINE S == {n \in Nat : n <= ticks => after[n] = Ref(n)}
<1>9. 0 \in S
  BY <1>1, <1>7
<1>10. ASSUME NEW n \in Nat, n \in S PROVE n + 1 \in S
  <2>1. n + 1 <= ticks => after[n] = Ref(n)
    BY <1>10
  <2>2. n + 1 <= ticks => after[n + 1] = Ref(n + 1)
    BY <1>2, <1>8, <2>1
  <2> QED  BY <2>2
<1>11. Nat \subseteq S
  <2> HIDE DEF S
  <2> QED  BY <1>9, <1>10, Induction
<1>12. after[ticks] = Ref(ticks)
  BY <1>11
<1> QED  BY <1>6, <1>12 DEF Ref

-----------------------------------------------------------------------------
(* advance, timer after timer.                                             *)

LEMMA Constants ==
  /\ TimerCount \in Nat /\ TimerCount > 0 /\ TimerIds = 0..(TimerCount - 1)
  /\ 0 \in TimerIds /\ \A i \in TimerIds : i \in Nat /\ (i # 0 => i - 1 \in TimerIds)
  /\ Modulus \in Nat /\ Modulus > 1 /\ 0 \in Halfwords
  /\ Batches \subseteq Nat /\ Reloads \subseteq Halfwords
  /\ \A c \in Controls : c.enabled \in BOOLEAN /\ c.cascade \in BOOLEAN
  /\ \A c \in Controls : Periods[c.scale] \in Nat /\ Periods[c.scale] > 0
  /\ Off \in Controls /\ ~Off.enabled
<1>1. TimerIds = 0..(TimerCount - 1) /\ TimerCount \in Nat /\ TimerCount > 0
  BY TimerAssumption DEF TimerIds
<1>2. \A i \in TimerIds : i \in Nat /\ (i # 0 => i - 1 \in TimerIds)
  BY <1>1
<1>3. \A c \in Controls : /\ c.enabled \in BOOLEAN /\ c.cascade \in BOOLEAN
                          /\ c.scale \in DOMAIN Periods
  BY TimerAssumption DEF ControlType
<1>4. Off \in Controls /\ ~Off.enabled
  BY TimerAssumption DEF Off
<1> QED  BY <1>1, <1>2, <1>3, <1>4, TimerAssumption DEF Halfwords

Pasts == [from: Halfwords, ticks: Nat, overflows: Nat, cycles: Nat, got: Nat, below: Nat]

LEMMA PastsAreRecords == \A p \in Pasts : p \in [DOMAIN NoPast -> Nat]
<1>1. DOMAIN NoPast = {"from", "ticks", "overflows", "cycles", "got", "below"}
  BY DEF NoPast
<1>2. Halfwords \subseteq Nat
  BY DEF Halfwords
<1> QED  BY <1>1, <1>2 DEF Pasts

\* The whole types of what TypeOK says element by element.
Typed ==
  /\ TypeOK
  /\ past \in [TimerIds -> Pasts]
  /\ DOMAIN written = TimerIds

LEMMA Timer ==
  ASSUME Typed, NEW i \in TimerIds
  PROVE  /\ timers[i].counter \in Halfwords /\ timers[i].reload \in Halfwords
         /\ timers[i].control \in Controls /\ timers[i].acc \in Nat
         /\ Period(timers[i]) \in Nat /\ Period(timers[i]) > 0
BY Constants DEF Typed, TypeOK, Period

\* One timer, given the overflows of the one below.
LEMMA StepExact ==
  ASSUME Typed, NEW i \in TimerIds, NEW cycles \in Nat, NEW below \in Nat,
         NEW ticks, ticks = Ticks(timers[i], i, cycles, below)
  PROVE  /\ ticks \in Nat
         /\ StepOf(i, cycles, below) =
              [ticks |-> ticks,
               counter |-> RefCounter(timers[i].counter, timers[i].reload, ticks),
               overflows |-> RefOverflows(timers[i].counter, timers[i].reload, ticks)]
         /\ RefCounter(timers[i].counter, timers[i].reload, ticks) \in Halfwords
         /\ RefOverflows(timers[i].counter, timers[i].reload, ticks) \in Nat
<1>1. ticks \in Nat
  <2>1. (timers[i].acc + cycles) \div Period(timers[i]) \in Nat
    BY Timer, Division
  <2> QED  BY <2>1 DEF Ticks
<1>2. PICK timer : timer = timers[i]
  OBVIOUS
<1>3. timer.counter \in Halfwords /\ timer.reload \in Halfwords
  BY <1>2, Timer
<1>4. AddTicks(timer, ticks) =
        [counter |-> RefCounter(timer.counter, timer.reload, ticks),
         overflows |-> RefOverflows(timer.counter, timer.reload, ticks)]
  BY <1>1, <1>3, AddTicksExact
<1>5. StepOf(i, cycles, below) = [ticks |-> ticks, counter |-> AddTicks(timer, ticks).counter,
                                  overflows |-> AddTicks(timer, ticks).overflows]
  BY <1>2 DEF StepOf
<1>6. /\ RefCounter(timer.counter, timer.reload, ticks) \in Halfwords
      /\ RefOverflows(timer.counter, timer.reload, ticks) \in Nat
  <2>1. PICK now : now = RefCounter(timer.counter, timer.reload, ticks)
    OBVIOUS
  <2>2. GoesOn(timer.counter, timer.reload, ticks, 0, now)
    BY <1>1, <1>3, <2>1, CountingGoesOn
  <2> QED  BY <2>1, <2>2 DEF GoesOn
<1> QED  BY <1>1, <1>2, <1>4, <1>5, <1>6

\* The steps of a call of advance are there, each from the one below.
LEMMA StepsExist ==
  ASSUME Typed, NEW cycles \in Nat
  PROVE  \E step :
           /\ Steps(cycles) = step
           /\ step = [i \in TimerIds |->
                        StepOf(i, cycles, IF i = 0 THEN 0 ELSE step[i - 1].overflows)]
           /\ \A i \in TimerIds : step[i].overflows \in Nat
<1> DEFINE Below(i, g) == IF i = 0 THEN 0 ELSE g[i - 1]
<1>1. PICK m \in Nat : m = TimerCount - 1
  BY Constants
<1>2. TimerIds = 0..m
  BY <1>1, Constants
<1>3. ASSUME NEW i \in TimerIds, NEW below \in Nat
      PROVE  StepOf(i, cycles, below).overflows \in Nat
  <2>1. PICK ticks : ticks = Ticks(timers[i], i, cycles, below)
    OBVIOUS
  <2>2. /\ StepOf(i, cycles, below) =
              [ticks |-> ticks,
               counter |-> RefCounter(timers[i].counter, timers[i].reload, ticks),
               overflows |-> RefOverflows(timers[i].counter, timers[i].reload, ticks)]
        /\ RefOverflows(timers[i].counter, timers[i].reload, ticks) \in Nat
    BY <2>1, StepExact
  <2> QED  BY <2>2
<1>4. PICK x \in Nat : x = StepOf(0, cycles, 0).overflows
  BY <1>3, Constants
<1>5. PICK F : F = [p \in Nat \X Nat |-> IF p[1] \in TimerIds
                                        THEN StepOf(p[1], cycles, p[2]).overflows ELSE 0]
  OBVIOUS
<1>6. F \in [Nat \X Nat -> Nat]
  <2>1. ASSUME NEW p \in Nat \X Nat
        PROVE  (IF p[1] \in TimerIds THEN StepOf(p[1], cycles, p[2]).overflows ELSE 0) \in Nat
    BY <1>3
  <2> QED  BY <1>5, <2>1
<1>7. PICK g \in [0..m -> Nat] :
        g = [n \in 0..m |-> IF n = 0 THEN x ELSE F[<<n, g[n - 1]>>]]
  <2>1. \E g \in [0..m -> Nat] : IsSeries(g, m, x, F)
    BY <1>6, Recursion
  <2> QED  BY <2>1 DEF IsSeries
<1>8. ASSUME NEW i \in TimerIds PROVE g[i] = StepOf(i, cycles, Below(i, g)).overflows
  <2>1. CASE i = 0
    BY <1>2, <1>4, <1>7, <2>1
  <2>2. CASE i # 0
    <3>1. i \in 0..m /\ i \in Nat /\ i - 1 \in 0..m
      BY <1>2, <2>2, Constants
    <3>2. g[i] = F[<<i, g[i - 1]>>] /\ g[i - 1] \in Nat
      BY <1>7, <2>2, <3>1
    <3>3. F[<<i, g[i - 1]>>] = StepOf(i, cycles, g[i - 1]).overflows
      BY <1>5, <3>1, <3>2
    <3> QED  BY <2>2, <3>2, <3>3
  <2> QED  BY <2>1, <2>2
<1>9. PICK s : s = [i \in TimerIds |-> StepOf(i, cycles, Below(i, g))]
  OBVIOUS
<1>10. s = [i \in TimerIds |->
             StepOf(i, cycles, IF i = 0 THEN 0 ELSE s[i - 1].overflows)]
  <2>1. ASSUME NEW i \in TimerIds
        PROVE  Below(i, g) = IF i = 0 THEN 0 ELSE s[i - 1].overflows
    <3>1. CASE i = 0
      BY <3>1
    <3>2. CASE i # 0
      <4>1. i - 1 \in TimerIds
        BY <3>2, Constants
      <4>2. s[i - 1].overflows = g[i - 1]
        BY <1>8, <1>9, <4>1
      <4> QED  BY <3>2, <4>2
    <3> QED  BY <3>1, <3>2
  <2> HIDE DEF Below
  <2> QED  BY <1>9, <2>1
<1>11. PICK step : /\ step = [i \in TimerIds |->
                         StepOf(i, cycles, IF i = 0 THEN 0 ELSE step[i - 1].overflows)]
                   /\ Steps(cycles) = step
  BY <1>10 DEF Steps
<1> DEFINE T == {n \in Nat : n \in TimerIds => step[n].overflows \in Nat}
<1>12. 0 \in T
  BY <1>3, <1>11, Constants
<1>13. ASSUME NEW n \in Nat, n \in T PROVE n + 1 \in T
  <2> SUFFICES ASSUME n + 1 \in TimerIds PROVE step[n + 1].overflows \in Nat
    OBVIOUS
  <2>1. n \in TimerIds /\ n + 1 # 0 /\ (n + 1) - 1 = n
    BY <1>2
  <2>2. step[n].overflows \in Nat
    BY <1>13, <2>1
  <2>3. step[n + 1] = StepOf(n + 1, cycles, step[n].overflows)
    BY <1>11, <2>1
  <2> QED  BY <1>3, <2>2, <2>3
<1>14. Nat \subseteq T
  <2> HIDE DEF T
  <2> QED  BY <1>12, <1>13, Induction
<1>15. \A i \in TimerIds : step[i].overflows \in Nat
  BY <1>14, Constants
<1> QED  BY <1>11, <1>15

-----------------------------------------------------------------------------
(* Counters, cycles and cascades are exact.                                *)

Exact == CounterExact /\ NoCycleLost /\ CascadeExact

\* What the three say of one timer, in a state given by its values.
ExactTimer(i, timer, p) ==
  /\ timer.counter = RefCounter(p.from, timer.reload, p.ticks)
  /\ p.overflows = RefOverflows(p.from, timer.reload, p.ticks)
  /\ Counts(timer) => /\ p.got = p.cycles \div Period(timer)
                      /\ timer.acc = p.cycles % Period(timer)
  /\ i # 0 /\ timer.control.enabled /\ timer.control.cascade => p.got = p.below

LEMMA ExactEach == Exact <=> \A i \in TimerIds : ExactTimer(i, timers[i], past[i])
BY DEF Exact, CounterExact, NoCycleLost, CascadeExact, ExactTimer

LEMMA ExactEachNext == Exact' <=> \A i \in TimerIds : ExactTimer(i, timers'[i], past'[i])
BY DEF Exact, CounterExact, NoCycleLost, CascadeExact, ExactTimer, Counts, Period

\* A timer whose history begins: no ticks, and no cycles.
LEMMA ExactBegins ==
  ASSUME NEW i, NEW timer, timer.counter \in Halfwords, timer.reload \in Halfwords,
         timer.control \in Controls, timer.acc = 0
  PROVE  ExactTimer(i, timer, [NoPast EXCEPT !.from = timer.counter])
<1>1. [NoPast EXCEPT !.from = timer.counter] =
        [from |-> timer.counter, ticks |-> 0, overflows |-> 0, cycles |-> 0,
         got |-> 0, below |-> 0]
  BY DEF NoPast
<1>2. PICK period \in Nat : period = Period(timer) /\ period > 0
  BY Constants DEF Period
<1>3. 0 = 0 * period + 0 /\ 0 \in 0..(period - 1) /\ 0 \in Nat
  BY <1>2
<1>4. 0 \div period = 0 /\ 0 % period = 0
  BY <1>2, <1>3, DivisionUnique
<1>5. /\ RefCounter(timer.counter, timer.reload, 0) = timer.counter
      /\ RefOverflows(timer.counter, timer.reload, 0) = 0
  BY FirstTick
<1> QED  BY <1>1, <1>2, <1>4, <1>5 DEF ExactTimer

LEMMA ExactInitially == Init => Typed /\ Exact
<1> SUFFICES ASSUME Init PROVE Typed /\ Exact
  OBVIOUS
<1>1. Off \in Controls /\ ~Off.enabled /\ 0 \in TimerIds /\ 0 \in Halfwords
  BY Constants
<1>2. /\ timers = [i \in TimerIds |-> [reload |-> 0, counter |-> 0, control |-> Off, acc |-> 0]]
      /\ page = [i \in TimerIds |-> [low |-> 0, control |-> Off]]
      /\ kvm = [pc |-> "idle", timer |-> 0, both |-> FALSE, value |-> 0]
      /\ writes = 0 /\ written = [i \in TimerIds |-> 0]
      /\ past = [i \in TimerIds |-> [from |-> 0, ticks |-> 0, overflows |-> 0,
                                    cycles |-> 0, got |-> 0, below |-> 0]]
  BY DEF Init, Idle, NoPast
<1>3. DOMAIN NoPast = {"from", "ticks", "overflows", "cycles", "got", "below"}
  BY DEF NoPast
<1>4. 0 \in 0..MaxWrites
  BY TimerAssumption
<1>5. TypeOK
  <2>1. /\ timers \in [TimerIds -> [reload: Halfwords, counter: Halfwords,
                                   control: Controls, acc: Nat]]
        /\ page \in [TimerIds -> [low: Halfwords, control: Controls]]
    BY <1>1, <1>2
  <2>2. kvm \in [pc: {"idle", "read_low", "write_low", "write_high"},
                timer: TimerIds, both: BOOLEAN, value: Halfwords]
    BY <1>1, <1>2
  <2>3. ASSUME NEW i \in TimerIds PROVE past[i] \in [DOMAIN NoPast -> Nat]
    BY <1>2, <1>3
  <2> QED  BY <1>2, <1>4, <2>1, <2>2, <2>3 DEF TypeOK
<1>6. Typed
  BY <1>1, <1>2, <1>5 DEF Typed, Pasts
<1>7. ASSUME NEW i \in TimerIds PROVE ExactTimer(i, timers[i], past[i])
  <2>1. PICK timer : timer = timers[i]
    OBVIOUS
  <2>2. timer.counter = 0 /\ timer.reload = 0 /\ timer.control = Off /\ timer.acc = 0
    BY <1>2, <2>1
  <2>3. past[i] = [NoPast EXCEPT !.from = timer.counter]
    BY <1>2, <2>2 DEF NoPast
  <2>4. ExactTimer(i, timer, [NoPast EXCEPT !.from = timer.counter])
    BY <1>1, <2>2, ExactBegins
  <2> QED  BY <2>1, <2>3, <2>4
<1> QED  BY <1>6, <1>7, ExactEach

LEMMA AdvanceExact ==
  ASSUME Typed, Exact, NEW cycles \in Batches, Advance(cycles)
  PROVE  Typed' /\ Exact'
<1>1. cycles \in Nat
  BY Constants
<1>2. PICK step :
        /\ Steps(cycles) = step
        /\ step = [i \in TimerIds |->
                     StepOf(i, cycles, IF i = 0 THEN 0 ELSE step[i - 1].overflows)]
        /\ \A i \in TimerIds : step[i].overflows \in Nat
  BY <1>1, StepsExist
<1>3. /\ timers' = [i \in TimerIds |->
                      [timers[i] EXCEPT !.counter = step[i].counter,
                                        !.acc = Leftover(timers[i], cycles)]]
      /\ page' = [i \in TimerIds |->
                    IF Mirrors(i) THEN [page[i] EXCEPT !.low = step[i].counter]
                    ELSE page[i]]
      /\ past' = [i \in TimerIds |->
                    [past[i] EXCEPT
                       !.ticks = @ + step[i].ticks,
                       !.overflows = @ + step[i].overflows,
                       !.cycles = @ + IF Counts(timers[i]) THEN cycles ELSE 0,
                       !.got = @ + step[i].ticks,
                       !.below = @ + IF i = 0 THEN 0 ELSE step[i - 1].overflows]]
      /\ kvm' = kvm /\ writes' = writes /\ written' = written
  BY <1>2 DEF Advance
<1>4. ASSUME NEW i \in TimerIds
      PROVE  /\ timers'[i] \in [reload: Halfwords, counter: Halfwords,
                                control: Controls, acc: Nat]
             /\ page'[i] \in [low: Halfwords, control: Controls]
             /\ past'[i] \in Pasts
             /\ ExactTimer(i, timers'[i], past'[i])
  <2>1. PICK below \in Nat : below = IF i = 0 THEN 0 ELSE step[i - 1].overflows
    BY <1>2, Constants
  <2>2. PICK timer : timer = timers[i] /\ ExactTimer(i, timer, past[i])
    BY ExactEach
  <2>3. /\ timer.counter \in Halfwords /\ timer.reload \in Halfwords
        /\ timer.control \in Controls /\ timer.acc \in Nat
        /\ timer = [reload |-> timer.reload, counter |-> timer.counter,
                    control |-> timer.control, acc |-> timer.acc]
    BY <2>2 DEF Typed, TypeOK
  <2>4. PICK ticks : ticks = Ticks(timer, i, cycles, below)
    OBVIOUS
  <2>5. PICK counter, overflows :
          /\ counter = RefCounter(timer.counter, timer.reload, ticks)
          /\ overflows = RefOverflows(timer.counter, timer.reload, ticks)
    OBVIOUS
  <2>6. /\ ticks \in Nat /\ counter \in Halfwords /\ overflows \in Nat
        /\ StepOf(i, cycles, below) =
             [ticks |-> ticks, counter |-> counter, overflows |-> overflows]
    BY <1>1, <2>2, <2>4, <2>5, StepExact
  <2>7. step[i].ticks = ticks /\ step[i].counter = counter /\ step[i].overflows = overflows
    <3>1. step[i] = StepOf(i, cycles, below)
      BY <1>2, <2>1
    <3> QED  BY <2>6, <3>1
  <2>8. PICK p \in Pasts : p = past[i]
    BY DEF Typed, Pasts
  <2>9. p = [from |-> p.from, ticks |-> p.ticks, overflows |-> p.overflows,
             cycles |-> p.cycles, got |-> p.got, below |-> p.below]
        /\ p.from \in Halfwords /\ p.ticks \in Nat /\ p.overflows \in Nat
        /\ p.cycles \in Nat /\ p.got \in Nat /\ p.below \in Nat
    BY DEF Pasts
  <2>10. PICK period \in Nat : period = Period(timer) /\ period > 0
    BY <2>2, Timer
  <2>11. PICK acc \in Nat : acc = Leftover(timer, cycles)
    <3>1. (timer.acc + cycles) % period \in Nat
      <4>1. PICK total \in Nat : total = timer.acc + cycles
        BY <1>1, <2>3
      <4>2. total % period \in 0..(period - 1)
        BY <2>10, Division
      <4> QED  BY <4>1, <4>2
    <3> QED  BY <2>3, <2>10, <3>1 DEF Leftover
  <2>12. PICK passed \in Nat : passed = IF Counts(timer) THEN cycles ELSE 0
    BY <1>1
  <2>13. timers'[i] = [reload |-> timer.reload, counter |-> counter,
                       control |-> timer.control, acc |-> acc]
    <3>1. timers'[i] = [timer EXCEPT !.counter = counter, !.acc = acc]
      BY <1>3, <2>2, <2>7, <2>11
    <3> QED  BY <2>3, <3>1
  <2>14. past'[i] = [from |-> p.from, ticks |-> p.ticks + ticks,
                     overflows |-> p.overflows + overflows,
                     cycles |-> p.cycles + passed, got |-> p.got + ticks,
                     below |-> p.below + below]
    <3>1. past'[i] = [p EXCEPT !.ticks = @ + ticks, !.overflows = @ + overflows,
                               !.cycles = @ + passed, !.got = @ + ticks,
                               !.below = @ + below]
      BY <1>3, <2>1, <2>2, <2>7, <2>8, <2>12
    <3> QED  BY <2>9, <3>1
  <2>15. page'[i] \in [low: Halfwords, control: Controls]
    <3>1. page[i] \in [low: Halfwords, control: Controls]
      BY DEF Typed, TypeOK
    <3>2. page'[i] = [page[i] EXCEPT !.low = counter] \/ page'[i] = page[i]
      BY <1>3, <2>7
    <3> QED  BY <2>6, <3>1, <3>2
  <2>16. past'[i] \in Pasts
    BY <2>1, <2>6, <2>9, <2>12, <2>14 DEF Pasts
  <2>17. /\ counter = RefCounter(p.from, timer.reload, p.ticks + ticks)
         /\ p.overflows + overflows = RefOverflows(p.from, timer.reload, p.ticks + ticks)
    <3>1. /\ timer.counter = RefCounter(p.from, timer.reload, p.ticks)
          /\ p.overflows = RefOverflows(p.from, timer.reload, p.ticks)
      BY <2>2, <2>8 DEF ExactTimer
    <3>2. GoesOn(p.from, timer.reload, p.ticks, ticks, timer.counter)
      BY <2>3, <2>6, <2>9, <3>1, CountingGoesOn
    <3> QED  BY <2>5, <3>1, <3>2 DEF GoesOn
  <2>18. Counts(timer) => /\ p.got + ticks = (p.cycles + passed) \div period
                         /\ acc = (p.cycles + passed) % period
    <3> SUFFICES ASSUME Counts(timer)
                 PROVE  /\ p.got + ticks = (p.cycles + passed) \div period
                        /\ acc = (p.cycles + passed) % period
      OBVIOUS
    <3>1. p.got = p.cycles \div period /\ timer.acc = p.cycles % period
      BY <2>2, <2>8, <2>10 DEF ExactTimer
    <3>2. ticks = (timer.acc + cycles) \div period /\ acc = (timer.acc + cycles) % period
      BY <2>4, <2>10, <2>11 DEF Ticks, Leftover
    <3>3. Carries(p.cycles, cycles, period)
      BY <1>1, <2>9, <2>10, DivisionCarries
    <3>4. passed = cycles
      BY <2>12
    <3> QED  BY <3>1, <3>2, <3>3, <3>4 DEF Carries
  <2>19. i # 0 /\ timer.control.enabled /\ timer.control.cascade =>
           p.got + ticks = p.below + below
    <3> SUFFICES ASSUME i # 0, timer.control.enabled, timer.control.cascade
                 PROVE  p.got + ticks = p.below + below
      OBVIOUS
    <3>1. p.got = p.below
      BY <2>2, <2>8 DEF ExactTimer
    <3>2. i > 0
      BY Constants
    <3>3. ticks = below
      BY <2>4, <3>2 DEF Ticks, Counts
    <3> QED  BY <3>1, <3>3
  <2>20. ExactTimer(i, timers'[i], past'[i])
    <3>1. PICK now : now = timers'[i] /\ now = [reload |-> timer.reload, counter |-> counter,
                                               control |-> timer.control, acc |-> acc]
      BY <2>13
    <3>2. /\ now.reload = timer.reload /\ now.counter = counter
          /\ now.control = timer.control /\ now.acc = acc
      BY <3>1
    <3>3. (Counts(now) <=> Counts(timer)) /\ Period(now) = period
      BY <2>10, <3>2 DEF Counts, Period
    <3>4. PICK q : q = past'[i] /\ q = [from |-> p.from, ticks |-> p.ticks + ticks,
                     overflows |-> p.overflows + overflows,
                     cycles |-> p.cycles + passed, got |-> p.got + ticks,
                     below |-> p.below + below]
      BY <2>14
    <3>5. /\ q.from = p.from /\ q.ticks = p.ticks + ticks
          /\ q.overflows = p.overflows + overflows /\ q.cycles = p.cycles + passed
          /\ q.got = p.got + ticks /\ q.below = p.below + below
      BY <3>4
    <3>6. ExactTimer(i, now, q)
      BY <2>17, <2>18, <2>19, <3>2, <3>3, <3>5 DEF ExactTimer
    <3> QED  BY <3>1, <3>4, <3>6
  <2> QED  BY <2>3, <2>6, <2>13, <2>15, <2>16, <2>20
<1>5. Typed'
  <2>1. /\ timers' \in [TimerIds -> [reload: Halfwords, counter: Halfwords,
                                    control: Controls, acc: Nat]]
        /\ page' \in [TimerIds -> [low: Halfwords, control: Controls]]
        /\ past' \in [TimerIds -> Pasts]
    BY <1>3, <1>4
  <2>2. \A i \in TimerIds : past'[i] \in [DOMAIN NoPast -> Nat]
    BY <2>1, PastsAreRecords
  <2> QED  BY <1>3, <2>1, <2>2 DEF Typed, TypeOK, Pasts
<1> QED  BY <1>4, <1>5, ExactEachNext
\* The guest's store changes the page, never what a timer has counted.
LEMMA GuestExact ==
  ASSUME Typed, Exact, NEW i \in TimerIds, GuestWrites(i)
  PROVE  Typed' /\ Exact'
<1>1. timers' = timers /\ past' = past /\ writes < MaxWrites /\ writes' = writes + 1
  BY DEF GuestWrites
<1>2. writes' \in 0..MaxWrites
  BY <1>1, TimerAssumption DEF Typed, TypeOK
<1>3. /\ page \in [TimerIds -> [low: Halfwords, control: Controls]]
      /\ page[i].control \in Controls /\ 0 \in Halfwords
      /\ DOMAIN written = TimerIds
      /\ \A j \in TimerIds : written[j] \in Reloads \cup {0, Unsure}
  BY Constants DEF Typed, TypeOK
<1>4. /\ page' \in [TimerIds -> [low: Halfwords, control: Controls]]
      /\ kvm' \in [pc: {"idle", "read_low", "write_low", "write_high"},
                   timer: TimerIds, both: BOOLEAN, value: Halfwords]
      /\ DOMAIN written' = TimerIds
      /\ \A j \in TimerIds : written'[j] \in Reloads \cup {0, Unsure}
  <2>1. ASSUME NEW reload \in Reloads, NEW both \in BOOLEAN, NEW control \in Controls,
               page' = [page EXCEPT ![i] = [low |-> reload, control |-> control]],
               written' = [written EXCEPT ![i] =
                             IF timers[i].control.enabled THEN Unsure ELSE reload],
               kvm' = [Idle EXCEPT !.pc = "read_low", !.timer = i, !.both = both]
        PROVE  /\ page' \in [TimerIds -> [low: Halfwords, control: Controls]]
               /\ kvm' \in [pc: {"idle", "read_low", "write_low", "write_high"},
                            timer: TimerIds, both: BOOLEAN, value: Halfwords]
               /\ DOMAIN written' = TimerIds
               /\ \A j \in TimerIds : written'[j] \in Reloads \cup {0, Unsure}
    <3>1. reload \in Halfwords
      BY Constants
    <3>2. page' \in [TimerIds -> [low: Halfwords, control: Controls]]
      BY <1>3, <2>1, <3>1
    <3>3. kvm' = [pc |-> "read_low", timer |-> i, both |-> both, value |-> 0]
      BY <2>1 DEF Idle
    <3>4. DOMAIN written' = TimerIds
          /\ \A j \in TimerIds : written'[j] \in Reloads \cup {0, Unsure}
      BY <1>3, <2>1
    <3> QED  BY <1>3, <3>2, <3>3, <3>4
  <2>2. ASSUME NEW control \in Controls,
               page' = [page EXCEPT ![i].control = control],
               kvm' = [Idle EXCEPT !.pc = "write_high", !.timer = i],
               written' = written
        PROVE  /\ page' \in [TimerIds -> [low: Halfwords, control: Controls]]
               /\ kvm' \in [pc: {"idle", "read_low", "write_low", "write_high"},
                            timer: TimerIds, both: BOOLEAN, value: Halfwords]
               /\ DOMAIN written' = TimerIds
               /\ \A j \in TimerIds : written'[j] \in Reloads \cup {0, Unsure}
    <3>1. page' \in [TimerIds -> [low: Halfwords, control: Controls]]
      BY <1>3, <2>2
    <3>2. kvm' = [pc |-> "write_high", timer |-> i, both |-> FALSE, value |-> 0]
      BY <2>2 DEF Idle
    <3>3. kvm' \in [pc: {"idle", "read_low", "write_low", "write_high"},
                  timer: TimerIds, both: BOOLEAN, value: Halfwords]
      BY <1>3, <3>2
    <3>4. DOMAIN written' = TimerIds
          /\ \A j \in TimerIds : written'[j] \in Reloads \cup {0, Unsure}
      BY <1>3, <2>2
    <3> QED  BY <3>1, <3>3, <3>4
  <2> QED  BY <2>1, <2>2 DEF GuestWrites
<1>5. Typed'
  BY <1>1, <1>2, <1>4 DEF Typed, TypeOK
<1>6. Exact'
  BY <1>1, ExactEach, ExactEachNext
<1> QED  BY <1>5, <1>6

\* Reading the halfword back changes nothing but the KVM thread's state.
LEMMA ReadLowExact ==
  ASSUME Typed, Exact, ReadLow
  PROVE  Typed' /\ Exact'
<1>1. /\ timers' = timers /\ past' = past /\ page' = page /\ writes' = writes
      /\ written' = written
      /\ kvm' = [kvm EXCEPT !.pc = "write_low", !.value = page[kvm.timer].low]
  BY DEF ReadLow
<1>2. kvm \in [pc: {"idle", "read_low", "write_low", "write_high"},
               timer: TimerIds, both: BOOLEAN, value: Halfwords]
      /\ page[kvm.timer].low \in Halfwords
  BY DEF Typed, TypeOK
<1>3. kvm' \in [pc: {"idle", "read_low", "write_low", "write_high"},
                timer: TimerIds, both: BOOLEAN, value: Halfwords]
  BY <1>1, <1>2
<1>4. Typed'
  BY <1>1, <1>3 DEF Typed, TypeOK
<1>5. Exact'
  BY <1>1, ExactEach, ExactEachNext
<1> QED  BY <1>4, <1>5

\* A new reload value leaves the counter where it stands: the ticks are counted
\* from there, the cycles go on.
LEMMA WriteLowExact ==
  ASSUME Typed, Exact, WriteLow
  PROVE  Typed' /\ Exact'
<1>1. PICK i \in TimerIds, reload \in Halfwords : i = kvm.timer /\ reload = kvm.value
  BY DEF Typed, TypeOK
<1>2. /\ timers' = [timers EXCEPT ![i].reload = reload]
      /\ past' = [past EXCEPT ![i].from = timers[i].counter,
                              ![i].ticks = 0, ![i].overflows = 0]
      /\ page' = page /\ writes' = writes /\ written' = written
      /\ \/ kvm' = [kvm EXCEPT !.pc = "write_high", !.value = 0]
         \/ kvm' = Idle
  BY <1>1 DEF WriteLow
<1>3. PICK timer : timer = timers[i] /\ ExactTimer(i, timer, past[i])
  BY ExactEach
<1>4. /\ timer.counter \in Halfwords /\ timer.reload \in Halfwords
      /\ timer.control \in Controls /\ timer.acc \in Nat
      /\ timer = [reload |-> timer.reload, counter |-> timer.counter,
                  control |-> timer.control, acc |-> timer.acc]
  BY <1>3 DEF Typed, TypeOK
<1>5. PICK p \in Pasts : p = past[i]
  BY DEF Typed
<1>6. /\ p = [from |-> p.from, ticks |-> p.ticks, overflows |-> p.overflows,
              cycles |-> p.cycles, got |-> p.got, below |-> p.below]
      /\ p.cycles \in Nat /\ p.got \in Nat /\ p.below \in Nat
  BY DEF Pasts
<1>7. PICK now : /\ now = [reload |-> reload, counter |-> timer.counter,
                           control |-> timer.control, acc |-> timer.acc]
                 /\ timers' = [timers EXCEPT ![i] = now]
  <2>1. [timer EXCEPT !.reload = reload] =
          [reload |-> reload, counter |-> timer.counter,
           control |-> timer.control, acc |-> timer.acc]
    BY <1>4
  <2>2. timers' = [timers EXCEPT ![i] = [timer EXCEPT !.reload = reload]]
    BY <1>2, <1>3
  <2> QED  BY <2>1, <2>2
<1>8. PICK q : /\ q = [from |-> timer.counter, ticks |-> 0, overflows |-> 0,
                       cycles |-> p.cycles, got |-> p.got, below |-> p.below]
               /\ past' = [past EXCEPT ![i] = q]
  <2>1. PICK counter : counter = timer.counter
    OBVIOUS
  <2>2. PICK q : q = [p EXCEPT !.from = counter, !.ticks = 0, !.overflows = 0]
    OBVIOUS
  <2>3. q = [from |-> counter, ticks |-> 0, overflows |-> 0,
             cycles |-> p.cycles, got |-> p.got, below |-> p.below]
    BY <1>6, <2>2
  <2>4. past' = [past EXCEPT ![i] = q]
    BY <1>2, <1>3, <1>5, <2>1, <2>2 DEF Typed
  <2> QED  BY <2>1, <2>3, <2>4
<1>9. now \in [reload: Halfwords, counter: Halfwords, control: Controls, acc: Nat]
      /\ q \in Pasts
  BY <1>4, <1>6, <1>7, <1>8 DEF Pasts
<1>10. kvm' \in [pc: {"idle", "read_low", "write_low", "write_high"},
                 timer: TimerIds, both: BOOLEAN, value: Halfwords]
  <2>1. kvm \in [pc: {"idle", "read_low", "write_low", "write_high"},
                 timer: TimerIds, both: BOOLEAN, value: Halfwords]
        /\ 0 \in Halfwords /\ 0 \in TimerIds
    BY Constants DEF Typed, TypeOK
  <2>2. CASE kvm' = Idle
    BY <2>1, <2>2 DEF Idle
  <2>3. CASE kvm' = [kvm EXCEPT !.pc = "write_high", !.value = 0]
    BY <2>1, <2>3
  <2> QED  BY <1>2, <2>2, <2>3
<1>11. Typed'
  <2>1. /\ timers' \in [TimerIds -> [reload: Halfwords, counter: Halfwords,
                                    control: Controls, acc: Nat]]
        /\ past' \in [TimerIds -> Pasts]
    BY <1>7, <1>8, <1>9 DEF Typed, TypeOK
  <2>2. \A j \in TimerIds : past'[j] \in [DOMAIN NoPast -> Nat]
    BY <2>1, PastsAreRecords
  <2> QED  BY <1>2, <1>10, <2>1, <2>2 DEF Typed, TypeOK
<1>12. ExactTimer(i, now, q)
  <2>1. /\ now.reload = reload /\ now.counter = timer.counter
        /\ now.control = timer.control /\ now.acc = timer.acc
        /\ q.from = timer.counter /\ q.ticks = 0 /\ q.overflows = 0
        /\ q.cycles = p.cycles /\ q.got = p.got /\ q.below = p.below
    BY <1>7, <1>8
  <2>2. /\ RefCounter(timer.counter, reload, 0) = timer.counter
        /\ RefOverflows(timer.counter, reload, 0) = 0
    BY <1>4, FirstTick
  <2>3. (Counts(now) <=> Counts(timer)) /\ Period(now) = Period(timer)
    BY <2>1 DEF Counts, Period
  <2> QED  BY <1>3, <1>5, <2>1, <2>2, <2>3 DEF ExactTimer
<1>13. \A j \in TimerIds : ExactTimer(j, timers'[j], past'[j])
  <2> TAKE j \in TimerIds
  <2>1. CASE j = i
    <3>1. timers'[j] = now /\ past'[j] = q
      BY <1>7, <1>8, <2>1 DEF Typed, TypeOK
    <3> QED  BY <1>12, <2>1, <3>1
  <2>2. CASE j # i
    <3>1. timers'[j] = timers[j] /\ past'[j] = past[j]
      BY <1>7, <1>8, <2>2 DEF Typed, TypeOK
    <3> QED  BY <3>1, ExactEach
  <2> QED  BY <2>1, <2>2
<1> QED  BY <1>11, <1>13, ExactEachNext

\* A control write begins the timer's history anew.
LEMMA WriteHighExact ==
  ASSUME Typed, Exact, WriteHigh
  PROVE  Typed' /\ Exact'
<1>1. PICK i \in TimerIds : i = kvm.timer
  BY DEF Typed, TypeOK
<1>2. PICK timer : /\ timer = timers[i]
                   /\ timer.counter \in Halfwords /\ timer.reload \in Halfwords
                   /\ timer.control \in Controls /\ timer.acc \in Nat
                   /\ timer = [reload |-> timer.reload, counter |-> timer.counter,
                               control |-> timer.control, acc |-> timer.acc]
  BY DEF Typed, TypeOK
<1>3. PICK control \in Controls : control = page[i].control
  BY DEF Typed, TypeOK
<1>4. PICK starts \in BOOLEAN : starts = (control.enabled /\ ~timer.control.enabled)
  OBVIOUS
<1>5. PICK counter \in Halfwords :
        counter = IF starts THEN timer.reload ELSE timer.counter
  BY <1>2
<1>6. /\ timers' = [timers EXCEPT ![i].control = control, ![i].acc = 0,
                                  ![i].counter = counter]
      /\ page' = IF starts THEN [page EXCEPT ![i].low = counter] ELSE page
      /\ past' = [past EXCEPT ![i] = [NoPast EXCEPT !.from = counter]]
      /\ kvm' = Idle /\ writes' = writes /\ written' = written
  BY <1>1, <1>2, <1>3, <1>4, <1>5 DEF WriteHigh
<1>7. PICK now : /\ now = [reload |-> timer.reload, counter |-> counter,
                           control |-> control, acc |-> 0]
                 /\ timers' = [timers EXCEPT ![i] = now]
  <2>1. PICK now : now = [timer EXCEPT !.control = control, !.acc = 0,
                                       !.counter = counter]
    OBVIOUS
  <2>2. now = [reload |-> timer.reload, counter |-> counter,
               control |-> control, acc |-> 0]
    BY <1>2, <2>1
  <2>3. timers' = [timers EXCEPT ![i] = now]
    BY <1>2, <1>6, <2>1 DEF Typed, TypeOK
  <2> QED  BY <2>2, <2>3
<1>8. PICK q : q = [NoPast EXCEPT !.from = counter]
  OBVIOUS
<1>9. now \in [reload: Halfwords, counter: Halfwords, control: Controls, acc: Nat]
  BY <1>2, <1>7
<1>10. q \in Pasts
  <2>1. q = [from |-> counter, ticks |-> 0, overflows |-> 0, cycles |-> 0,
             got |-> 0, below |-> 0]
    BY <1>8 DEF NoPast
  <2> QED  BY <2>1 DEF Pasts
<1>11. page' \in [TimerIds -> [low: Halfwords, control: Controls]]
  BY <1>6 DEF Typed, TypeOK
<1>12. kvm' \in [pc: {"idle", "read_low", "write_low", "write_high"},
                 timer: TimerIds, both: BOOLEAN, value: Halfwords]
  BY <1>6, Constants DEF Idle
<1>13. Typed'
  <2>1. /\ timers' \in [TimerIds -> [reload: Halfwords, counter: Halfwords,
                                    control: Controls, acc: Nat]]
        /\ past' \in [TimerIds -> Pasts]
    <3>1. past' = [past EXCEPT ![i] = q]
      BY <1>6, <1>8
    <3>2. past' \in [TimerIds -> Pasts]
      BY <1>10, <3>1 DEF Typed
    <3>3. timers' \in [TimerIds -> [reload: Halfwords, counter: Halfwords,
                                    control: Controls, acc: Nat]]
      BY <1>7, <1>9 DEF Typed, TypeOK
    <3> QED  BY <3>2, <3>3
  <2>2. \A j \in TimerIds : past'[j] \in [DOMAIN NoPast -> Nat]
    BY <2>1, PastsAreRecords
  <2> QED  BY <1>6, <1>11, <1>12, <2>1, <2>2 DEF Typed, TypeOK
<1>14. ExactTimer(i, now, q)
  <2>1. now.counter = counter /\ now.reload = timer.reload /\ now.control = control
        /\ now.acc = 0
    BY <1>7
  <2> QED  BY <1>2, <1>8, <2>1, ExactBegins
<1>15. \A j \in TimerIds : ExactTimer(j, timers'[j], past'[j])
  <2> TAKE j \in TimerIds
  <2>1. CASE j = i
    <3>1. timers'[j] = now /\ past'[j] = q
      BY <1>6, <1>7, <1>8, <2>1 DEF Typed, TypeOK
    <3> QED  BY <1>14, <2>1, <3>1
  <2>2. CASE j # i
    <3>1. timers'[j] = timers[j] /\ past'[j] = past[j]
      BY <1>6, <1>7, <2>2 DEF Typed, TypeOK
    <3> QED  BY <3>1, ExactEach
  <2> QED  BY <2>1, <2>2
<1> QED  BY <1>13, <1>15, ExactEachNext

LEMMA ExactInductive == Typed /\ Exact /\ [Next]_vars => (Typed /\ Exact)'
<1> SUFFICES ASSUME Typed, Exact, [Next]_vars PROVE Typed' /\ Exact'
  OBVIOUS
<1>1. ASSUME NEW i \in TimerIds, GuestWrites(i) PROVE Typed' /\ Exact'
  BY <1>1, GuestExact
<1>2. CASE ReadLow
  BY <1>2, ReadLowExact
<1>3. CASE WriteLow
  BY <1>3, WriteLowExact
<1>4. CASE WriteHigh
  BY <1>4, WriteHighExact
<1>5. ASSUME NEW cycles \in Batches, Advance(cycles) PROVE Typed' /\ Exact'
  BY <1>5, AdvanceExact
<1>6. CASE UNCHANGED vars
  <2>1. Typed'
    BY <1>6 DEF vars, Typed, TypeOK
  <2>2. timers' = timers /\ past' = past
    BY <1>6 DEF vars
  <2> QED  BY <2>1, <2>2, ExactEach, ExactEachNext
<1> QED  BY <1>1, <1>2, <1>3, <1>4, <1>5, <1>6 DEF Next

THEOREM ExactInvariance == Spec => [](Typed /\ Exact)
  BY ExactInitially, ExactInductive, PTL DEF Spec

\* The variables keep their types; a counter and a reload value are always
\* halfwords (Timer's u16 fields), whatever is written and however many overflows
\* one call of advance brings.
THEOREM TypeCorrect == Spec => []TypeOK
<1>1. Typed /\ Exact => TypeOK
  BY DEF Typed
<1> QED  BY <1>1, ExactInvariance, PTL

\* However the ticks are batched into calls of advance, and whatever the guest
\* writes in between, add_ticks' loop leaves the counter, and has reported the
\* overflows, that a counter of Modulus - reload ticks per overflow has.
THEOREM CountersExact == Spec => []CounterExact
<1>1. Typed /\ Exact => CounterExact
  BY DEF Exact
<1> QED  BY <1>1, ExactInvariance, PTL

\* accumulated_cycles loses no cycle and counts none twice: since its control was
\* written a timer has made one tick per whole period of its cycles.
THEOREM NoCyclesLost == Spec => []NoCycleLost
<1>1. Typed /\ Exact => NoCycleLost
  BY DEF Exact
<1> QED  BY <1>1, ExactInvariance, PTL

\* advance_cascade_timer gives a cascading timer exactly the overflows of the
\* timer below, whatever is written to that one meanwhile.
THEOREM CascadesExact == Spec => []CascadeExact
<1>1. Typed /\ Exact => CascadeExact
  BY DEF Exact
<1> QED  BY <1>1, ExactInvariance, PTL
=============================================================================
