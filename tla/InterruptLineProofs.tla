------------------------ MODULE InterruptLineProofs ------------------------
(***************************************************************************)
(* For every frame geometry and repertoire of guest writes: VBLANK is      *)
(* requested once in a frame if it is enabled in time, and else not at     *)
(* all, although the vcount clock and the KVM thread both read, modify and *)
(* write DISPSTAT without a lock.                                          *)
(***************************************************************************)
EXTENDS InterruptLine, TLAPS

Registers == {"IF", "IE", "IME", "DISPSTAT"}
Bits == Interrupts \cup IrqEnables \cup {"ON"}
ClockPcs == {"line_read", "line_write", "vblank_read", "vblank_if", "vblank_pulse",
             "hdraw", "hblank_read", "hblank_write", "prepare", "hblank_if", "hblank_set", "hblank_pulse",
             "wait", "finish", "finish_if", "next"}
KvmPcs == {"idle", "store", "settle"}
CallPcs == {"none", "sample", "swap", "set_level", "store", "low"}

ClockStates == [pc: ClockPcs, vcount: 0..(TotalLines - 1), flags: SUBSET Bits,
                dispstat: SUBSET Bits]
KvmStates == [pc: KvmPcs, write: Writes, flags: SUBSET Bits, dispstat: SUBSET Bits]
CallStates == [Threads -> [pc: CallPcs, want: BOOLEAN]]
FrameStates == [requests: Nat, expected: {0, 1}, enables: SUBSET IrqEnables,
                clean: BOOLEAN, kept: BOOLEAN]

Typed ==
  /\ io \in [Registers -> SUBSET Bits]
  /\ clock \in ClockStates /\ kvm \in KvmStates /\ call \in CallStates
  /\ asserted \in BOOLEAN /\ level \in BOOLEAN /\ shadow \in SUBSET Bits
  /\ guest \in {"run", "irq", "slow", "fast"}
  /\ frame \in FrameStates

-----------------------------------------------------------------------------
(* The inductive invariant.                                                *)

\* mirror_io_write of DISPSTAT is between its read of the register and its last
\* write; what it read then stands for the register.
InFlight == kvm.write.reg = "DISPSTAT"
Settled == InFlight => kvm.pc \in {"store", "settle"}

\* An update of the clock's which keeps a promise about DISPSTAT overlaps none of
\* the guest's, and writes back what is still there.
Undisturbed ==
  (frame.clean \/ frame.kept) /\ clock.pc \in {"line_write", "hblank_write"} =>
    ~InFlight /\ clock.dispstat = io.DISPSTAT

\* The line's status has been written; the frame's VBLANK has not begun.
InLine == clock.pc \notin {"line_read", "line_write"}
Before == clock.vcount < VisibleLines \/ (clock.vcount = VisibleLines /\ ~InLine)

\* The VBLANK bit rises once, where VBLANK begins.
VblankBit == "VBLANK" \in IF InFlight THEN kvm.dispstat ELSE io.DISPSTAT
StatusRight ==
  frame.clean =>
    /\ Before /\ (InLine \/ clock.vcount = VisibleLines) => ~VblankBit
    /\ ~Before => VblankBit

\* The register enables what the guest enabled.
EnablesRight ==
  frame.kept =>
    frame.enables = IrqEnables \cap
      IF InFlight THEN DispstatWritten(kvm.dispstat, kvm.write) ELSE io.DISPSTAT

\* Nothing is requested before VBLANK begins, then what is expected.
Counted ==
  /\ Before /\ ~(clock.vcount = 0 /\ clock.pc = "line_read") =>
       frame.requests = 0 /\ frame.expected = 0
  /\ ~Before /\ frame.clean => frame.requests = frame.expected

KeepsInv == Settled /\ Undisturbed /\ StatusRight /\ EnablesRight /\ Counted
IInv == Typed /\ KeepsInv

-----------------------------------------------------------------------------
(* Initially.                                                              *)

LEMMA IdleTyped == Idle \in KvmStates
<1>1. NoWrite \in [reg: {"FAST_EXIT"}, mask: {{}}, val: {{}}]
  BY DEF NoWrite
<1>2. NoWrite \in Writes
  BY <1>1 DEF Writes
<1> QED  BY <1>2 DEF Idle, KvmStates, KvmPcs

LEMMA AtLineTyped ==
  ASSUME NEW n \in 0..(TotalLines - 1)
  PROVE  AtLine(n) \in ClockStates
BY DEF AtLine, ClockStates, ClockPcs

LEMMA InitInv == Init => IInv
<1> SUFFICES ASSUME Init PROVE IInv
  OBVIOUS
<1>1. 0 \in 0..(TotalLines - 1)
  BY LineAssumption
<1>2. Typed
  <2>1. io \in [Registers -> SUBSET Bits]
    BY DEF Init, Registers
  <2>2. call \in CallStates
    BY DEF Init, CallStates, CallPcs, Returned
  <2>3. frame \in FrameStates
    BY DEF Init, FrameStates
  <2> QED  BY <1>1, <2>1, <2>2, <2>3, IdleTyped, AtLineTyped DEF Init, Typed
<1>3. ~InFlight /\ ~InLine
  BY DEF Init, AtLine, Idle, NoWrite, InFlight, InLine
<1>4. frame.enables = {} /\ io.DISPSTAT = {} /\ clock.pc = "line_read" /\ clock.vcount = 0
  BY DEF Init, AtLine
<1>5. KeepsInv
  BY <1>3, <1>4, LineAssumption DEF KeepsInv, Settled, Undisturbed, StatusRight,
    EnablesRight, Counted, Before, InLine, VblankBit
<1> QED  BY <1>2, <1>5 DEF IInv

-----------------------------------------------------------------------------
(* InterruptLine's functions leave the registers alone.                    *)

\* A call moves on, or returns.
LEMMA CallMoves ==
  ASSUME call \in CallStates, NEW t \in Threads
  PROVE  /\ \A pc \in CallPcs : CallTo(t, pc) => call' \in CallStates
         /\ \A pc \in CallPcs : Calls(t, pc) => call' \in CallStates
         /\ Return(t) => call' \in CallStates
<1>1. Returned \in [pc: CallPcs, want: BOOLEAN]
  BY DEF Returned, CallPcs
<1>2. \A pc \in CallPcs : [pc |-> pc, want |-> pc # "sample"] \in [pc: CallPcs, want: BOOLEAN]
  OBVIOUS
<1>3. \A pc \in CallPcs : CallTo(t, pc) => call' \in CallStates
  BY DEF CallStates, CallTo
<1>4. \A c \in [pc: CallPcs, want: BOOLEAN] : [call EXCEPT ![t] = c] \in CallStates
  BY DEF CallStates
<1>5. \A pc \in CallPcs : Calls(t, pc) => call' \in CallStates
  BY <1>2, <1>4 DEF Calls
<1> QED  BY <1>1, <1>3, <1>4, <1>5 DEF Return

LEMMA LineStepInv ==
  ASSUME IInv, NEW t \in Threads, LineStep(t)
  PROVE  IInv'
<1> USE DEF IInv, Typed
<1>1. UNCHANGED <<io, clock, kvm, guest, frame, shadow>>
  BY DEF LineStep, Sample, Swap, SetLevel, PulseStore, PulseLow
<1>2. call[t] \in [pc: CallPcs, want: BOOLEAN]
  BY DEF CallStates
<1>3. {"swap", "set_level", "low"} \subseteq CallPcs
  BY DEF CallPcs
<1>4. call' \in CallStates /\ asserted' \in BOOLEAN /\ level' \in BOOLEAN
  <2>1. CASE Sample(t)
    <3>1. PICK want \in BOOLEAN : call' = [call EXCEPT ![t] = [pc |-> "swap", want |-> want]]
      BY <2>1, Zenon DEF Sample
    <3> QED  BY <1>3, <2>1, <3>1 DEF Sample, CallStates
  <2>2. CASE Swap(t)
    BY <1>2, <1>3, <2>2, CallMoves DEF Swap
  <2>3. CASE SetLevel(t)
    BY <1>2, <2>3, CallMoves DEF SetLevel
  <2>4. CASE PulseStore(t)
    BY <1>3, <2>4, CallMoves DEF PulseStore
  <2>5. CASE PulseLow(t)
    BY <1>3, <2>5, CallMoves DEF PulseLow
  <2> QED  BY <2>1, <2>2, <2>3, <2>4, <2>5 DEF LineStep
<1> QED
  BY <1>1, <1>4 DEF KeepsInv, Settled, Undisturbed, StatusRight, EnablesRight, Counted,
    Before, InLine, VblankBit, InFlight

-----------------------------------------------------------------------------
(* The vcount clock.                                                       *)

\* Where the clock is, what it remembers of a register, and in which line.
LEMMA ClockParts ==
  ASSUME clock \in ClockStates
  PROVE  /\ clock.pc \in ClockPcs /\ clock.vcount \in 0..(TotalLines - 1)
         /\ clock.flags \subseteq Bits /\ clock.dispstat \subseteq Bits
         /\ \A pc \in ClockPcs, flags \in SUBSET Bits, dispstat \in SUBSET Bits :
              [clock EXCEPT !.pc = pc, !.flags = flags, !.dispstat = dispstat] \in ClockStates
BY DEF ClockStates

\* A request's accesses to IF touch nothing the invariant relates.
LEMMA FlagsAside ==
  ASSUME IInv, Typed', UNCHANGED <<kvm, frame>>, io'.DISPSTAT = io.DISPSTAT,
         clock'.vcount = clock.vcount,
         clock.pc \notin {"line_read", "line_write"},
         clock'.pc \notin {"line_read", "line_write", "hblank_write"}
  PROVE  IInv'
BY DEF IInv, KeepsInv, Settled, Undisturbed, StatusRight, EnablesRight, Counted, Before,
  InLine, VblankBit, InFlight

LEMMA LineReadInv == IInv /\ LineRead => IInv'
<1> SUFFICES ASSUME IInv, LineRead PROVE IInv'
  OBVIOUS
<1> USE DEF IInv, Typed
<1>1. /\ UNCHANGED <<io, asserted, level, kvm, call, guest, shadow>>
      /\ clock.pc = "line_read" /\ clock' = [clock EXCEPT !.pc = "line_write", !.dispstat = io.DISPSTAT]
  BY DEF LineRead, ClockAt
<1>2. /\ frame'.requests = IF clock.vcount = 0 THEN 0 ELSE frame.requests
      /\ frame'.expected = IF clock.vcount = 0 THEN 0 ELSE frame.expected
      /\ frame'.enables = frame.enables
      /\ frame'.clean <=> ~InFlight /\ (frame.clean \/ clock.vcount < VisibleLines)
      /\ frame'.kept <=> ~InFlight /\ frame.kept
      /\ frame' \in FrameStates
  BY DEF LineRead, Apart, InFlight, FrameStates
<1>3. clock' \in ClockStates /\ clock'.pc = "line_write" /\ clock'.vcount = clock.vcount
      /\ clock'.dispstat = io.DISPSTAT
  BY <1>1 DEF ClockStates, ClockPcs, Registers
<1>4. Typed'
  BY <1>1, <1>2, <1>3
<1>5. clock.vcount \in Nat /\ VisibleLines \in Nat \ {0}
  BY LineAssumption DEF ClockStates
<1>6. InFlight' = InFlight
  BY <1>1 DEF InFlight
<1>7. Settled' /\ Undisturbed' /\ EnablesRight'
  BY <1>1, <1>2, <1>3, <1>6 DEF KeepsInv, Settled, Undisturbed, EnablesRight
<1>8. StatusRight'
  BY <1>1, <1>2, <1>3, <1>5, <1>6 DEF KeepsInv, StatusRight, Before, InLine, VblankBit
<1>9. Counted'
  BY <1>1, <1>2, <1>3, <1>5 DEF KeepsInv, Counted, Before, InLine
<1> QED  BY <1>4, <1>7, <1>8, <1>9 DEF KeepsInv

LEMMA LineWriteInv == IInv /\ LineWrite => IInv'
<1> SUFFICES ASSUME IInv, LineWrite PROVE IInv'
  OBVIOUS
<1> USE DEF IInv, Typed
<1> DEFINE dispstat == (clock.dispstat \ Status)
                         \cup (IF clock.vcount >= VisibleLines THEN {"VBLANK"} ELSE {})
           rises == "VBLANK" \in dispstat \ clock.dispstat
           requests == rises /\ "VBLANK_IRQ_ENABLE" \in dispstat
<1>1. /\ UNCHANGED <<asserted, level, kvm, call, guest, shadow>>
      /\ clock.pc = "line_write"
      /\ io' = [io EXCEPT !.DISPSTAT = dispstat]
      /\ clock' = [clock EXCEPT !.pc = IF requests THEN "vblank_read" ELSE "hdraw",
                                !.dispstat = {}]
  BY DEF LineWrite, ClockAt
<1> DEFINE expects == clock.vcount = VisibleLines /\ "VBLANK_IRQ_ENABLE" \in frame.enables
           keeps == frame.clean /\ (frame.kept \/ clock.vcount # VisibleLines)
<1>2. /\ frame'.requests = IF requests THEN frame.requests + 1 ELSE frame.requests
      /\ frame'.expected = IF expects THEN 1 ELSE frame.expected
      /\ frame'.enables = frame.enables
      /\ frame'.clean <=> ~InFlight /\ keeps
      /\ frame'.kept <=> ~InFlight /\ frame.kept
      /\ frame' \in FrameStates
  <2> DEFINE next == [frame EXCEPT
                       !.requests = IF requests THEN @ + 1 ELSE @,
                       !.expected = IF expects THEN 1 ELSE @,
                       !.clean = @ /\ (frame.kept \/ clock.vcount # VisibleLines)]
  <2>1. frame' = Apart(next)
    BY DEF LineWrite
  <2>2. /\ next.requests = IF requests THEN frame.requests + 1 ELSE frame.requests
        /\ next.expected = IF expects THEN 1 ELSE frame.expected
        /\ next.enables = frame.enables /\ next.kept = frame.kept
        /\ next.clean <=> keeps
    BY DEF FrameStates
  <2>3. next \in FrameStates
    <3>1. PICK n \in Nat, e \in {0, 1}, c \in BOOLEAN :
            next = [frame EXCEPT !.requests = n, !.expected = e, !.clean = c]
      <4>1. (IF requests THEN frame.requests + 1 ELSE frame.requests) \in Nat
        BY DEF FrameStates
      <4>2. (IF expects THEN 1 ELSE frame.expected) \in {0, 1}
        BY DEF FrameStates
      <4>3. keeps \in BOOLEAN
        BY DEF FrameStates
      <4> HIDE DEF requests, expects
      <4> QED  BY <4>1, <4>2, <4>3, Zenon
    <3> HIDE DEF next
    <3> QED  BY <3>1 DEF FrameStates
  <2> HIDE DEF next
  <2>4. CASE InFlight
    <3>1. frame' = [next EXCEPT !.clean = FALSE, !.kept = FALSE]
      BY <2>1, <2>4 DEF Apart, InFlight
    <3> QED  BY <2>2, <2>3, <2>4, <3>1 DEF FrameStates
  <2>5. CASE ~InFlight
    <3>1. frame' = next
      BY <2>1, <2>5 DEF Apart, InFlight
    <3> QED  BY <2>2, <2>3, <2>5, <3>1
  <2> QED  BY <2>4, <2>5
<1>3. clock' \in ClockStates /\ clock'.vcount = clock.vcount
      /\ clock'.pc \in {"vblank_read", "hdraw"}
  BY <1>1 DEF ClockStates, ClockPcs
<1>4. dispstat \subseteq Bits
  BY DEF ClockStates, Bits, Interrupts
<1>5. io' \in [Registers -> SUBSET Bits] /\ io'.DISPSTAT = dispstat
  BY <1>1, <1>4 DEF Registers
<1>6. Typed'
  BY <1>1, <1>2, <1>3, <1>5
<1>7. clock.vcount \in Nat /\ VisibleLines \in Nat \ {0}
  BY LineAssumption DEF ClockStates
<1>8. InFlight' = InFlight
  BY <1>1 DEF InFlight
<1>9. Settled' /\ Undisturbed'
  BY <1>1, <1>3, <1>8 DEF KeepsInv, Settled, Undisturbed
<1>10. IrqEnables \cap dispstat = IrqEnables \cap clock.dispstat
  BY DEF IrqEnables, Status
<1>11. EnablesRight'
  BY <1>1, <1>2, <1>5, <1>8, <1>10 DEF KeepsInv, Undisturbed, EnablesRight
<1>12. "VBLANK" \in dispstat <=> clock.vcount >= VisibleLines
  BY DEF Status
<1>13. StatusRight'
  BY <1>2, <1>3, <1>5, <1>7, <1>8, <1>12 DEF StatusRight, Before, InLine, VblankBit
<1>14. Counted'
  <2>1. ~(clock.vcount = 0 /\ clock.pc = "line_read") /\ ~InLine /\ InLine'
    BY <1>1, <1>3 DEF InLine
  <2>2. CASE clock.vcount < VisibleLines
    <3>1. Before /\ ~requests /\ clock.vcount # VisibleLines
      BY <1>7, <1>12, <2>2 DEF Before
    <3> QED  BY <1>2, <1>3, <1>7, <2>1, <2>2, <3>1 DEF KeepsInv, Counted, Before
  <2>3. CASE clock.vcount = VisibleLines
    <3>1. Before /\ ~Before' /\ frame.requests = 0 /\ frame.expected = 0
      BY <1>3, <1>7, <2>1, <2>3 DEF Before, KeepsInv, Counted
    <3>2. ASSUME frame'.clean PROVE requests <=> "VBLANK_IRQ_ENABLE" \in frame.enables
      <4>1. frame.clean /\ frame.kept /\ ~InFlight /\ clock.dispstat = io.DISPSTAT
        BY <1>1, <1>2, <2>3, <3>2 DEF KeepsInv, Undisturbed
      <4>2. "VBLANK" \notin clock.dispstat
        BY <2>3, <3>1, <4>1 DEF KeepsInv, StatusRight, VblankBit
      <4>3. frame.enables = IrqEnables \cap clock.dispstat
        BY <4>1 DEF KeepsInv, EnablesRight
      <4> QED  BY <1>7, <1>10, <1>12, <2>3, <4>2, <4>3 DEF IrqEnables
    <3> QED  BY <1>2, <2>1, <2>3, <3>1, <3>2 DEF Counted
  <2>4. CASE clock.vcount > VisibleLines
    <3>1. ~Before /\ ~Before'
      BY <1>3, <1>7, <2>4 DEF Before
    <3>2. ASSUME frame'.clean PROVE ~requests
      <4>1. frame.clean /\ ~InFlight /\ clock.dispstat = io.DISPSTAT
        BY <1>1, <1>2, <3>2 DEF KeepsInv, Undisturbed
      <4> QED  BY <3>1, <4>1 DEF KeepsInv, StatusRight, VblankBit
    <3> QED  BY <1>2, <1>7, <2>4, <3>1, <3>2 DEF KeepsInv, Counted
  <2> QED  BY <1>7, <2>2, <2>3, <2>4
<1> QED  BY <1>6, <1>9, <1>11, <1>13, <1>14 DEF KeepsInv

\* enter_hblank's two accesses.
LEMMA HblankInv == IInv /\ (HblankRead \/ HblankWrite) => IInv'
<1> SUFFICES ASSUME IInv, HblankRead \/ HblankWrite PROVE IInv'
  OBVIOUS
<1> USE DEF IInv, Typed
<1>1. clock.vcount \in Nat /\ VisibleLines \in Nat \ {0}
  BY LineAssumption DEF ClockStates
<1>2. ASSUME frame' = Apart(frame) PROVE
        /\ frame'.requests = frame.requests /\ frame'.expected = frame.expected
        /\ frame'.enables = frame.enables /\ frame' \in FrameStates
        /\ frame'.clean <=> ~InFlight /\ frame.clean
        /\ frame'.kept <=> ~InFlight /\ frame.kept
  BY <1>2 DEF Apart, InFlight, FrameStates
<1>3. CASE HblankRead
  <2>1. /\ UNCHANGED <<io, asserted, level, kvm, call, guest, shadow>> /\ clock.pc = "hblank_read"
        /\ frame' = Apart(frame)
        /\ clock' = [clock EXCEPT !.pc = "hblank_write", !.dispstat = io.DISPSTAT]
    BY <1>3 DEF HblankRead, ClockAt
  <2>2. /\ clock' \in ClockStates /\ clock'.vcount = clock.vcount
        /\ clock'.pc = "hblank_write" /\ clock'.dispstat = io.DISPSTAT
    BY <2>1 DEF ClockStates, ClockPcs, Registers
  <2>3. Typed'
    BY <1>2, <2>1, <2>2
  <2>4. InFlight' = InFlight /\ InLine /\ InLine' /\ VblankBit' = VblankBit /\ Before' = Before
    BY <2>1, <2>2 DEF InFlight, InLine, VblankBit, Before
  <2>5. Settled' /\ Undisturbed' /\ EnablesRight'
    BY <1>2, <2>1, <2>2, <2>4 DEF KeepsInv, Settled, Undisturbed, EnablesRight
  <2>6. StatusRight' /\ Counted'
    BY <1>2, <2>1, <2>2, <2>4 DEF KeepsInv, StatusRight, Counted
  <2> QED  BY <2>3, <2>5, <2>6 DEF KeepsInv
<1>4. CASE HblankWrite
  <2>1. PICK pc \in {"prepare", "next"} :
          /\ UNCHANGED <<asserted, level, kvm, call, guest, shadow>> /\ clock.pc = "hblank_write"
          /\ frame' = Apart(frame)
          /\ io' = [io EXCEPT !.DISPSTAT = clock.dispstat \cup {"HBLANK"}]
          /\ clock' = [clock EXCEPT !.pc = pc, !.dispstat = {}]
    BY <1>4 DEF HblankWrite, ClockAt
  <2>2. clock' \in ClockStates /\ clock'.vcount = clock.vcount /\ clock'.pc = pc
    BY <2>1 DEF ClockStates, ClockPcs
  <2>3. clock.dispstat \cup {"HBLANK"} \in SUBSET Bits
    BY DEF ClockStates, Bits, Interrupts
  <2>4. io' \in [Registers -> SUBSET Bits] /\ io'.DISPSTAT = clock.dispstat \cup {"HBLANK"}
    BY <2>1, <2>3 DEF Registers
  <2>5. Typed'
    BY <1>2, <2>1, <2>2, <2>4
  <2>6. InFlight' = InFlight /\ InLine /\ InLine' /\ Before' = Before
    BY <2>1, <2>2 DEF InFlight, InLine, Before
  <2>7. (frame'.clean \/ frame'.kept) => ~InFlight /\ clock.dispstat = io.DISPSTAT
    BY <1>2, <2>1 DEF KeepsInv, Undisturbed
  <2>8. IrqEnables \cap io'.DISPSTAT = IrqEnables \cap clock.dispstat
        /\ ("VBLANK" \in io'.DISPSTAT <=> "VBLANK" \in clock.dispstat)
    BY <2>4 DEF IrqEnables
  <2>9. Settled' /\ Undisturbed' /\ EnablesRight'
    BY <1>2, <2>1, <2>2, <2>6, <2>7, <2>8 DEF KeepsInv, Settled, Undisturbed, EnablesRight
  <2>10. StatusRight' /\ Counted'
    BY <1>2, <2>1, <2>2, <2>6, <2>7, <2>8 DEF KeepsInv, StatusRight, Counted, VblankBit
  <2> QED  BY <2>5, <2>9, <2>10 DEF KeepsInv
<1> QED  BY <1>3, <1>4

LEMMA NextLineInv == IInv /\ NextLine => IInv'
<1> SUFFICES ASSUME IInv, NextLine PROVE IInv'
  OBVIOUS
<1> USE DEF IInv, Typed
<1>1. /\ UNCHANGED <<io, asserted, level, kvm, call, guest, frame, shadow>>
      /\ clock.pc = "next" /\ clock' = AtLine((clock.vcount + 1) % TotalLines)
  BY DEF NextLine, ClockAt
<1>2. /\ clock.vcount \in 0..(TotalLines - 1) /\ TotalLines \in Nat /\ VisibleLines \in Nat \ {0}
      /\ VisibleLines + 1 < TotalLines
  BY LineAssumption DEF ClockStates
<1>3. /\ (clock.vcount + 1) % TotalLines \in 0..(TotalLines - 1)
      /\ (clock.vcount + 1) % TotalLines = IF clock.vcount = TotalLines - 1 THEN 0
                                           ELSE clock.vcount + 1
  BY <1>2
<1>4. clock' \in ClockStates
  BY <1>1, <1>3, AtLineTyped
<1>5. clock'.pc = "line_read"
      /\ clock'.vcount = IF clock.vcount = TotalLines - 1 THEN 0 ELSE clock.vcount + 1
  BY <1>1, <1>3 DEF AtLine
<1>6. InFlight' = InFlight /\ VblankBit' = VblankBit /\ InLine /\ ~InLine'
  BY <1>1, <1>5 DEF InFlight, VblankBit, InLine
<1>7. Settled' /\ Undisturbed' /\ EnablesRight'
  BY <1>1, <1>5, <1>6 DEF KeepsInv, Settled, Undisturbed, EnablesRight
<1>8. StatusRight'
  BY <1>1, <1>2, <1>5, <1>6 DEF KeepsInv, StatusRight, Before
<1>9. Counted'
  BY <1>1, <1>2, <1>5, <1>6 DEF KeepsInv, Counted, Before
<1> QED  BY <1>1, <1>4, <1>7, <1>8, <1>9 DEF KeepsInv

LEMMA ClockInv == IInv /\ ClockStep => IInv'
<1> SUFFICES ASSUME IInv, ClockStep PROVE IInv'
  OBVIOUS
<1> USE DEF IInv, Typed
<1>1. "clock" \in Threads /\ "sample" \in CallPcs /\ PulseEntry \in CallPcs
  BY DEF Threads, CallPcs, PulseEntry
<1>2. io.IF \in SUBSET Bits /\ {"VBLANK", "HBLANK"} \subseteq Bits
  BY DEF Registers, Bits, Interrupts
<1>3. ASSUME NEW from, NEW to \in ClockPcs, RequestRead(from, to),
             from \notin {"line_read", "line_write"},
             to \notin {"line_read", "line_write", "hblank_write"}
      PROVE  IInv'
  <2>1. UNCHANGED <<io, asserted, level, kvm, call, guest, frame, shadow>> /\ clock.pc = from
        /\ clock' = [clock EXCEPT !.pc = to, !.flags = io.IF]
    BY <1>3 DEF RequestRead, ClockAt
  <2>2. clock' \in ClockStates /\ clock'.vcount = clock.vcount /\ clock'.pc = to
    BY <1>2, <1>3, <2>1 DEF ClockStates
  <2> QED  BY <1>3, <2>1, <2>2, FlagsAside
<1>4. ASSUME NEW to \in ClockPcs, UNCHANGED <<asserted, level, kvm, guest, frame, shadow>>,
             io' \in [Registers -> SUBSET Bits], io'.DISPSTAT = io.DISPSTAT,
             Calls("clock", "sample"),
             clock' = [clock EXCEPT !.pc = to, !.flags = {}],
             clock.pc \notin {"line_read", "line_write"},
             to \notin {"line_read", "line_write", "hblank_write"}
      PROVE  IInv'
  <2>1. clock' \in ClockStates /\ clock'.vcount = clock.vcount /\ clock'.pc = to
    BY <1>4 DEF ClockStates
  <2>2. call' \in CallStates
    BY <1>1, <1>4, CallMoves
  <2> QED  BY <1>4, <2>1, <2>2, FlagsAside
<1>5. ASSUME NEW to \in ClockPcs, UNCHANGED <<io, asserted, level, kvm, guest, frame>>,
             shadow' \in SUBSET Bits,
             clock' = [clock EXCEPT !.pc = to], call' \in CallStates,
             clock.pc \notin {"line_read", "line_write"},
             to \notin {"line_read", "line_write", "hblank_write"}
      PROVE  IInv'
  <2>1. clock' \in ClockStates /\ clock'.vcount = clock.vcount /\ clock'.pc = to
    BY <1>5 DEF ClockStates
  <2> QED  BY <1>5, <2>1, FlagsAside
<1>6. {"vblank_read", "vblank_if", "vblank_pulse", "hdraw", "hblank_read", "prepare",
       "hblank_if", "hblank_set", "hblank_pulse", "wait", "finish", "finish_if", "next"}
        \subseteq ClockPcs
  BY DEF ClockPcs
<1>7. CASE LineRead
  BY <1>7, LineReadInv
<1>8. CASE LineWrite
  BY <1>8, LineWriteInv
<1>9. CASE RequestRead("vblank_read", "vblank_if")
  BY <1>3, <1>6, <1>9
<1>10. CASE RequestWrite("vblank_if", "vblank_pulse", "VBLANK")
  <2>1. clock.flags \cup {"VBLANK"} \in SUBSET Bits
    BY <1>2 DEF ClockStates
  <2>2. io' \in [Registers -> SUBSET Bits] /\ io'.DISPSTAT = io.DISPSTAT
    BY <1>10, <2>1 DEF RequestWrite, Registers
  <2> QED  BY <1>4, <1>6, <1>10, <2>2 DEF RequestWrite, ClockAt
<1>11. CASE VblankPulse
  <2>1. call' \in CallStates
    BY <1>1, <1>11, CallMoves DEF VblankPulse
  <2> QED  BY <1>5, <1>6, <1>11, <2>1 DEF VblankPulse, ClockAt, ClockTo
<1>12. CASE CheckPending
  <2>1. PICK pc \in {"next", "hblank_read"} :
          /\ UNCHANGED <<io, asserted, level, kvm, call, guest, frame, shadow>>
          /\ clock.pc = "hdraw" /\ clock' = [clock EXCEPT !.pc = pc]
    BY <1>12 DEF CheckPending, ClockAt, ClockTo
  <2> QED  BY <1>5, <1>6, <2>1
<1>13. CASE HblankRead \/ HblankWrite
  BY <1>13, HblankInv
<1>14. CASE PrepareShadow
  <2>1. /\ UNCHANGED <<io, asserted, level, kvm, call, guest, frame>> /\ shadow' = io.IME
        /\ clock.pc = "prepare" /\ clock' = [clock EXCEPT !.pc = "hblank_if"]
    BY <1>14 DEF PrepareShadow, ClockAt, ClockTo
  <2>2. io.IME \in SUBSET Bits
    BY DEF Registers
  <2> QED  BY <1>5, <1>6, <2>1, <2>2
<1>15. CASE RequestRead("hblank_if", "hblank_set")
  BY <1>3, <1>6, <1>15
<1>16. CASE RequestWrite("hblank_set", "hblank_pulse", "HBLANK")
  <2>1. clock.flags \cup {"HBLANK"} \in SUBSET Bits
    BY <1>2 DEF ClockStates
  <2>2. io' \in [Registers -> SUBSET Bits] /\ io'.DISPSTAT = io.DISPSTAT
    BY <1>16, <2>1 DEF RequestWrite, Registers
  <2> QED  BY <1>4, <1>6, <1>16, <2>2 DEF RequestWrite, ClockAt
<1>17. CASE HblankPulse
  <2>1. call' \in CallStates
    BY <1>1, <1>17, CallMoves DEF HblankPulse
  <2> QED  BY <1>5, <1>6, <1>17, <2>1 DEF HblankPulse, ClockAt, ClockTo
<1>18. CASE GiveUp
  BY <1>5, <1>6, <1>18 DEF GiveUp, ClockAt, ClockTo
<1>19. CASE FinishRead
  BY <1>3, <1>6, <1>19 DEF FinishRead, RequestRead
<1>20. CASE FinishWrite
  <2>1. clock.flags \ {"HBLANK"} \in SUBSET Bits
    BY DEF ClockStates
  <2>2. /\ clock.pc = "finish_if" /\ UNCHANGED <<asserted, level, kvm, guest, frame, shadow>>
        /\ io' = [io EXCEPT !.IF = clock.flags \ {"HBLANK"}, !.IME = shadow]
        /\ clock' = [clock EXCEPT !.pc = "next", !.flags = {}]
        /\ Calls("clock", "sample")
    BY <1>20 DEF FinishWrite, ClockAt
  <2>3. io' \in [Registers -> SUBSET Bits] /\ io'.DISPSTAT = io.DISPSTAT
    BY <2>1, <2>2 DEF Registers
  <2> QED  BY <1>4, <1>6, <2>2, <2>3
<1>21. CASE NextLine
  BY <1>21, NextLineInv
<1> QED
  BY <1>7, <1>8, <1>9, <1>10, <1>11, <1>12, <1>13, <1>14, <1>15, <1>16, <1>17, <1>18,
     <1>19, <1>20, <1>21 DEF ClockStep

-----------------------------------------------------------------------------
(* The KVM thread and the vCPU.                                            *)

\* A write is of one of the registers, or leaves the BIOS.
LEMMA WriteParts ==
  ASSUME NEW w \in Writes
  PROVE  /\ w.reg \in Registers \cup {"FAST_EXIT"}
         /\ w.mask \subseteq Bits /\ w.val \subseteq Bits
BY DEF Writes, Registers, Bits, Interrupts, IrqEnables, Status

\* While DISPSTAT is served, what it read before keeps the promises.
LEMMA KvmInv ==
  ASSUME IInv, Store \/ Settle
  PROVE  IInv'
<1> USE DEF IInv, Typed
<1>1. kvm.write \in Writes /\ kvm.flags \subseteq Bits /\ kvm.dispstat \subseteq Bits
  BY DEF KvmStates
<1>2. CASE Store
  <2> DEFINE w == kvm.write
  <2>1. /\ UNCHANGED <<asserted, level, clock, call, guest, frame, shadow>>
        /\ io' = [io EXCEPT ![w.reg] = (@ \ w.mask) \cup w.val]
        /\ kvm' = [kvm EXCEPT !.pc = "settle"]
    BY <1>2 DEF Store
  <2>2. kvm' \in KvmStates /\ kvm'.write = w /\ kvm'.pc = "settle" /\ kvm'.dispstat = kvm.dispstat
    BY <2>1 DEF KvmStates, KvmPcs
  <2>3. w.val \subseteq Bits /\ InFlight' = InFlight /\ (w.reg # "DISPSTAT" => ~InFlight)
    BY <1>1, <2>2, WriteParts DEF InFlight
  <2>4. io' \in [Registers -> SUBSET Bits] /\ (~InFlight => io'.DISPSTAT = io.DISPSTAT)
    BY <2>1, <2>3 DEF Registers, InFlight
  <2>5. Typed'
    BY <2>1, <2>2, <2>4
  <2>6. VblankBit' = VblankBit
    BY <2>2, <2>3, <2>4 DEF VblankBit
  <2>7. Settled' /\ Undisturbed' /\ EnablesRight'
    BY <2>1, <2>2, <2>3, <2>4 DEF KeepsInv, Settled, Undisturbed, EnablesRight
  <2>8. StatusRight' /\ Counted'
    BY <2>1, <2>6 DEF KeepsInv, StatusRight, Counted, Before, InLine
  <2> QED  BY <2>5, <2>7, <2>8 DEF KeepsInv
<1>3. CASE Settle
  <2> DEFINE w == kvm.write
  <2>1. /\ UNCHANGED <<asserted, level, clock, guest, frame, shadow>> /\ kvm.pc = "settle"
        /\ kvm' = Idle /\ Calls("kvm", "sample")
    BY <1>3 DEF Settle, KvmAt
  <2>2. io' = IF w.reg = "IF" THEN [io EXCEPT !.IF = kvm.flags \ w.val]
              ELSE IF w.reg = "DISPSTAT" THEN [io EXCEPT !.DISPSTAT = DispstatWritten(kvm.dispstat, w)]
              ELSE IF w.reg = "FAST_EXIT"
                   THEN [io EXCEPT !.IF = kvm.flags \ {"HBLANK"}, !.IME = shadow]
              ELSE io
    BY <1>3 DEF Settle
  <2>3. call' \in CallStates
    BY <2>1, CallMoves DEF Threads, CallPcs
  <2>4. kvm' \in KvmStates /\ ~InFlight'
    BY <2>1, IdleTyped DEF Idle, NoWrite, InFlight
  <2>5. DispstatWritten(kvm.dispstat, w) \subseteq Bits
    BY <1>1 DEF DispstatWritten, Bits, Interrupts
  <2>6. /\ io' \in [Registers -> SUBSET Bits]
        /\ io'.DISPSTAT = IF InFlight THEN DispstatWritten(kvm.dispstat, w) ELSE io.DISPSTAT
    BY <1>1, <2>2, <2>5 DEF Registers, InFlight
  <2>7. "VBLANK" \in DispstatWritten(kvm.dispstat, w) <=> "VBLANK" \in kvm.dispstat
    BY DEF DispstatWritten, Status, IrqEnables
  <2>8. Typed'
    BY <2>1, <2>3, <2>4, <2>6
  <2>9. VblankBit' = VblankBit
    BY <2>4, <2>6, <2>7 DEF VblankBit
  <2>10. Settled' /\ Undisturbed' /\ EnablesRight'
    BY <2>1, <2>4, <2>6 DEF KeepsInv, Settled, Undisturbed, EnablesRight
  <2>11. StatusRight' /\ Counted'
    BY <2>1, <2>9 DEF KeepsInv, StatusRight, Counted, Before, InLine
  <2> QED  BY <2>8, <2>10, <2>11 DEF KeepsInv
<1> QED  BY <1>2, <1>3

\* An exit records the write, and what its register held.
LEMMA ExitTyped ==
  ASSUME Typed, NEW write \in Writes, Exit(write)
  PROVE  /\ kvm' \in KvmStates /\ kvm'.write = write /\ kvm'.pc \in {"store", "settle"}
         /\ write.reg = "DISPSTAT" => kvm'.dispstat = io.DISPSTAT
<1>1. io.IF \in SUBSET Bits /\ io.DISPSTAT \in SUBSET Bits
  BY DEF Typed, Registers
<1> QED  BY <1>1 DEF Exit, KvmStates, KvmPcs

LEMMA ProgramWriteInv == IInv /\ ProgramWrite => IInv'
<1> SUFFICES ASSUME IInv, ProgramWrite PROVE IInv'
  OBVIOUS
<1> USE DEF IInv, Typed
<1> DEFINE w == kvm'.write
           apart == clock.pc \notin {"line_write", "hblank_write"}
<1>1. /\ UNCHANGED <<io, asserted, level, clock, call, guest, shadow>> /\ kvm.pc = "idle"
      /\ frame' = IF w.reg # "DISPSTAT" THEN frame
                  ELSE [frame EXCEPT
                         !.enables = (@ \ w.mask) \cup (w.val \cap IrqEnables),
                         !.clean = @ /\ apart,
                         !.kept = apart /\ (@ \/ IrqEnables \subseteq w.mask)]
  BY DEF ProgramWrite, GuestAt, KvmAt
<1>2. w \in GuestWrites /\ w \in Writes /\ Exit(w)
  BY LineAssumption, ExitTyped DEF ProgramWrite
<1>3. /\ kvm' \in KvmStates /\ kvm'.pc \in {"store", "settle"}
      /\ w.reg = "DISPSTAT" => kvm'.dispstat = io.DISPSTAT
  BY <1>2, ExitTyped
<1>4. ~InFlight /\ (InFlight' <=> w.reg = "DISPSTAT")
  BY <1>1 DEF KeepsInv, Settled, InFlight
<1>5. VblankBit' = VblankBit
  BY <1>1, <1>3, <1>4 DEF VblankBit
<1>6. CASE w.reg # "DISPSTAT"
  BY <1>1, <1>3, <1>4, <1>5, <1>6 DEF KeepsInv, Settled, Undisturbed, StatusRight,
    EnablesRight, Counted, Before, InLine
<1>7. CASE w.reg = "DISPSTAT"
  <2>1. /\ frame'.requests = frame.requests /\ frame'.expected = frame.expected
        /\ frame'.enables = (frame.enables \ w.mask) \cup (w.val \cap IrqEnables)
        /\ frame'.clean <=> frame.clean /\ apart
        /\ frame'.kept <=> apart /\ (frame.kept \/ IrqEnables \subseteq w.mask)
        /\ frame' \in FrameStates
    BY <1>1, <1>7 DEF FrameStates
  <2>2. Settled' /\ Undisturbed'
    BY <1>1, <1>3, <2>1 DEF Settled, Undisturbed
  <2>3. StatusRight' /\ Counted'
    BY <1>1, <1>5, <2>1 DEF KeepsInv, StatusRight, Counted, Before, InLine
  <2>4. EnablesRight'
    <3>1. IrqEnables \cap DispstatWritten(io.DISPSTAT, w)
            = ((IrqEnables \cap io.DISPSTAT) \ w.mask) \cup (w.val \cap IrqEnables)
      BY DEF DispstatWritten, Status, IrqEnables
    <3>2. frame.kept => frame.enables = IrqEnables \cap io.DISPSTAT
      BY <1>4 DEF KeepsInv, EnablesRight
    <3>3. frame.enables \subseteq IrqEnables
      BY DEF FrameStates
    <3> QED  BY <1>3, <1>4, <1>7, <2>1, <3>1, <3>2, <3>3 DEF EnablesRight
  <2> QED  BY <1>1, <1>3, <2>1, <2>2, <2>3, <2>4 DEF KeepsInv
<1> QED  BY <1>6, <1>7

LEMMA GuestInv ==
  ASSUME IInv, TakeIrq \/ GuestStep \/ ProgramWrite
  PROVE  IInv'
<1> USE DEF IInv, Typed
<1>1. ASSUME UNCHANGED <<io, asserted, level, clock, kvm, call, frame, shadow>>,
             guest' \in {"run", "irq", "slow", "fast"}
      PROVE  IInv'
  BY <1>1 DEF KeepsInv, Settled, Undisturbed, StatusRight, EnablesRight, Counted, Before,
    InLine, VblankBit, InFlight
<1>2. CASE TakeIrq
  BY <1>1, <1>2 DEF TakeIrq
<1>3. CASE Dispatch
  BY <1>1, <1>3 DEF Dispatch
<1>4. CASE Answer
  <2>1. CASE ClockAt("wait")
    <3>1. clock' = [clock EXCEPT !.pc = "finish"] /\ clock.pc = "wait" /\ guest' = "run"
          /\ UNCHANGED <<io, asserted, level, kvm, call, frame, shadow>>
      BY <1>4, <2>1 DEF Answer, ClockAt, ClockTo
    <3>2. clock' \in ClockStates /\ clock'.vcount = clock.vcount /\ clock'.pc = "finish"
      BY <3>1 DEF ClockStates, ClockPcs
    <3> QED  BY <3>1, <3>2, FlagsAside
  <2>2. CASE ~ClockAt("wait")
    BY <1>1, <1>4, <2>2 DEF Answer
  <2> QED  BY <2>1, <2>2
<1>5. ASSUME NEW w \in Writes, w.reg # "DISPSTAT", Exit(w), kvm.pc = "idle", guest' = "run",
             UNCHANGED <<io, asserted, level, clock, call, frame, shadow>>
      PROVE  IInv'
  <2>1. kvm' \in KvmStates /\ ~InFlight /\ ~InFlight'
    BY <1>5, ExitTyped DEF KeepsInv, Settled, InFlight
  <2> QED
    BY <1>5, <2>1 DEF KeepsInv, Settled, Undisturbed, StatusRight, EnablesRight, Counted,
      Before, InLine, VblankBit
<1>6. CASE FastExit
  <2>1. NoWrite \in Writes /\ NoWrite.reg # "DISPSTAT"
    BY IdleTyped DEF Idle, KvmStates, NoWrite
  <2> QED  BY <1>5, <1>6, <2>1 DEF FastExit, GuestAt, KvmAt
<1>7. CASE SlowAck
  <2> DEFINE acknowledge == [reg |-> "IF", mask |-> Interrupts, val |-> {"VBLANK"}]
  <2>1. acknowledge \in Writes /\ acknowledge.reg # "DISPSTAT"
    BY DEF Writes, Interrupts
  <2> HIDE DEF acknowledge
  <2>2. /\ Exit(acknowledge) /\ kvm.pc = "idle" /\ guest' = "run"
        /\ UNCHANGED <<io, asserted, level, clock, call, frame, shadow>>
    BY <1>7 DEF SlowAck, GuestAt, KvmAt, acknowledge
  <2> QED  BY <1>5, <2>1, <2>2
<1>8. CASE ProgramWrite
  BY <1>8, ProgramWriteInv
<1> QED  BY <1>2, <1>3, <1>4, <1>6, <1>7, <1>8 DEF GuestStep

-----------------------------------------------------------------------------
(* The theorem.                                                            *)

LEMMA Invariance == Spec => []IInv
<1>1. IInv /\ [Next]_vars => IInv'
  <2> SUFFICES ASSUME IInv, [Next]_vars PROVE IInv'
    OBVIOUS
  <2>1. CASE Next
    BY <2>1, ClockInv, LineStepInv, KvmInv, GuestInv DEF Next
  <2>2. CASE UNCHANGED vars
    BY <2>2 DEF vars, IInv, Typed, KeepsInv, Settled, Undisturbed, StatusRight,
      EnablesRight, Counted, Before, InLine, VblankBit, InFlight
  <2> QED  BY <2>1, <2>2
<1> QED  BY InitInv, <1>1, PTL DEF Spec

\* In whatever order the clock's and the KVM thread's accesses to DISPSTAT come,
\* VBLANK is requested once in a frame if the guest had enabled it when the frame's
\* VBLANK began, and else not at all, unless two updates of the register overlapped
\* (set_vcount, mirror_io_write).
THEOREM OneVblank == Spec => []VblankOncePerFrame
<1>1. IInv => VblankOncePerFrame
  <2> SUFFICES ASSUME IInv, ClockAt("next"), clock.vcount = TotalLines - 1, frame.clean
               PROVE  frame.requests = frame.expected
    BY DEF VblankOncePerFrame
  <2>1. ~Before
    BY LineAssumption DEF Before, InLine, ClockAt
  <2> QED  BY <2>1 DEF IInv, KeepsInv, Counted
<1> QED  BY <1>1, Invariance, PTL
=============================================================================
