---------------------------- MODULE InterruptLine ----------------------------
(***************************************************************************)
(* IF, DISPSTAT and the vCPU's IRQ line, one access at a time.  The vcount *)
(* clock and the KVM thread both read, modify and write the two registers  *)
(* without a lock, and both drive the line: InterruptLine::set swaps a     *)
(* flag and then calls the ioctl that sets the level, so that the ioctls   *)
(* of two threads may come in the other order than the swaps, and the flag *)
(* and the level disagree from then on.  pulse ignores the flag.           *)
(*                                                                         *)
(* The vCPU stands still while the KVM thread serves its write.  What an   *)
(* HBLANK handler computes, and one that leaves other flags than its own   *)
(* in the shadow page to be acknowledged, is HblankSync's: here a handler  *)
(* acknowledges what it serves, and answers or does not.                   *)
(* update_interrupt_line reads its three registers in one step.  DISPCNT   *)
(* is not zero.                                                            *)
(***************************************************************************)
EXTENDS Naturals

CONSTANTS
  VisibleLines,  \* lines that are drawn (160)
  TotalLines,    \* lines of a frame (228)
  GuestWrites    \* the MMIO writes of the program and its handlers

Interrupts == {"VBLANK", "HBLANK"}
Status == {"VBLANK", "HBLANK"}
IrqEnables == {"VBLANK_IRQ_ENABLE", "HBLANK_IRQ_ENABLE"}

\* A write's mask is the bits it reaches: a write of DISPSTAT's upper byte
\* reaches none of those modelled.
Writes ==
  [reg: {"IF", "IE"}, mask: {Interrupts}, val: SUBSET Interrupts]
    \cup [reg: {"IME"}, mask: {{"ON"}}, val: SUBSET {"ON"}]
    \cup [reg: {"DISPSTAT"}, mask: {Status \cup IrqEnables, {}},
          val: SUBSET (Status \cup IrqEnables)]
    \cup [reg: {"FAST_EXIT"}, mask: {{}}, val: {{}}]

ASSUME LineAssumption ==
  /\ VisibleLines \in Nat \ {0} /\ TotalLines \in Nat
  /\ VisibleLines + 1 < TotalLines
  /\ GuestWrites \subseteq Writes
  /\ \A w \in GuestWrites : w.val \subseteq w.mask

VARIABLES
  io,        \* the registers, each a set of bits
  asserted,  \* InterruptLine.asserted
  level,     \* the level of the vCPU's IRQ line
  clock,     \* the vcount clock thread
  kvm,       \* the KVM thread serving a write, or idle
  call,      \* where each thread is in InterruptLine's functions
  guest,     \* the vCPU
  shadow,    \* IME in the page of the HBLANK map, which the guest's answer repeats
  frame      \* history: VBLANK requests of this frame, see VblankOncePerFrame

vars == <<io, asserted, level, clock, kvm, call, guest, shadow, frame>>

Threads == {"clock", "kvm"}
Returned == [pc |-> "none", want |-> FALSE]
NoWrite == [reg |-> "FAST_EXIT", mask |-> {}, val |-> {}]
Idle == [pc |-> "idle", write |-> NoWrite, flags |-> {}, dispstat |-> {}]
AtLine(vcount) == [pc |-> "line_read", vcount |-> vcount, flags |-> {}, dispstat |-> {}]

Init ==
  /\ io = [IF |-> {}, IE |-> {}, IME |-> {}, DISPSTAT |-> {}]
  /\ asserted = FALSE /\ level = FALSE
  /\ clock = AtLine(0) /\ kvm = Idle
  /\ call = [t \in Threads |-> Returned]
  /\ guest = "run" /\ shadow = {}
  /\ frame = [requests |-> 0, expected |-> 0, enables |-> {}, clean |-> TRUE,
              kept |-> TRUE]

-----------------------------------------------------------------------------
(* InterruptLine.                                                          *)

CallTo(t, pc) == call' = [call EXCEPT ![t].pc = pc]
Return(t) == call' = [call EXCEPT ![t] = Returned]
Calls(t, pc) == call' = [call EXCEPT ![t] = [pc |-> pc, want |-> pc # "sample"]]

\* update_interrupt_line: what the registers call for ...
Sample(t) ==
  /\ call[t].pc = "sample"
  /\ call' = [call EXCEPT ![t] =
       [pc |-> "swap", want |-> "ON" \in io.IME /\ io.IE \cap io.IF # {}]]
  /\ UNCHANGED <<io, asserted, level, clock, kvm, guest, frame, shadow>>

\* ... and set: the swap, and the ioctl only if the flag was different.
Swap(t) ==
  /\ call[t].pc = "swap"
  /\ asserted' = call[t].want
  /\ IF asserted = call[t].want THEN Return(t) ELSE CallTo(t, "set_level")
  /\ UNCHANGED <<io, level, clock, kvm, guest, frame, shadow>>

SetLevel(t) ==
  /\ call[t].pc = "set_level"
  /\ level' = call[t].want
  /\ Return(t)
  /\ UNCHANGED <<io, asserted, clock, kvm, guest, frame, shadow>>

\* Mutant: pulse is set(true).
PulseEntrySet == "swap"

\* pulse: the flag, the line low, the line high, whatever they were.
PulseEntry == "store"

PulseStore(t) ==
  /\ call[t].pc = "store"
  /\ asserted' = TRUE
  /\ CallTo(t, "low")
  /\ UNCHANGED <<io, level, clock, kvm, guest, frame, shadow>>

PulseLow(t) ==
  /\ call[t].pc = "low"
  /\ level' = FALSE
  /\ CallTo(t, "set_level")
  /\ UNCHANGED <<io, asserted, clock, kvm, guest, frame, shadow>>

-----------------------------------------------------------------------------
(* The vcount clock.                                                       *)

ClockAt(pc) == clock.pc = pc /\ call["clock"].pc = "none"
ClockTo(pc) == clock' = [clock EXCEPT !.pc = pc]

\* The two updates of DISPSTAT overlap: the status bits may be wrong until the
\* clock's next line, the enable bits until the guest's next write.
Apart(h) == IF kvm.write.reg = "DISPSTAT"
            THEN [h EXCEPT !.clean = FALSE, !.kept = FALSE] ELSE h

\* set_vcount reads DISPSTAT ...
LineRead ==
  /\ ClockAt("line_read")
  /\ clock' = [clock EXCEPT !.pc = "line_write", !.dispstat = io.DISPSTAT]
  /\ frame' = Apart([frame EXCEPT
       !.requests = IF clock.vcount = 0 THEN 0 ELSE @,
       !.expected = IF clock.vcount = 0 THEN 0 ELSE @,
       !.clean = @ \/ clock.vcount < VisibleLines])
  /\ UNCHANGED <<io, asserted, level, kvm, call, guest, shadow>>

\* ... and writes it with the status bits of the line; VBLANK is requested when
\* its bit rises.
LineWrite ==
  /\ ClockAt("line_write")
  /\ LET dispstat == (clock.dispstat \ Status)
           \cup (IF clock.vcount >= VisibleLines THEN {"VBLANK"} ELSE {})
         rises == "VBLANK" \in dispstat \ clock.dispstat
         requests == rises /\ "VBLANK_IRQ_ENABLE" \in dispstat
     IN  /\ io' = [io EXCEPT !.DISPSTAT = dispstat]
         /\ clock' = [clock EXCEPT !.pc = IF requests THEN "vblank_read" ELSE "hdraw",
                                   !.dispstat = {}]
         /\ frame' = Apart([frame EXCEPT
              !.requests = IF requests THEN @ + 1 ELSE @,
              !.expected = IF clock.vcount = VisibleLines
                              /\ "VBLANK_IRQ_ENABLE" \in frame.enables THEN 1 ELSE @,
              !.clean = @ /\ (frame.kept \/ clock.vcount # VisibleLines)])
  /\ UNCHANGED <<asserted, level, kvm, call, guest, shadow>>

\* request_interrupt reads IF, writes it with one flag more, and the line follows.
RequestRead(from, to) ==
  /\ ClockAt(from)
  /\ clock' = [clock EXCEPT !.pc = to, !.flags = io.IF]
  /\ UNCHANGED <<io, asserted, level, kvm, call, guest, frame, shadow>>

RequestWrite(from, to, irq) ==
  /\ ClockAt(from)
  /\ io' = [io EXCEPT !.IF = clock.flags \cup {irq}]
  /\ clock' = [clock EXCEPT !.pc = to, !.flags = {}]
  /\ Calls("clock", "sample")
  /\ UNCHANGED <<asserted, level, kvm, guest, frame, shadow>>

\* set_vcount pulses if IE and IME let VBLANK through, enter_hblank always.
VblankPulse ==
  /\ ClockAt("vblank_pulse")
  /\ IF "VBLANK" \in io.IE /\ "ON" \in io.IME THEN Calls("clock", PulseEntry)
     ELSE UNCHANGED call
  /\ ClockTo("hdraw")
  /\ UNCHANGED <<io, asserted, level, kvm, guest, frame, shadow>>

HblankPulse ==
  /\ ClockAt("hblank_pulse")
  /\ Calls("clock", PulseEntry)
  /\ ClockTo("wait")
  /\ UNCHANGED <<io, asserted, level, kvm, guest, frame, shadow>>

\* hblank_irq_pending ...
CheckPending ==
  /\ ClockAt("hdraw")
  /\ ClockTo(IF "HBLANK" \in io.IF THEN "next" ELSE "hblank_read")
  /\ UNCHANGED <<io, asserted, level, kvm, call, guest, frame, shadow>>

\* ... then enter_hblank reads DISPSTAT ...
HblankRead ==
  /\ ClockAt("hblank_read")
  /\ clock' = [clock EXCEPT !.pc = "hblank_write", !.dispstat = io.DISPSTAT]
  /\ frame' = Apart(frame)
  /\ UNCHANGED <<io, asserted, level, kvm, call, guest, shadow>>

\* ... and writes it with HBLANK; a request if it is enabled and none is pending.
HblankWrite ==
  /\ ClockAt("hblank_write")
  /\ io' = [io EXCEPT !.DISPSTAT = clock.dispstat \cup {"HBLANK"}]
  /\ LET requests == /\ "HBLANK" \notin clock.dispstat
                     /\ "HBLANK_IRQ_ENABLE" \in clock.dispstat
                     /\ clock.vcount < VisibleLines \/ clock.vcount = TotalLines - 1
                     /\ "HBLANK" \notin io.IF
     IN  clock' = [clock EXCEPT !.pc = IF requests THEN "prepare" ELSE "next",
                                !.dispstat = {}]
  /\ frame' = Apart(frame)
  /\ UNCHANGED <<asserted, level, kvm, call, guest, shadow>>

\* prepare_fast_hblank copies the page.
PrepareShadow ==
  /\ ClockAt("prepare")
  /\ shadow' = io.IME
  /\ ClockTo("hblank_if")
  /\ UNCHANGED <<io, asserted, level, kvm, call, guest, frame>>

\* The wait ends at its deadline, or with the guest's answer in shared memory:
\* finish_fast_hblank_from_shared acknowledges HBLANK and copies IME.
GiveUp ==
  /\ ClockAt("wait")
  /\ ClockTo("next")
  /\ UNCHANGED <<io, asserted, level, kvm, call, guest, frame, shadow>>

FinishRead ==
  /\ ClockAt("finish")
  /\ clock' = [clock EXCEPT !.pc = "finish_if", !.flags = io.IF]
  /\ UNCHANGED <<io, asserted, level, kvm, call, guest, frame, shadow>>

FinishWrite ==
  /\ ClockAt("finish_if")
  /\ io' = [io EXCEPT !.IF = clock.flags \ {"HBLANK"}, !.IME = shadow]
  /\ clock' = [clock EXCEPT !.pc = "next", !.flags = {}]
  /\ Calls("clock", "sample")
  /\ UNCHANGED <<asserted, level, kvm, guest, frame, shadow>>

NextLine ==
  /\ ClockAt("next")
  /\ clock' = AtLine((clock.vcount + 1) % TotalLines)
  /\ UNCHANGED <<io, asserted, level, kvm, call, guest, frame, shadow>>

ClockStep ==
  \/ LineRead \/ LineWrite
  \/ RequestRead("vblank_read", "vblank_if")
  \/ RequestWrite("vblank_if", "vblank_pulse", "VBLANK")
  \/ VblankPulse \/ CheckPending \/ HblankRead \/ HblankWrite \/ PrepareShadow
  \/ RequestRead("hblank_if", "hblank_set")
  \/ RequestWrite("hblank_set", "hblank_pulse", "HBLANK")
  \/ HblankPulse \/ GiveUp \/ FinishRead \/ FinishWrite \/ NextLine

-----------------------------------------------------------------------------
(* The KVM thread: mirror_io_write and finish_fast_hblank.                 *)

KvmAt(pc) == kvm.pc = pc /\ call["kvm"].pc = "none"

\* A write leaves the guest; IF and DISPSTAT are read, which only a write of the
\* same register looks at again; finish_fast_hblank reads IF too.
Exit(write) ==
  kvm' = [pc |-> IF write.reg = "FAST_EXIT" THEN "settle" ELSE "store",
          write |-> write,
          flags |-> IF write.reg \in {"IF", "FAST_EXIT"} THEN io.IF ELSE {},
          dispstat |-> IF write.reg = "DISPSTAT" THEN io.DISPSTAT ELSE {}]

\* The data goes into the page as it is, also where the register has flags to
\* clear or bits that are read only.
Store ==
  /\ KvmAt("store")
  /\ LET w == kvm.write
     IN  io' = [io EXCEPT ![w.reg] = (@ \ w.mask) \cup w.val]
  /\ kvm' = [kvm EXCEPT !.pc = "settle"]
  /\ UNCHANGED <<asserted, level, clock, call, guest, frame, shadow>>

\* Mutant: the status bits under the mask are not put back.
DispstatWrittenPlain(old, write) == (old \ write.mask) \cup (write.val \cap IrqEnables)

DispstatWritten(old, write) ==
  (old \cap Status) \cup (old \ write.mask) \cup (write.val \cap IrqEnables)

\* IF loses the flags that were written, DISPSTAT gets its status bits back, both
\* from the values read before; finish_fast_hblank acknowledges HBLANK and copies IME.
Settle ==
  /\ KvmAt("settle")
  /\ LET w == kvm.write
     IN  io' = CASE w.reg = "IF" -> [io EXCEPT !.IF = kvm.flags \ w.val]
                 [] w.reg = "DISPSTAT" ->
                      [io EXCEPT !.DISPSTAT = DispstatWritten(kvm.dispstat, w)]
                 [] w.reg = "FAST_EXIT" -> [io EXCEPT !.IF = kvm.flags \ {"HBLANK"}, !.IME = shadow]
                 [] OTHER -> io
  /\ Calls("kvm", "sample")
  /\ kvm' = Idle
  /\ UNCHANGED <<asserted, level, clock, guest, frame, shadow>>

-----------------------------------------------------------------------------
(* The vCPU.                                                               *)

GuestAt(pc) == guest = pc /\ KvmAt("idle")

TakeIrq ==
  /\ GuestAt("run") /\ level
  /\ guest' = "irq"
  /\ UNCHANGED <<io, asserted, level, clock, kvm, call, frame, shadow>>

\* irq_handler: nothing to do, the slow path, or the fast one ...
Dispatch ==
  /\ GuestAt("irq")
  /\ guest' = IF "VBLANK" \in io.IF THEN "slow"
              ELSE IF "HBLANK" \in io.IF THEN "fast" ELSE "run"
  /\ UNCHANGED <<io, asserted, level, clock, kvm, call, frame, shadow>>

\* ... whose answer is in shared memory, where the clock may wait for it ...
Answer ==
  /\ GuestAt("fast")
  /\ guest' = "run"
  /\ IF ClockAt("wait") THEN ClockTo("finish") ELSE UNCHANGED clock
  /\ UNCHANGED <<io, asserted, level, kvm, call, frame, shadow>>

\* ... or by a write to FAST_EXIT_ADDR.
FastExit ==
  /\ GuestAt("fast")
  /\ Exit(NoWrite)
  /\ guest' = "run"
  /\ UNCHANGED <<io, asserted, level, clock, call, frame, shadow>>

\* The slow path's handler acknowledges what it served; the program writes a register.
SlowAck ==
  /\ GuestAt("slow")
  /\ Exit([reg |-> "IF", mask |-> Interrupts, val |-> {"VBLANK"}])
  /\ guest' = "run"
  /\ UNCHANGED <<io, asserted, level, clock, call, frame, shadow>>

ProgramWrite ==
  /\ GuestAt("run")
  /\ \E w \in GuestWrites : Exit(w)
  /\ LET w == kvm'.write
         apart == clock.pc \notin {"line_write", "hblank_write"}
     IN  frame' = IF w.reg # "DISPSTAT" THEN frame
                  ELSE [frame EXCEPT
                         !.enables = (@ \ w.mask) \cup (w.val \cap IrqEnables),
                         !.clean = @ /\ apart,
                         !.kept = apart /\ (@ \/ IrqEnables \subseteq w.mask)]
  /\ UNCHANGED <<io, asserted, level, clock, call, guest, shadow>>

LineStep(t) == Sample(t) \/ Swap(t) \/ SetLevel(t) \/ PulseStore(t) \/ PulseLow(t)
KvmStep == Store \/ Settle \/ LineStep("kvm")
GuestStep == Dispatch \/ Answer \/ FastExit \/ SlowAck

Next ==
  \/ ClockStep \/ \E t \in Threads : LineStep(t)
  \/ Store \/ Settle
  \/ TakeIrq \/ GuestStep \/ ProgramWrite

\* The threads run on; the ioctl that raises the line makes the vCPU look at it, a
\* level that keeps coming back is taken at last; the program need not write.
Fairness ==
  /\ WF_vars(ClockStep \/ LineStep("clock"))
  /\ WF_vars(KvmStep)
  /\ WF_vars(GuestStep) /\ SF_vars(TakeIrq)

Spec == Init /\ [][Next]_vars /\ Fairness

-----------------------------------------------------------------------------
(* Properties.                                                             *)

\* VBLANK is requested once in a frame if the guest had enabled it when the frame's
\* VBLANK began, and else not at all, whatever the guest writes to DISPSTAT in
\* other lines, its status bits included; unless such a write is served just while
\* the clock changes the register (set_vcount, mirror_io_write).
VblankOncePerFrame ==
  ClockAt("next") /\ clock.vcount = TotalLines - 1 /\ frame.clean =>
    frame.requests = frame.expected

\* A program that waits, with VBLANK enabled in DISPSTAT, IE and IME, is interrupted
\* and finds a flag in IF, however the two threads' ioctls were reordered and
\* whatever the flag and the level were left at; unless the clock had read DISPSTAT
\* before VBLANK was enabled, and its write disables it again (set_vcount,
\* InterruptLine::pulse).
VblankEnabled ==
  "VBLANK" \in io.IE /\ "ON" \in io.IME /\ "VBLANK_IRQ_ENABLE" \in io.DISPSTAT
Waiting == GuestAt("run")
InterruptsArrive ==
  Waiting /\ VblankEnabled ~>
    (guest \in {"slow", "fast"} \/ ~KvmAt("idle") \/ ~VblankEnabled)
=============================================================================
