----------------------------- MODULE HblankSync -----------------------------
(***************************************************************************)
(* The HBLANK handshake of kgba: the vcount clock thread posts a request   *)
(* in memory it shares with the guest, raises the IRQ line and waits, for  *)
(* at most one millisecond, until the guest's BIOS has run the cartridge's *)
(* interrupt handler on a shadow copy of the I/O registers and written the *)
(* request number back.  The KVM thread runs the guest and serves its MMIO *)
(* writes, so guest steps and MMIO steps exclude each other; both          *)
(* interleave with the vcount thread, which shares no lock with them.      *)
(*                                                                         *)
(* A BG offset is abstracted to a tag: the number of the request whose     *)
(* VCOUNT the cartridge's handler read when it computed the offset.        *)
(* A step is one access to memory both sides write; private accesses are   *)
(* merged into the next one.  update_interrupt_line and the DISPSTAT       *)
(* read-modify-write are single steps here.  The stop flag is left out.    *)
(***************************************************************************)
EXTENDS Naturals, FiniteSets

CONSTANTS
  VisibleLines,    \* lines that are drawn (160)
  TotalLines,      \* lines of a frame (228)
  HalfBase,        \* values of one half of a sequence number (2^32)
  MaxSeq,          \* bound: the last request number that is issued
  GuestWrites,     \* the MMIO writes the main program makes
  HandlerAcksAll   \* the slow handler acknowledges every flag it finds in IF

Interrupts == {"VBLANK", "HBLANK"}
DispstatBits == {"VBLANK", "HBLANK", "VBLANK_IRQ_ENABLE", "HBLANK_IRQ_ENABLE"}
IrqEnables == {"VBLANK_IRQ_ENABLE", "HBLANK_IRQ_ENABLE"}
Seqs == 0..MaxSeq
Halves == 0..(HalfBase - 1)

Writes ==
  [reg: {"IE", "IF"}, val: SUBSET Interrupts]
    \cup [reg: {"IME", "DISPCNT"}, val: BOOLEAN]
    \cup [reg: {"DISPSTAT"}, val: SUBSET IrqEnables]
    \cup [reg: {"FAST_EXIT"}, val: {0}]

ASSUME LinesAssumption ==
  /\ VisibleLines \in Nat \ {0}
  /\ TotalLines \in Nat
  /\ VisibleLines + 1 < TotalLines
ASSUME SeqAssumption ==
  /\ HalfBase \in Nat \ {0}
  /\ MaxSeq \in Nat
  /\ MaxSeq < HalfBase * HalfBase
ASSUME GuestAssumption ==
  /\ GuestWrites \subseteq Writes
  /\ HandlerAcksAll \in BOOLEAN

VARIABLES
  requested,  \* hblank_sync.requested_seq
  latch,      \* hblank_latch_seq
  completed,  \* hblank_sync.completed_seq
  io,         \* the I/O page: IF (Flags), IE, IME, DISPSTAT, DISPCNT, BG offsets
  shadow,     \* the shadow I/O page the handler sees in the HBLANK map
  fast,       \* the FAST_HBLANK state: sequence halves, dirty, copies
  line,       \* the level of the vCPU's IRQ line
  host,       \* the vcount clock thread
  guest,      \* the vCPU: the BIOS, the cartridge's handler and program
  mmio,       \* the MMIO write the KVM thread is serving
  applied     \* history: the last completion taken from shared memory

vars == <<requested, latch, completed, io, shadow, fast, line, host, guest,
          mmio, applied>>

\* update_interrupt_line: the level the registers call for.
Asserted(iflag, ie, ime) == ime /\ ie \cap iflag # {}

Lo(seq) == seq % HalfBase
Hi(seq) == seq \div HalfBase
Seq(lo, hi) == lo + HalfBase * hi

\* A write to FAST_EXIT_ADDR, whatever its value; and the locals of threads at
\* rest: a local that goes out of scope is reset.
ExitWrite == [reg |-> "FAST_EXIT", val |-> 0]
Running == [pc |-> "run", tag |-> 0, lo |-> 0, hi |-> 0]
NoMmio == [write |-> ExitWrite, oldIf |-> {}, seq |-> 0]
HostAtLine(vcount) ==
  [pc |-> "line", vcount |-> vcount, seq |-> 0, iflag |-> {}, lo |-> 0,
   expired |-> FALSE]

Init ==
  /\ requested = 0 /\ latch = 0 /\ completed = 0
  /\ io = [Flags |-> {}, IE |-> {}, IME |-> FALSE, DISPSTAT |-> {},
           DISPCNT |-> FALSE, ofs |-> 0]
  /\ shadow = [Flags |-> {}, IME |-> FALSE, VCOUNT |-> 0, ofs |-> 0]
  /\ fast = [reqLo |-> 0, reqHi |-> 0, doneLo |-> 0, doneHi |-> 0,
             dirty |-> FALSE, ofs |-> 0, IME |-> FALSE, ack |-> {}]
  /\ line = FALSE
  /\ host = HostAtLine(0)
  /\ guest = Running
  /\ mmio = NoMmio
  /\ applied = [seq |-> 0, tag |-> 0]

-----------------------------------------------------------------------------
(* The vcount clock thread.                                                *)

HostAt(pc) == host.pc = pc
HostTo(pc) == host' = [host EXCEPT !.pc = pc]

\* set_vcount: VCOUNT and the status bits; entering VBLANK with its interrupt
\* enabled goes on to request it.
SetVcount ==
  /\ HostAt("line")
  /\ LET status == IF host.vcount >= VisibleLines THEN {"VBLANK"} ELSE {}
         dispstat == (io.DISPSTAT \cap IrqEnables) \cup status
         rising == "VBLANK" \in dispstat \ io.DISPSTAT
     IN  /\ io' = [io EXCEPT !.DISPSTAT = dispstat]
         /\ HostTo(IF rising /\ "VBLANK_IRQ_ENABLE" \in dispstat
                   THEN "vblank_read" ELSE "hdraw")
  /\ UNCHANGED <<requested, latch, completed, shadow, fast, line, guest, mmio,
                 applied>>

\* request_interrupt reads IF ...
RequestRead(from, to) ==
  /\ HostAt(from)
  /\ host' = [host EXCEPT !.pc = to, !.iflag = io.Flags]
  /\ UNCHANGED <<requested, latch, completed, io, shadow, fast, line, guest,
                 mmio, applied>>

\* ... and writes it back with one more flag.
RequestWrite(from, to, irq) ==
  /\ HostAt(from)
  /\ io' = [io EXCEPT !.Flags = host.iflag \cup {irq}]
  /\ host' = [host EXCEPT !.pc = to, !.iflag = {}]
  /\ UNCHANGED <<requested, latch, completed, shadow, fast, line, guest, mmio,
                 applied>>

\* The line follows the registers; set_vcount pulses it only if IE and IME allow.
VblankLine ==
  /\ HostAt("vblank_line")
  /\ line' = (Asserted(io.Flags, io.IE, io.IME) \/ ("VBLANK" \in io.IE /\ io.IME))
  /\ HostTo("hdraw")
  /\ UNCHANGED <<requested, latch, completed, io, shadow, fast, guest, mmio,
                 applied>>

\* hblank_irq_pending: a flag that is still set keeps the line from requesting.
CheckPending ==
  /\ HostAt("hdraw")
  /\ HostTo(IF "HBLANK" \in io.Flags THEN "next" ELSE "enter")
  /\ UNCHANGED <<requested, latch, completed, io, shadow, fast, line, guest,
                 mmio, applied>>

\* The guards of enter_hblank.  MaxSeq bounds the requests: past it the thread
\* goes on as if the guest had turned the display off.
CanRequest ==
  /\ "HBLANK" \notin io.DISPSTAT
  /\ "HBLANK_IRQ_ENABLE" \in io.DISPSTAT
  /\ io.DISPCNT
  /\ host.vcount < VisibleLines \/ host.vcount = TotalLines - 1
  /\ "HBLANK" \notin io.Flags
  /\ requested < MaxSeq

\* Mutant: the number fetch_add returns is taken for the new request's.
EnterHblankOldSeq ==
  /\ HostAt("enter")
  /\ CanRequest
  /\ io' = [io EXCEPT !.DISPSTAT = @ \cup {"HBLANK"}]
  /\ requested' = requested + 1
  /\ latch' = requested + 1
  /\ host' = [host EXCEPT !.pc = "prep_lo", !.seq = requested,
                          !.expired = FALSE]
  /\ UNCHANGED <<completed, shadow, fast, line, guest, mmio, applied>>

EnterHblank ==
  /\ HostAt("enter")
  /\ CanRequest
  /\ io' = [io EXCEPT !.DISPSTAT = @ \cup {"HBLANK"}]
  /\ requested' = requested + 1
  /\ latch' = requested + 1
  /\ host' = [host EXCEPT !.pc = "prep_lo", !.seq = requested + 1,
                          !.expired = FALSE]
  /\ UNCHANGED <<completed, shadow, fast, line, guest, mmio, applied>>

SkipHblank ==
  /\ HostAt("enter")
  /\ ~CanRequest
  /\ io' = [io EXCEPT !.DISPSTAT = @ \cup {"HBLANK"}]
  /\ HostTo("next")
  /\ UNCHANGED <<requested, latch, completed, shadow, fast, line, guest, mmio,
                 applied>>

\* prepare_fast_hblank: copies the I/O page, then writes REQUESTED half by half,
\* clears COMPLETED half by half, and the rest.
PrepareShadow ==
  /\ HostAt("prep_lo")
  /\ shadow' = [Flags |-> io.Flags, IME |-> io.IME, VCOUNT |-> latch,
                ofs |-> io.ofs]
  /\ fast' = [fast EXCEPT !.reqLo = Lo(latch)]
  /\ HostTo("prep_hi")
  /\ UNCHANGED <<requested, latch, completed, io, line, guest, mmio, applied>>

PrepareRequestHi ==
  /\ HostAt("prep_hi")
  /\ fast' = [fast EXCEPT !.reqHi = Hi(latch)]
  /\ HostTo("prep_zlo")
  /\ UNCHANGED <<requested, latch, completed, io, shadow, line, guest, mmio,
                 applied>>

PrepareCompletedLo ==
  /\ HostAt("prep_zlo")
  /\ fast' = [fast EXCEPT !.doneLo = 0]
  /\ HostTo("prep_zhi")
  /\ UNCHANGED <<requested, latch, completed, io, shadow, line, guest, mmio,
                 applied>>

PrepareCompletedHi ==
  /\ HostAt("prep_zhi")
  /\ fast' = [fast EXCEPT !.doneHi = 0, !.dirty = FALSE]
  /\ shadow' = [shadow EXCEPT !.VCOUNT = latch, !.Flags = io.Flags \cup {"HBLANK"}]
  /\ HostTo("hblank_read")
  /\ UNCHANGED <<requested, latch, completed, io, line, guest, mmio, applied>>

\* enter_hblank ends with a pulse that asks neither IE nor IME.
HblankPulse ==
  /\ HostAt("hblank_pulse")
  /\ line' = TRUE
  /\ HostTo("wait")
  /\ UNCHANGED <<requested, latch, completed, io, shadow, fast, guest, mmio,
                 applied>>

\* wait_for_hblank_complete: one turn of the loop.
SeeCompleted ==
  /\ HostAt("wait")
  /\ completed >= host.seq
  /\ HostTo("next")
  /\ UNCHANGED <<requested, latch, completed, io, shadow, fast, line, guest,
                 mmio, applied>>

\* Mutant: a completion of the request before is accepted too.
ReadCompletedHiOffByOne ==
  /\ HostAt("wait_hi")
  /\ host' = [host EXCEPT !.lo = 0,
       !.pc = IF Seq(host.lo, fast.doneHi) + 1 >= host.seq THEN "finish"
              ELSE "deadline"]
  /\ UNCHANGED <<requested, latch, completed, io, shadow, fast, line, guest,
                 mmio, applied>>

ReadCompletedLo ==
  /\ HostAt("wait")
  /\ completed < host.seq
  /\ host' = [host EXCEPT !.pc = "wait_hi", !.lo = fast.doneLo]
  /\ UNCHANGED <<requested, latch, completed, io, shadow, fast, line, guest,
                 mmio, applied>>

ReadCompletedHi ==
  /\ HostAt("wait_hi")
  /\ host' = [host EXCEPT !.lo = 0,
       !.pc = IF Seq(host.lo, fast.doneHi) >= host.seq THEN "finish"
              ELSE "deadline"]
  /\ UNCHANGED <<requested, latch, completed, io, shadow, fast, line, guest,
                 mmio, applied>>

\* Mutant: the loop never gives up.
CheckDeadlineForever ==
  /\ HostAt("deadline")
  /\ HostTo("wait")
  /\ UNCHANGED <<requested, latch, completed, io, shadow, fast, line, guest,
                 mmio, applied>>

\* The one-millisecond deadline passes at some moment of the wait.
DeadlinePasses ==
  /\ host.pc \in {"wait", "wait_hi", "deadline"}
  /\ ~host.expired
  /\ host' = [host EXCEPT !.expired = TRUE]
  /\ UNCHANGED <<requested, latch, completed, io, shadow, fast, line, guest,
                 mmio, applied>>

\* Mutant: giving up also drops the flag, so that the next line requests again.
CheckDeadlineDropsFlag ==
  /\ HostAt("deadline")
  /\ HostTo(IF host.expired THEN "next" ELSE "wait")
  /\ io' = [io EXCEPT !.Flags = IF host.expired THEN @ \ {"HBLANK"} ELSE @]
  /\ UNCHANGED <<requested, latch, completed, shadow, fast, line, guest, mmio,
                 applied>>

CheckDeadline ==
  /\ HostAt("deadline")
  /\ HostTo(IF host.expired THEN "next" ELSE "wait")
  /\ UNCHANGED <<requested, latch, completed, io, shadow, fast, line, guest,
                 mmio, applied>>

\* finish_fast_hblank_from_shared: IF is read ...
FinishRead ==
  /\ HostAt("finish")
  /\ host' = [host EXCEPT !.pc = "finish_if", !.iflag = io.Flags]
  /\ UNCHANGED <<requested, latch, completed, io, shadow, fast, line, guest,
                 mmio, applied>>

\* ... and written without the acknowledged flags; IME only if it is dirty ...
FinishAck ==
  /\ HostAt("finish_if")
  /\ LET ack == IF fast.dirty THEN fast.ack ELSE {"HBLANK"}
     IN  io' = [io EXCEPT !.Flags = host.iflag \ ack,
                          !.IME = IF fast.dirty THEN fast.IME ELSE @]
  /\ host' = [host EXCEPT !.pc = "finish_ofs", !.iflag = {}]
  /\ UNCHANGED <<requested, latch, completed, shadow, fast, line, guest, mmio,
                 applied>>

\* ... then the dirty offsets go to the registers and the raster lines, and the
\* request counts as completed.
FinishOffsets ==
  /\ HostAt("finish_ofs")
  /\ IF fast.dirty
     THEN /\ io' = [io EXCEPT !.ofs = fast.ofs]
          /\ applied' = [seq |-> host.seq, tag |-> fast.ofs]
     ELSE UNCHANGED <<io, applied>>
  /\ completed' = host.seq
  /\ HostTo("finish_line")
  /\ UNCHANGED <<requested, latch, shadow, fast, line, guest, mmio>>

\* Mutant: the line number does not wrap at the end of the frame.
NextLineNoWrap ==
  /\ HostAt("next")
  /\ host' = HostAtLine(host.vcount + 1)
  /\ UNCHANGED <<requested, latch, completed, io, shadow, fast, line, guest,
                 mmio, applied>>

FinishLine ==
  /\ HostAt("finish_line")
  /\ line' = Asserted(io.Flags, io.IE, io.IME)
  /\ HostTo("next")
  /\ UNCHANGED <<requested, latch, completed, io, shadow, fast, guest, mmio,
                 applied>>

NextLine ==
  /\ HostAt("next")
  /\ host' = HostAtLine((host.vcount + 1) % TotalLines)
  /\ UNCHANGED <<requested, latch, completed, io, shadow, fast, line, guest,
                 mmio, applied>>

HostStep ==
  \/ SetVcount
  \/ RequestRead("vblank_read", "vblank_write")
  \/ RequestWrite("vblank_write", "vblank_line", "VBLANK")
  \/ VblankLine \/ CheckPending \/ EnterHblank \/ SkipHblank
  \/ PrepareShadow \/ PrepareRequestHi \/ PrepareCompletedLo
  \/ PrepareCompletedHi
  \/ RequestRead("hblank_read", "hblank_write")
  \/ RequestWrite("hblank_write", "hblank_pulse", "HBLANK")
  \/ HblankPulse
  \/ SeeCompleted \/ ReadCompletedLo \/ ReadCompletedHi \/ CheckDeadline
  \/ FinishRead \/ FinishAck \/ FinishOffsets \/ FinishLine
  \/ NextLine

-----------------------------------------------------------------------------
(* The guest: the BIOS's irq_handler and the cartridge's handler.          *)

GuestAt(pc) == guest.pc = pc
GuestTo(pc) == guest' = [guest EXCEPT !.pc = pc]

\* The vCPU takes the interrupt while the line is high and the main program runs.
TakeIrq ==
  /\ GuestAt("run")
  /\ line
  /\ GuestTo("irq")
  /\ UNCHANGED <<requested, latch, completed, io, shadow, fast, line, host,
                 mmio, applied>>

\* Mutant: the BIOS tests HBLANK before VBLANK.
DispatchHblankFirst ==
  /\ GuestAt("irq")
  /\ GuestTo(IF io.Flags = {} THEN "run"
             ELSE IF "HBLANK" \in io.Flags THEN "handler" ELSE "slow")
  /\ UNCHANGED <<requested, latch, completed, io, shadow, fast, line, host,
                 mmio, applied>>

\* irq_handler: nothing pending returns, VBLANK goes the slow way first, HBLANK
\* alone the fast way.
Dispatch ==
  /\ GuestAt("irq")
  /\ GuestTo(IF io.Flags = {} THEN "run"
             ELSE IF "VBLANK" \in io.Flags THEN "slow" ELSE "handler")
  /\ UNCHANGED <<requested, latch, completed, io, shadow, fast, line, host,
                 mmio, applied>>

\* The fast way: the cartridge's handler, in the HBLANK map, reads VCOUNT ...
HandlerRead ==
  /\ GuestAt("handler")
  /\ guest' = [guest EXCEPT !.pc = "handler_end", !.tag = shadow.VCOUNT]
  /\ UNCHANGED <<requested, latch, completed, io, shadow, fast, line, host,
                 mmio, applied>>

\* ... and writes the offsets for it, and the flags it acknowledges, if any.
HandlerWrite ==
  /\ GuestAt("handler_end")
  /\ \E ack \in {shadow.Flags, {"HBLANK"}} :
       shadow' = [shadow EXCEPT !.ofs = guest.tag, !.Flags = ack]
  /\ guest' = [guest EXCEPT !.pc = "copy", !.tag = 0]
  /\ UNCHANGED <<requested, latch, completed, io, fast, line, host, mmio,
                 applied>>

\* The BIOS marks every field dirty and copies them from the shadow page ...
CopyFields ==
  /\ GuestAt("copy")
  /\ fast' = [fast EXCEPT !.dirty = TRUE, !.ofs = shadow.ofs,
                          !.IME = shadow.IME, !.ack = shadow.Flags \cup {"HBLANK"}]
  /\ GuestTo("read_lo")
  /\ UNCHANGED <<requested, latch, completed, io, shadow, line, host, mmio,
                 applied>>

\* ... and writes the request's number back, half by half.
ReadRequestLo ==
  /\ GuestAt("read_lo")
  /\ guest' = [guest EXCEPT !.pc = "read_hi", !.lo = fast.reqLo]
  /\ UNCHANGED <<requested, latch, completed, io, shadow, fast, line, host,
                 mmio, applied>>

ReadRequestHi ==
  /\ GuestAt("read_hi")
  /\ guest' = [guest EXCEPT !.pc = "write_lo", !.hi = fast.reqHi]
  /\ UNCHANGED <<requested, latch, completed, io, shadow, fast, line, host,
                 mmio, applied>>

WriteCompletedLo ==
  /\ GuestAt("write_lo")
  /\ fast' = [fast EXCEPT !.doneLo = guest.lo]
  /\ guest' = [guest EXCEPT !.pc = "write_hi", !.lo = 0]
  /\ UNCHANGED <<requested, latch, completed, io, shadow, line, host, mmio,
                 applied>>

WriteCompletedHi ==
  /\ GuestAt("write_hi")
  /\ fast' = [fast EXCEPT !.doneHi = guest.hi]
  /\ guest' = Running
  /\ UNCHANGED <<requested, latch, completed, io, shadow, line, host, mmio,
                 applied>>

-----------------------------------------------------------------------------
(* MMIO: a write to the I/O page leaves the guest and is served by the KVM *)
(* thread (handle_mmio) while the guest stands still.                      *)

MmioExit(write) ==
  /\ GuestTo(IF write.reg = "FAST_EXIT" THEN "exit_read" ELSE "mmio_store")
  /\ mmio' = [mmio EXCEPT !.write = write, !.oldIf = io.Flags]
  /\ UNCHANGED <<requested, latch, completed, io, shadow, fast, line, host,
                 applied>>

ProgramWrite ==
  /\ GuestAt("run")
  /\ \E write \in GuestWrites : MmioExit(write)

\* The slow way: the handler acknowledges flags of the real IF and returns, or
\* returns without.
SlowAck ==
  /\ GuestAt("slow")
  /\ \E ack \in SUBSET io.Flags \ {{}} :
       /\ HandlerAcksAll => ack = io.Flags
       /\ MmioExit([reg |-> "IF", val |-> ack])

SlowReturn ==
  /\ GuestAt("slow")
  /\ HandlerAcksAll => io.Flags = {}
  /\ GuestTo("run")
  /\ UNCHANGED <<requested, latch, completed, io, shadow, fast, line, host,
                 mmio, applied>>

\* mirror_io_write: the raw bytes go to the page first, IF's too ...
MmioStore ==
  /\ GuestAt("mmio_store")
  /\ LET write == mmio.write
     IN  io' = CASE write.reg = "IF" -> [io EXCEPT !.Flags = write.val]
               [] write.reg = "IE" -> [io EXCEPT !.IE = write.val]
               [] write.reg = "IME" -> [io EXCEPT !.IME = write.val]
               [] write.reg = "DISPCNT" -> [io EXCEPT !.DISPCNT = write.val]
               [] OTHER -> [io EXCEPT !.DISPSTAT =
                              (@ \ IrqEnables) \cup (write.val \cap IrqEnables)]
  /\ GuestTo(IF mmio.write.reg = "IF" THEN "mmio_if" ELSE "mmio_line")
  /\ UNCHANGED <<requested, latch, completed, shadow, fast, line, host, mmio,
                 applied>>

\* ... then the IF that was read at the start, less the acknowledged flags.
MmioIf ==
  /\ GuestAt("mmio_if")
  /\ io' = [io EXCEPT !.Flags = mmio.oldIf \ mmio.write.val]
  /\ GuestTo("mmio_line")
  /\ UNCHANGED <<requested, latch, completed, shadow, fast, line, host, mmio,
                 applied>>

MmioLine ==
  /\ GuestAt("mmio_line")
  /\ line' = Asserted(io.Flags, io.IE, io.IME)
  /\ guest' = Running
  /\ mmio' = NoMmio
  /\ UNCHANGED <<requested, latch, completed, io, shadow, fast, host, applied>>

\* finish_fast_hblank, on a write to FAST_EXIT_ADDR: IF and IME from the shadow
\* page ...
ExitRead ==
  /\ GuestAt("exit_read")
  /\ mmio' = [mmio EXCEPT !.oldIf = io.Flags]
  /\ GuestTo("exit_if")
  /\ UNCHANGED <<requested, latch, completed, io, shadow, fast, line, host,
                 applied>>

ExitAck ==
  /\ GuestAt("exit_if")
  /\ io' = [io EXCEPT !.Flags = mmio.oldIf \ (shadow.Flags \cup {"HBLANK"}),
                      !.IME = shadow.IME]
  /\ GuestTo("exit_ofs")
  /\ UNCHANGED <<requested, latch, completed, shadow, fast, line, host, mmio,
                 applied>>

\* ... the offsets, and the latest request as completed, in two accesses.
ExitOffsets ==
  /\ GuestAt("exit_ofs")
  /\ io' = [io EXCEPT !.ofs = shadow.ofs]
  /\ mmio' = [mmio EXCEPT !.seq = latch]
  /\ GuestTo("exit_seq")
  /\ UNCHANGED <<requested, latch, completed, shadow, fast, line, host,
                 applied>>

ExitComplete ==
  /\ GuestAt("exit_seq")
  /\ completed' = mmio.seq
  /\ GuestTo("mmio_line")
  /\ UNCHANGED <<requested, latch, io, shadow, fast, line, host, mmio, applied>>

\* What the guest and the KVM thread do once an interrupt or a write has begun.
GuestStep ==
  \/ Dispatch \/ HandlerRead \/ HandlerWrite \/ CopyFields
  \/ ReadRequestLo \/ ReadRequestHi \/ WriteCompletedLo \/ WriteCompletedHi
  \/ SlowAck \/ SlowReturn
  \/ MmioStore \/ MmioIf \/ MmioLine
  \/ ExitRead \/ ExitAck \/ ExitOffsets \/ ExitComplete

Next == HostStep \/ DeadlinePasses \/ TakeIrq \/ GuestStep \/ ProgramWrite

\* Safety asks nothing of the scheduler.
Spec == Init /\ [][Next]_vars

\* The vcount thread runs and time passes; the guest owes nothing.
HostFairSpec == Spec /\ WF_vars(HostStep) /\ WF_vars(DeadlinePasses)

\* A vCPU that also runs its handlers, and takes an interrupt that is asserted
\* again and again while its program runs: the line is sampled between
\* instructions, the one after an MMIO exit included.
ResponsiveGuest == SF_vars(TakeIrq) /\ WF_vars(GuestStep)

-----------------------------------------------------------------------------
(* Properties.                                                             *)

HostPcs ==
  {"line", "vblank_read", "vblank_write", "vblank_line", "hdraw", "enter",
   "prep_lo", "prep_hi", "prep_zlo", "prep_zhi", "hblank_read",
   "hblank_write", "hblank_pulse", "wait", "wait_hi", "deadline", "finish",
   "finish_if", "finish_ofs", "finish_line", "next"}

GuestPcs ==
  {"run", "irq", "slow", "handler", "handler_end", "copy", "read_lo",
   "read_hi", "write_lo", "write_hi", "mmio_store", "mmio_if", "mmio_line",
   "exit_read", "exit_if", "exit_ofs", "exit_seq"}

\* Every variable keeps its type: sequence numbers stay under the bound and
\* their halves below 2^32 (here HalfBase).
TypeOK ==
  /\ requested \in Seqs /\ latch \in Seqs /\ completed \in Seqs
  /\ io \in [Flags: SUBSET Interrupts, IE: SUBSET Interrupts, IME: BOOLEAN,
             DISPSTAT: SUBSET DispstatBits, DISPCNT: BOOLEAN, ofs: Seqs]
  /\ shadow \in [Flags: SUBSET Interrupts, IME: BOOLEAN, VCOUNT: Seqs, ofs: Seqs]
  /\ fast \in [reqLo: Halves, reqHi: Halves, doneLo: Halves, doneHi: Halves,
               dirty: BOOLEAN, ofs: Seqs, IME: BOOLEAN, ack: SUBSET Interrupts]
  /\ line \in BOOLEAN
  /\ host \in [pc: HostPcs, vcount: 0..(TotalLines - 1), seq: Seqs,
               iflag: SUBSET Interrupts, lo: Halves, expired: BOOLEAN]
  /\ guest \in [pc: GuestPcs, tag: Seqs, lo: Halves, hi: Halves]
  /\ mmio \in [write: Writes, oldIf: SUBSET Interrupts, seq: Seqs]
  /\ applied \in [seq: Seqs, tag: Seqs]

\* From the request to the end of the wait the thread works on the newest
\* request, and no completion runs ahead of what was requested, whichever of
\* the two completion paths stores it (enter_hblank, finish_fast_hblank).
InRequest ==
  {"prep_lo", "prep_hi", "prep_zlo", "prep_zhi", "hblank_read",
   "hblank_write", "hblank_pulse", "wait", "wait_hi", "deadline", "finish",
   "finish_if", "finish_ofs", "finish_line"}

SeqOrder ==
  /\ completed <= latch
  /\ latch = requested
  /\ host.pc \in InRequest => host.seq = requested
  /\ GuestAt("exit_seq") => mmio.seq <= latch

\* completed_seq never goes back, although finish_fast_hblank stores a latch it
\* read earlier while the vcount thread may finish a newer request.
CompletedMonotone == [][completed' >= completed]_completed

\* A completion taken from shared memory leaves the registers as they are or
\* gives them offsets computed for that request or, at worst, the one before: a
\* handler that started late is credited to one newer request and to no later
\* one, although IF can lose or regain HBLANK in a race of two writers.
StaleByAtMostOne ==
  [][applied'.tag + 1 >= applied'.seq \/ applied'.tag = io.ofs]_applied

\* Whatever the guest does, the scanline clock comes back to the next line: the
\* wait for the guest is bounded by its deadline.
ClockTicks == []<>HostAt("line")

\* Once the program of a responsive guest leaves both interrupts enabled, an
\* HBLANK flag that no completion cleared is cleared in the end: VBLANK sends the
\* BIOS the slow way, where the handler acknowledges the real IF.
Enabled == io.IE = Interrupts /\ io.IME /\ IrqEnables \subseteq io.DISPSTAT
FlagRecovers ==
  ResponsiveGuest /\ <>[]Enabled => []<>("HBLANK" \notin io.Flags)
=============================================================================
