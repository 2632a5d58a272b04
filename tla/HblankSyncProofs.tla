-------------------------- MODULE HblankSyncProofs --------------------------
(***************************************************************************)
(* For every frame geometry, width of the sequence numbers and repertoire  *)
(* of guest writes: HblankSync keeps its types, completions neither run    *)
(* ahead of requests nor go back, and an answer taken from shared memory   *)
(* is that of its request or of the one before.                            *)
(***************************************************************************)
EXTENDS HblankSync, TLAPS

OrderInv == TypeOK /\ SeqOrder

Answered == {"finish", "finish_if", "finish_ofs"}
Asking == {"hblank_read", "hblank_write", "hblank_pulse", "wait", "wait_hi", "deadline"}

\* The guest has not written a completion since the thread cleared COMPLETED, or
\* before it will clear it: the wait will end at its deadline.
Unanswered ==
  /\ host.pc \notin Answered \cup {"finish_line"}
  /\ host.pc \in Asking \cup {"prep_zhi"} => fast.doneLo = 0
  /\ host.pc \in Asking => fast.doneHi = 0
  /\ host.pc = "wait_hi" => host.lo = 0

\* Nor has the guest touched IF: HBLANK stays set and no further request is made.
Blocked ==
  /\ Unanswered
  /\ latch > 0
  /\ host.pc # "enter"
  /\ host.pc \in {"hblank_pulse", "wait", "wait_hi", "deadline", "next", "line",
                  "vblank_read", "vblank_line", "hdraw"} => "HBLANK" \in io.Flags
  /\ host.pc = "vblank_write" => "HBLANK" \in host.iflag

\* While finish_fast_hblank is about to store a number, nothing newer completes.
ExitNewest ==
  GuestAt("exit_seq") =>
    /\ completed <= mmio.seq
    /\ mmio.seq < latch => Unanswered

\* The shadow page shows the latest request's VCOUNT as soon as it is prepared.
ShadowTag ==
  /\ host.pc \in InRequest => requested > 0
  /\ shadow.VCOUNT = latch \/ (HostAt("prep_lo") /\ shadow.VCOUNT + 1 = latch)

\* From the handler's read of VCOUNT to the copy of its fields at most one request
\* is made, and that one not answered; if it is prepared before the copy, the
\* offset that is copied is the one of the registers.
LateHandler ==
  /\ GuestAt("handler_end") =>
       guest.tag >= latch \/ (guest.tag + 1 >= latch /\ Blocked)
  /\ GuestAt("copy") =>
       \/ shadow.ofs >= latch
       \/ Blocked /\ (shadow.ofs + 1 >= latch \/ shadow.ofs = io.ofs)

\* What was copied since the request was prepared is not older, and is still what
\* the shadow page holds, which the exit path copies too.
CopiedFresh ==
  fast.dirty /\ host.pc \in Asking \cup Answered =>
    /\ fast.ofs + 1 >= latch \/ fast.ofs = io.ofs
    /\ ~GuestAt("copy") => shadow.ofs = fast.ofs

FreshInv == ExitNewest /\ ShadowTag /\ LateHandler /\ CopiedFresh

IInv == OrderInv /\ FreshInv

-----------------------------------------------------------------------------
(* Sequence numbers and their halves.                                      *)

\* The two halves of a sequence number are halves (write_fast_hblank_u64).
LEMMA HalvesOfSeq ==
  ASSUME NEW s \in Seqs
  PROVE  Lo(s) \in Halves /\ Hi(s) \in Halves
<1>1. s \in Nat /\ s < HalfBase * HalfBase
  BY SeqAssumption DEF Seqs
<1>2. Lo(s) \in Halves
  BY <1>1, SeqAssumption DEF Lo, Halves
<1>3. Hi(s) \in Halves
  BY <1>1, SeqAssumption DEF Hi, Halves
<1> QED  BY <1>2, <1>3

-----------------------------------------------------------------------------
(* Initially.                                                              *)

\* The machine starts with everything cleared.
LEMMA InitOrder == Init => OrderInv
<1> SUFFICES ASSUME Init PROVE OrderInv
  OBVIOUS
<1>1. 0 \in Seqs /\ 0 \in Halves /\ 0 \in 0..(TotalLines - 1)
  BY SeqAssumption, LinesAssumption DEF Seqs, Halves
<1>2. host \in [pc: HostPcs, vcount: 0..(TotalLines - 1), seq: Seqs,
                iflag: SUBSET Interrupts, lo: Halves, expired: BOOLEAN]
  BY <1>1 DEF Init, HostAtLine, HostPcs
<1>3. /\ guest \in [pc: GuestPcs, tag: Seqs, lo: Halves, hi: Halves]
      /\ mmio \in [write: Writes, oldIf: SUBSET Interrupts, seq: Seqs]
  BY <1>1 DEF Init, Running, NoMmio, ExitWrite, Writes, GuestPcs
<1>4. TypeOK
  BY <1>1, <1>2, <1>3 DEF Init, TypeOK
<1>5. SeqOrder
  BY DEF Init, SeqOrder, InRequest, HostAtLine, GuestAt, Running
<1> QED  BY <1>4, <1>5 DEF OrderInv

-----------------------------------------------------------------------------
(* The steps of the vcount clock thread.                                   *)

\* Every step of the thread keeps the invariant: within a request the sequence
\* number stays the newest, and only finish_fast_hblank_from_shared stores it.
LEMMA HostOrder ==
  ASSUME OrderInv, HostStep
  PROVE  OrderInv'
<1> USE DEF OrderInv, TypeOK, SeqOrder, InRequest, HostPcs, HostAt, HostTo, GuestAt
<1>1. CASE SetVcount
  BY <1>1 DEF SetVcount, DispstatBits, IrqEnables
<1>2. CASE RequestRead("vblank_read", "vblank_write")
  BY <1>2 DEF RequestRead
<1>3. CASE RequestWrite("vblank_write", "vblank_line", "VBLANK")
  BY <1>3 DEF RequestWrite, Interrupts
<1>4. CASE VblankLine
  BY <1>4 DEF VblankLine, Asserted
<1>5. CASE CheckPending
  BY <1>5 DEF CheckPending
<1>6. CASE EnterHblank
  <2>1. requested + 1 \in Seqs /\ completed <= requested + 1
    BY <1>6, SeqAssumption DEF EnterHblank, CanRequest, Seqs
  <2>2. io.DISPSTAT \cup {"HBLANK"} \in SUBSET DispstatBits
    BY DEF DispstatBits
  <2>3. TypeOK'
    BY <1>6, <2>1, <2>2 DEF EnterHblank
  <2>4. SeqOrder'
    BY <1>6, <2>1 DEF EnterHblank, Seqs
  <2> QED  BY <2>3, <2>4
<1>7. CASE SkipHblank
  BY <1>7 DEF SkipHblank, DispstatBits
<1>8. CASE PrepareShadow
  BY <1>8, HalvesOfSeq DEF PrepareShadow
<1>9. CASE PrepareRequestHi
  BY <1>9, HalvesOfSeq DEF PrepareRequestHi
<1>10. CASE PrepareCompletedLo
  BY <1>10, SeqAssumption DEF PrepareCompletedLo, Halves
<1>11. CASE PrepareCompletedHi
  <2>1. io.Flags \cup {"HBLANK"} \in SUBSET Interrupts /\ 0 \in Halves
    BY SeqAssumption DEF Interrupts, Halves
  <2>2. fast' \in [reqLo: Halves, reqHi: Halves, doneLo: Halves, doneHi: Halves,
                   dirty: BOOLEAN, ofs: Seqs, IME: BOOLEAN,
                   ack: SUBSET Interrupts]
    BY <1>11, <2>1 DEF PrepareCompletedHi
  <2>3. shadow' \in [Flags: SUBSET Interrupts, IME: BOOLEAN, VCOUNT: Seqs,
                     ofs: Seqs]
    BY <1>11, <2>1 DEF PrepareCompletedHi
  <2> QED  BY <1>11, <2>2, <2>3 DEF PrepareCompletedHi
<1>12. CASE RequestRead("hblank_read", "hblank_write")
  BY <1>12 DEF RequestRead
<1>13. CASE RequestWrite("hblank_write", "hblank_pulse", "HBLANK")
  BY <1>13 DEF RequestWrite, Interrupts
<1>14. CASE HblankPulse
  BY <1>14 DEF HblankPulse
<1>15. CASE SeeCompleted
  BY <1>15 DEF SeeCompleted
<1>16. CASE ReadCompletedLo
  BY <1>16 DEF ReadCompletedLo
<1>17. CASE ReadCompletedHi
  <2>1. 0 \in Halves
    BY SeqAssumption DEF Halves
  <2>2. PICK pc \in {"finish", "deadline"} :
          host' = [host EXCEPT !.lo = 0, !.pc = pc]
    BY <1>17 DEF ReadCompletedHi
  <2>3. host' \in [pc: HostPcs, vcount: 0..(TotalLines - 1), seq: Seqs,
                   iflag: SUBSET Interrupts, lo: Halves, expired: BOOLEAN]
    BY <2>1, <2>2
  <2>4. host.seq = requested /\ host'.seq = host.seq
    BY <1>17, <2>2 DEF ReadCompletedHi
  <2> QED  BY <1>17, <2>3, <2>4 DEF ReadCompletedHi
<1>18. CASE CheckDeadline
  BY <1>18 DEF CheckDeadline
<1>19. CASE FinishRead
  BY <1>19 DEF FinishRead
<1>20. CASE FinishAck
  BY <1>20 DEF FinishAck
<1>21. CASE FinishOffsets
  BY <1>21 DEF FinishOffsets, Seqs
<1>22. CASE FinishLine
  BY <1>22 DEF FinishLine, Asserted
<1>23. CASE NextLine
  BY <1>23, SeqAssumption, LinesAssumption DEF NextLine, HostAtLine, Seqs, Halves
<1> QED
  BY <1>1, <1>2, <1>3, <1>4, <1>5, <1>6, <1>7, <1>8, <1>9, <1>10, <1>11, <1>12, <1>13, <1>14, <1>15, <1>16, <1>17, <1>18, <1>19, <1>20, <1>21, <1>22, <1>23 DEF HostStep

-----------------------------------------------------------------------------
(* The steps of the guest and of the KVM thread.                           *)

\* An MMIO exit records the write and the IF it starts from.
LEMMA MmioExitOrder ==
  ASSUME OrderInv, NEW write \in Writes, MmioExit(write)
  PROVE  OrderInv'
<1>1. PICK pc \in {"exit_read", "mmio_store"} :
        guest' = [guest EXCEPT !.pc = pc]
  BY DEF MmioExit, GuestTo
<1>2. guest' \in [pc: GuestPcs, tag: Seqs, lo: Halves, hi: Halves]
  BY <1>1 DEF OrderInv, TypeOK, GuestPcs
<1>3. mmio' \in [write: Writes, oldIf: SUBSET Interrupts, seq: Seqs]
  BY DEF MmioExit, OrderInv, TypeOK
<1> QED
  BY <1>1, <1>2, <1>3 DEF MmioExit, OrderInv, TypeOK, SeqOrder, GuestAt

\* Every step of the guest and of the KVM thread keeps the invariant: only
\* finish_fast_hblank stores a number, one that the latch had.
LEMMA GuestOrder ==
  ASSUME OrderInv, GuestStep \/ TakeIrq \/ ProgramWrite
  PROVE  OrderInv'
<1> USE DEF OrderInv, TypeOK, SeqOrder, GuestPcs, HostAt, GuestAt, GuestTo
<1>1. CASE TakeIrq
  BY <1>1 DEF TakeIrq
<1>2. CASE Dispatch
  BY <1>2 DEF Dispatch
<1>3. CASE HandlerRead
  BY <1>3 DEF HandlerRead
<1>4. CASE HandlerWrite
  <2>1. 0 \in Seqs /\ {"HBLANK"} \in SUBSET Interrupts
    BY SeqAssumption DEF Seqs, Interrupts
  <2>2. PICK ack \in SUBSET Interrupts :
          shadow' = [shadow EXCEPT !.ofs = guest.tag, !.Flags = ack]
    BY <1>4, <2>1 DEF HandlerWrite
  <2> QED  BY <1>4, <2>1, <2>2 DEF HandlerWrite
<1>5. CASE CopyFields
  BY <1>5 DEF CopyFields, Interrupts
<1>6. CASE ReadRequestLo
  BY <1>6 DEF ReadRequestLo
<1>7. CASE ReadRequestHi
  BY <1>7 DEF ReadRequestHi
<1>8. CASE WriteCompletedLo
  <2>1. 0 \in Halves
    BY SeqAssumption DEF Halves
  <2> QED  BY <1>8, <2>1 DEF WriteCompletedLo
<1>9. CASE WriteCompletedHi
  BY <1>9, SeqAssumption DEF WriteCompletedHi, Running, Halves, Seqs
<1>10. CASE ProgramWrite
  <2>1. PICK write \in Writes : MmioExit(write)
    BY <1>10, GuestAssumption DEF ProgramWrite
  <2> QED  BY <2>1, MmioExitOrder
<1>11. CASE SlowAck
  <2>1. PICK ack \in SUBSET Interrupts :
          MmioExit([reg |-> "IF", val |-> ack])
    BY <1>11 DEF SlowAck
  <2>2. [reg |-> "IF", val |-> ack] \in Writes
    BY DEF Writes
  <2> QED  BY <2>1, <2>2, MmioExitOrder
<1>12. CASE SlowReturn
  BY <1>12 DEF SlowReturn
<1>13. CASE MmioStore
  <2>1. io' \in [Flags: SUBSET Interrupts, IE: SUBSET Interrupts, IME: BOOLEAN,
                 DISPSTAT: SUBSET DispstatBits, DISPCNT: BOOLEAN, ofs: Seqs]
    BY <1>13 DEF MmioStore, Writes, IrqEnables, DispstatBits
  <2>2. PICK pc \in {"mmio_if", "mmio_line"} :
          guest' = [guest EXCEPT !.pc = pc]
    BY <1>13 DEF MmioStore
  <2>3. guest' \in [pc: GuestPcs, tag: Seqs, lo: Halves, hi: Halves]
    BY <2>2
  <2> QED  BY <1>13, <2>1, <2>2, <2>3 DEF MmioStore
<1>14. CASE MmioIf
  BY <1>14 DEF MmioIf
<1>15. CASE MmioLine
  BY <1>15, SeqAssumption DEF MmioLine, Asserted, Running, NoMmio, ExitWrite, Writes, Halves, Seqs
<1>16. CASE ExitRead
  BY <1>16 DEF ExitRead
<1>17. CASE ExitAck
  BY <1>17 DEF ExitAck
<1>18. CASE ExitOffsets
  BY <1>18 DEF ExitOffsets, Seqs
<1>19. CASE ExitComplete
  BY <1>19 DEF ExitComplete
<1> QED
  BY <1>1, <1>2, <1>3, <1>4, <1>5, <1>6, <1>7, <1>8, <1>9, <1>10, <1>11, <1>12, <1>13, <1>14, <1>15, <1>16, <1>17, <1>18, <1>19 DEF GuestStep

-----------------------------------------------------------------------------
(* Answers stay fresh.                                                     *)

LEMMA InitFresh == Init => FreshInv
  BY DEF Init, FreshInv, ExitNewest, ShadowTag, LateHandler, CopiedFresh, InRequest,
         GuestAt, HostAt, HostAtLine, Running

\* The vcount thread.
LEMMA HostFresh ==
  ASSUME IInv, HostStep
  PROVE  FreshInv'
<1> USE DEF IInv, OrderInv, FreshInv, TypeOK, SeqOrder, InRequest, HostAt, HostTo, GuestAt,
            ExitNewest, ShadowTag, LateHandler, CopiedFresh, Answered, Asking,
            Blocked, Unanswered, Seqs
<1>1. CASE SetVcount
  BY <1>1 DEF SetVcount
<1>2. CASE RequestRead("vblank_read", "vblank_write")
  BY <1>2 DEF RequestRead
<1>3. CASE RequestWrite("vblank_write", "vblank_line", "VBLANK")
  BY <1>3 DEF RequestWrite
<1>4. CASE VblankLine
  BY <1>4 DEF VblankLine
<1>5. CASE CheckPending
  BY <1>5 DEF CheckPending
<1>6. CASE EnterHblank
  BY <1>6 DEF EnterHblank
<1>7. CASE SkipHblank
  BY <1>7 DEF SkipHblank
<1>8. CASE PrepareShadow
  BY <1>8 DEF PrepareShadow
<1>9. CASE PrepareRequestHi
  BY <1>9 DEF PrepareRequestHi
<1>10. CASE PrepareCompletedLo
  BY <1>10 DEF PrepareCompletedLo
<1>11. CASE PrepareCompletedHi
  BY <1>11 DEF PrepareCompletedHi
<1>12. CASE RequestRead("hblank_read", "hblank_write")
  BY <1>12 DEF RequestRead
<1>13. CASE RequestWrite("hblank_write", "hblank_pulse", "HBLANK")
  BY <1>13 DEF RequestWrite
<1>14. CASE HblankPulse
  BY <1>14 DEF HblankPulse
<1>15. CASE SeeCompleted
  BY <1>15 DEF SeeCompleted
<1>16. CASE ReadCompletedLo
  BY <1>16 DEF ReadCompletedLo
<1>17. CASE ReadCompletedHi
  <2>1. Seq(0, 0) = 0
    BY SeqAssumption DEF Seq
  <2>2. host.seq = requested /\ requested > 0 /\ requested \in Nat /\ HostAt("wait_hi")
    BY <1>17 DEF ReadCompletedHi
  <2>3. Unanswered => Seq(host.lo, fast.doneHi) = 0
    BY <2>1, <2>2
  <2>4. PICK pc \in {"finish", "deadline"} :
          /\ host' = [host EXCEPT !.lo = 0, !.pc = pc]
          /\ Unanswered => pc = "deadline"
    <3> USE DEF ReadCompletedHi
    <3>1. CASE Seq(host.lo, fast.doneHi) >= host.seq
      <4>1. ~Unanswered
        BY <2>2, <2>3, <3>1
      <4>2. host' = [host EXCEPT !.lo = 0, !.pc = "finish"]
        BY <1>17, <3>1
      <4> QED  BY <4>1, <4>2, Zenon
    <3>2. CASE ~(Seq(host.lo, fast.doneHi) >= host.seq)
      <4>1. host' = [host EXCEPT !.lo = 0, !.pc = "deadline"]
        BY <1>17, <3>2
      <4> QED  BY <4>1, Zenon
    <3> QED  BY <3>1, <3>2
  <2>5. host'.pc = pc /\ host'.lo = 0 /\ host'.seq = host.seq /\ host'.iflag = host.iflag
    BY <2>4
  <2> QED  BY <1>17, <2>2, <2>4, <2>5 DEF ReadCompletedHi
<1>18. CASE CheckDeadline
  BY <1>18 DEF CheckDeadline
<1>19. CASE FinishRead
  BY <1>19 DEF FinishRead
<1>20. CASE FinishAck
  BY <1>20 DEF FinishAck
<1>21. CASE FinishOffsets
  BY <1>21 DEF FinishOffsets
<1>22. CASE FinishLine
  BY <1>22 DEF FinishLine
<1>23. CASE NextLine
  BY <1>23 DEF NextLine, HostAtLine
<1> QED
  BY <1>1, <1>2, <1>3, <1>4, <1>5, <1>6, <1>7, <1>8, <1>9, <1>10, <1>11, <1>12, <1>13, <1>14, <1>15, <1>16, <1>17, <1>18, <1>19, <1>20, <1>21, <1>22, <1>23 DEF HostStep

\* An MMIO exit leaves what the invariant is about alone.
LEMMA MmioExitFresh ==
  ASSUME IInv, NEW write \in Writes, MmioExit(write), guest.pc \in {"run", "slow"}
  PROVE  FreshInv'
<1>1. PICK pc \in {"exit_read", "mmio_store"} :
        guest' = [guest EXCEPT !.pc = pc]
  BY DEF MmioExit, GuestTo
<1> QED
  BY <1>1 DEF MmioExit, IInv, OrderInv, FreshInv, TypeOK, ExitNewest, ShadowTag,
    LateHandler, CopiedFresh, Blocked, Unanswered, GuestAt, HostAt

\* The guest and the KVM thread.
LEMMA GuestFresh ==
  ASSUME IInv, GuestStep \/ TakeIrq \/ ProgramWrite
  PROVE  FreshInv'
<1> USE DEF IInv, OrderInv, FreshInv, TypeOK, SeqOrder, InRequest, HostAt, GuestAt, GuestTo,
            ExitNewest, ShadowTag, LateHandler, CopiedFresh, Answered, Asking,
            Blocked, Unanswered, Seqs
<1>1. CASE TakeIrq
  BY <1>1 DEF TakeIrq
<1>2. CASE Dispatch
  BY <1>2 DEF Dispatch
<1>3. CASE HandlerRead
  BY <1>3 DEF HandlerRead
<1>4. CASE HandlerWrite
  <2>1. PICK ack : shadow' = [shadow EXCEPT !.ofs = guest.tag, !.Flags = ack]
    BY <1>4 DEF HandlerWrite
  <2> QED  BY <1>4, <2>1 DEF HandlerWrite
<1>5. CASE CopyFields
  BY <1>5 DEF CopyFields
<1>6. CASE ReadRequestLo
  BY <1>6 DEF ReadRequestLo
<1>7. CASE ReadRequestHi
  BY <1>7 DEF ReadRequestHi
<1>8. CASE WriteCompletedLo
  BY <1>8 DEF WriteCompletedLo
<1>9. CASE WriteCompletedHi
  BY <1>9 DEF WriteCompletedHi, Running
<1>10. CASE ProgramWrite
  <2>1. PICK write \in Writes : MmioExit(write)
    BY <1>10, GuestAssumption DEF ProgramWrite
  <2> QED  BY <1>10, <2>1, MmioExitFresh DEF ProgramWrite
<1>11. CASE SlowAck
  <2>1. PICK ack \in SUBSET Interrupts :
          MmioExit([reg |-> "IF", val |-> ack])
    BY <1>11 DEF SlowAck
  <2>2. [reg |-> "IF", val |-> ack] \in Writes
    BY DEF Writes
  <2> QED  BY <1>11, <2>1, <2>2, MmioExitFresh DEF SlowAck
<1>12. CASE SlowReturn
  BY <1>12 DEF SlowReturn
<1>13. CASE MmioStore
  <2>1. io'.ofs = io.ofs
    BY <1>13 DEF MmioStore
  <2>2. PICK pc \in {"mmio_if", "mmio_line"} :
          guest' = [guest EXCEPT !.pc = pc]
    BY <1>13 DEF MmioStore
  <2> QED  BY <1>13, <2>1, <2>2 DEF MmioStore
<1>14. CASE MmioIf
  BY <1>14 DEF MmioIf
<1>15. CASE MmioLine
  BY <1>15 DEF MmioLine, Running
<1>16. CASE ExitRead
  BY <1>16 DEF ExitRead
<1>17. CASE ExitAck
  BY <1>17 DEF ExitAck
<1>18. CASE ExitOffsets
  BY <1>18 DEF ExitOffsets
<1>19. CASE ExitComplete
  BY <1>19 DEF ExitComplete
<1> QED
  BY <1>1, <1>2, <1>3, <1>4, <1>5, <1>6, <1>7, <1>8, <1>9, <1>10, <1>11, <1>12, <1>13, <1>14, <1>15, <1>16, <1>17, <1>18, <1>19 DEF GuestStep

-----------------------------------------------------------------------------
(* The theorems.                                                           *)

\* Every step preserves the invariant.
LEMMA NextOrder ==
  ASSUME OrderInv, [Next]_vars
  PROVE  OrderInv'
<1>1. CASE HostStep
  BY <1>1, HostOrder
<1>2. CASE GuestStep \/ TakeIrq \/ ProgramWrite
  BY <1>2, GuestOrder
<1>3. CASE DeadlinePasses
  BY <1>3 DEF DeadlinePasses, OrderInv, TypeOK, SeqOrder, GuestAt
<1>4. CASE UNCHANGED vars
  BY <1>4 DEF vars, OrderInv, TypeOK, SeqOrder, GuestAt
<1> QED  BY <1>1, <1>2, <1>3, <1>4 DEF Next

LEMMA NextFresh ==
  ASSUME IInv, [Next]_vars
  PROVE  FreshInv'
<1>1. CASE HostStep
  BY <1>1, HostFresh
<1>2. CASE GuestStep \/ TakeIrq \/ ProgramWrite
  BY <1>2, GuestFresh
<1>3. CASE DeadlinePasses
  BY <1>3 DEF DeadlinePasses, IInv, OrderInv, FreshInv, TypeOK, ExitNewest, ShadowTag,
    LateHandler, CopiedFresh, Answered, Asking, Blocked, Unanswered, GuestAt, HostAt,
    InRequest
<1>4. CASE UNCHANGED vars
  BY <1>4 DEF vars, IInv, FreshInv, ExitNewest, ShadowTag, LateHandler, CopiedFresh,
    Blocked, Unanswered, GuestAt, HostAt
<1> QED  BY <1>1, <1>2, <1>3, <1>4 DEF Next

\* The inductive invariant holds in every reachable state.
LEMMA Invariance == Spec => []IInv
<1>1. Init => IInv
  BY InitOrder, InitFresh DEF IInv
<1>2. IInv /\ [Next]_vars => IInv'
  BY NextOrder, NextFresh DEF IInv
<1> QED  BY <1>1, <1>2, PTL DEF Spec

\* Sequence numbers, halves, flags and places keep their types.
THEOREM TypeCorrect == Spec => []TypeOK
<1>1. IInv => TypeOK
  BY DEF IInv, OrderInv
<1> QED  BY <1>1, Invariance, PTL

\* enter_hblank and both completion paths keep the numbers in order: no request
\* counts as completed that was not made, and a wait is for the newest request.
THEOREM CompletionNeverAhead == Spec => []SeqOrder
<1>1. IInv => SeqOrder
  BY DEF IInv, OrderInv
<1> QED  BY <1>1, Invariance, PTL

\* Only the last step of finish_fast_hblank and of its shared twin store a number,
\* and neither stores an older one.
LEMMA StepMonotone ==
  ASSUME IInv, [Next]_vars
  PROVE  completed' >= completed
<1>1. completed \in Seqs /\ completed >= completed
  BY DEF IInv, OrderInv, TypeOK, Seqs
<1>2. CASE FinishOffsets
  BY <1>2 DEF FinishOffsets, IInv, OrderInv, TypeOK, SeqOrder, InRequest, HostAt, Seqs
<1>3. CASE ExitComplete
  BY <1>3 DEF ExitComplete, IInv, OrderInv, FreshInv, TypeOK, ExitNewest, GuestAt, Seqs
<1>4. ASSUME NEW write, MmioExit(write) PROVE completed' = completed
  BY <1>4 DEF MmioExit
<1>5. CASE (HostStep /\ ~FinishOffsets) \/ DeadlinePasses \/ UNCHANGED vars
  <2>1. completed' = completed
    BY <1>5 DEF HostStep, SetVcount, RequestRead, RequestWrite, VblankLine, CheckPending,
      EnterHblank, SkipHblank, PrepareShadow, PrepareRequestHi, PrepareCompletedLo,
      PrepareCompletedHi, HblankPulse, SeeCompleted, ReadCompletedLo, ReadCompletedHi,
      CheckDeadline, FinishRead, FinishAck, FinishLine, NextLine, DeadlinePasses, vars
  <2> QED  BY <1>1, <2>1
<1>6. CASE (GuestStep /\ ~ExitComplete) \/ TakeIrq \/ ProgramWrite
  <2>1. completed' = completed
    BY <1>4, <1>6 DEF GuestStep, TakeIrq, ProgramWrite, Dispatch, HandlerRead,
      HandlerWrite, CopyFields, ReadRequestLo, ReadRequestHi, WriteCompletedLo,
      WriteCompletedHi, SlowAck, SlowReturn, MmioStore, MmioIf, MmioLine, ExitRead,
      ExitAck, ExitOffsets
  <2> QED  BY <1>1, <2>1
<1> QED  BY <1>2, <1>3, <1>5, <1>6 DEF Next

\* The latch that finish_fast_hblank read earlier is never older than a completion
\* that the vcount thread has stored meanwhile.
THEOREM CompletionsNeverGoBack == Spec => CompletedMonotone
<1>1. IInv /\ [Next]_vars => [completed' >= completed]_completed
  BY StepMonotone
<1> QED  BY <1>1, Invariance, PTL DEF Spec, CompletedMonotone

\* Only finish_fast_hblank_from_shared takes an answer, that of the request it waited
\* for.
LEMMA StepFresh ==
  ASSUME IInv, [Next]_vars
  PROVE  \/ applied' = applied
         \/ applied'.tag + 1 >= applied'.seq \/ applied'.tag = io.ofs
<1>1. CASE FinishOffsets
  BY <1>1 DEF FinishOffsets, IInv, OrderInv, FreshInv, TypeOK, SeqOrder, InRequest, HostAt,
    CopiedFresh, Answered, Asking
<1>2. ASSUME NEW write, MmioExit(write) PROVE applied' = applied
  BY <1>2 DEF MmioExit
<1>3. CASE (HostStep /\ ~FinishOffsets) \/ DeadlinePasses \/ UNCHANGED vars
  BY <1>3 DEF HostStep, SetVcount, RequestRead, RequestWrite, VblankLine, CheckPending,
    EnterHblank, SkipHblank, PrepareShadow, PrepareRequestHi, PrepareCompletedLo,
    PrepareCompletedHi, HblankPulse, SeeCompleted, ReadCompletedLo, ReadCompletedHi,
    CheckDeadline, FinishRead, FinishAck, FinishLine, NextLine, DeadlinePasses, vars
<1>4. CASE GuestStep \/ TakeIrq \/ ProgramWrite
  BY <1>2, <1>4 DEF GuestStep, TakeIrq, ProgramWrite, Dispatch, HandlerRead,
    HandlerWrite, CopyFields, ReadRequestLo, ReadRequestHi, WriteCompletedLo,
    WriteCompletedHi, SlowAck, SlowReturn, MmioStore, MmioIf, MmioLine, ExitRead,
    ExitAck, ExitOffsets, ExitComplete
<1> QED  BY <1>1, <1>3, <1>4 DEF Next

\* Whichever handler answers, through whatever races for IF and however torn the
\* numbers are: an answer is credited to its own request or to the next
\* (prepare_fast_hblank, wait_for_hblank_complete, finish_fast_hblank_from_shared).
THEOREM AnswersAreFresh == Spec => StaleByAtMostOne
<1>1. IInv /\ [Next]_vars =>
        [applied'.tag + 1 >= applied'.seq \/ applied'.tag = io.ofs]_applied
  BY StepFresh
<1> QED  BY <1>1, Invariance, PTL DEF Spec, StaleByAtMostOne
=============================================================================
