---------------------------- MODULE MCSoftRunner ----------------------------
(* Halfwords of 8 bits, small regions, two DMA channels and two low registers: *)
(* programs that compare, call, save registers, read VCOUNT and start DMA.     *)
EXTENDS SoftRunner

Region(start, size) == [start |-> start, size |-> size]
MCRegions ==
  [ewram |-> Region(256, 32), iwram |-> Region(512, 24), io |-> Region(1024, 528),
   palette |-> Region(1664, 8), vram |-> Region(1728, 16), oam |-> Region(1792, 8),
   rom |-> Region(2048, 16)]
MCRom == [a \in {2048 + 2 * k : k \in 0..7} |-> 17 * ((a - 2046) \div 2)]
MCStackTop == 512 + 16

I(op, rd, rn, rs, imm) ==
  [op |-> op, rd |-> rd, rn |-> rn, rs |-> rs, imm |-> imm, list |-> {}, cond |-> "none"]
Imm(op, rd, rn, imm) == I(op, rd, rn, NoReg, imm)
List(op, rn, list) == [I(op, NoReg, rn, NoReg, 0) EXCEPT !.list = list]
Branch(cond, offset) == [Imm("bcond", NoReg, NoReg, offset) EXCEPT !.cond = cond]

\* r0 holds the registers of a channel and r1 what its control is to be.
Transfer(channel, source, dest, count, control) ==
  <<Imm("lit", 0, NoReg, Base(channel)),
    Imm("lit", 1, NoReg, source), Imm("str", 1, 0, 0),
    Imm("lit", 1, NoReg, dest), Imm("str", 1, 0, 4),
    Imm("lit", 1, NoReg, count + HalfRange * control)>>
\* How a ROM without an entry address begins.
Startup ==
  <<Imm("arm_b", NoReg, NoReg, 192), Imm("arm_mov", NoReg, NoReg, 18),
    Imm("arm_msr", NoReg, NoReg, 0), Imm("arm_ldr_sp", NoReg, NoReg, 528)>>
\* Up to the last read of VCOUNT before VBLANK.
Waiting ==
  <<Imm("lit", 1, NoReg, 256), List("push", NoReg, {1, Lr}), List("pop", NoReg, {1}),
    Imm("lit", 0, NoReg, 1024), Imm("ldrh", 1, 0, 6), Imm("ldrh", 1, 0, 6)>>
\* In a function, with something on the stack.
Called ==
  <<Imm("mov", 0, NoReg, 3), Imm("nop", NoReg, NoReg, 0), Imm("bl_high", NoReg, NoReg, 0),
    Imm("bl_low", NoReg, NoReg, 8), List("push", NoReg, {0, 1, Lr}),
    Imm("lit", 1, NoReg, 256)>>

\* Two transfers have been started already, a repeating one and one that is timed.
Start == Imm("str", 1, 0, 8)

MCPrologues ==
  {Startup, Waiting, Called,
   Transfer(0, 2048, 1728, 0, 128), Transfer(3, 2048, 1728, 0, 128 + 32),
   Transfer(3, 2048, 260, 3, 128 + 1), Transfer(3, 1536, 256, 2, 128 + 32 + 2),
   Append(Transfer(0, 2054, 1664, 2, 128 + 16 + 8 + 4), Start),
   Append(Transfer(0, 2048, 256, 1, 128 + 64), Start)}

MCInstructions ==
  {Imm("mov", 0, NoReg, 5), Imm("lit", 1, NoReg, 264), I("lsl", 0, NoReg, 1, 3),
   I("lsr", 0, NoReg, 1, 16), I("lsr", 0, NoReg, 1, 2), I("add", 0, 0, 1, 0),
   Imm("sub", 1, 1, 4), Imm("sub", Sp, Sp, 4), I("orr", 0, NoReg, 1, 0),
   I("bic", 1, NoReg, 0, 0), Imm("cmp", NoReg, 0, 5), I("cmp", NoReg, 0, 1, 0),
   I("tst", NoReg, 0, 1, 0), Branch("eq", 6), Branch("ne", 6), Branch("hi", -6),
   Branch("ls", 10), Branch("mi", 6), Imm("b", NoReg, NoReg, -4),
   Imm("bl_high", NoReg, NoReg, 0), Imm("bl_low", NoReg, NoReg, 8),
   I("bx", NoReg, NoReg, Lr, 0), I("mov_hi", 0, NoReg, Lr, 0), I("add_hi", 1, NoReg, Sp, 0),
   Imm("adr", 1, NoReg, 4), I("cmp_hi", NoReg, 0, 1, 0),
   Imm("other", NoReg, NoReg, 0),
   List("push", NoReg, {0, 1, Lr}), List("pop", NoReg, {0, 1}), List("pop", NoReg, {0, 1, Pc}),
   List("stmia", 1, {0}), List("ldmia", 1, {0}), List("ldmia", 1, {0, 1}),
   Start, Imm("str", 0, Sp, 0), Imm("strh", 1, 0, 10), Imm("ldr", 0, Sp, 4),
   Imm("ldrh", 1, 0, 6),
   Imm("arm_b", NoReg, NoReg, 8), Imm("arm_mov", NoReg, NoReg, 1024),
   Imm("arm_ldr_sp", NoReg, NoReg, 528), Imm("arm_adr", NoReg, NoReg, 0),
   Imm("arm_bx", NoReg, NoReg, 0), Imm("arm_str_ime", NoReg, NoReg, 0),
   Imm("arm_msr", NoReg, NoReg, 0)}
=============================================================================
