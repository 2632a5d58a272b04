------------------------------ MODULE SoftRunner ------------------------------
(***************************************************************************)
(* The software runner (gba/software.rs), beside a reference machine that  *)
(* executes the same instructions.  The runner has no flag register: CMP   *)
(* puts Z and C into the link register, where the conditional branches     *)
(* look for them.  The reference has flags of its own, and says of PUSH,   *)
(* POP, LDMIA and STMIA which word goes where instead of looping.          *)
(*                                                                         *)
(* Instructions are decoded, with their offsets scaled; an operand that is *)
(* not a register is imm, and so is a literal of the ROM.  The ROM may     *)
(* hold any of Instructions at any address.  Words are aligned.  In both   *)
(* machines branches count from the next instruction and POP may leave     *)
(* Thumb state, as in the runner; an ARM7TDMI does neither.                *)
(***************************************************************************)
EXTENDS ImmediateDma, Sequences, FiniteSets

CONSTANTS
  LowRegs,           \* the registers in use of r0 to r7, r0 among them
  Instructions,      \* what may be met next
  Prologues,         \* what was executed before
  ThumbEntry,        \* entry_thumb_addr of a ROM that has one
  Rom,               \* its contents, a halfword for each even address
  StackTop,          \* IWRAM_START + 0x7f00
  VblankLine,        \* 160, what VCOUNT is at last
  MaxUnits,          \* bound of a transfer's count, when it is not zero
  MinInstructions,   \* a frame takes more than these (100)
  MaxInstructions    \* DEFAULT_MAX_INSTRUCTIONS (200000)

Sp == 13
Lr == 14
Pc == 15
Regs == LowRegs \cup {Sp, Lr, Pc}
NoReg == 16
ArmOps == {"arm_b", "arm_mov", "arm_ldr_sp", "arm_adr", "arm_bx", "arm_str_ime", "arm_msr"}
VCOUNT == Regions["io"].start + 6
IME == Regions["io"].start + 520
ZBit == 2 * HalfBits - 2
CBit == 2 * HalfBits - 3

Words == 0..(WordRange - 1)
Halfwords == 0..(HalfRange - 1)

\* The memories are halfwords at even addresses; of the I/O page only what an
\* instruction or a transfer reads.
CellsOf(n) ==
  {a \in Regions[n].start..(Regions[n].start + Regions[n].size - 1) : a % 2 = 0}
DmaCells == UNION {{Base(channel) + 2 * k : k \in 0..5} : channel \in Channels}
Cells == DmaCells \cup UNION {CellsOf(n) : n \in RegionNames \ {"io"}}

\* What decoding can make of an instruction: fields of three bits name low registers,
\* one or two formats SP, the instructions on high registers any; lists are those of
\* their formats, and constants have the width of their fields.
HighOps == {"add_hi", "mov_hi", "bx", "cmp_hi"}
ThumbOps ==
  {"mov", "lit", "lsl", "lsr", "add", "sub", "orr", "bic", "cmp", "tst", "str", "strh", "ldr",
   "ldrh", "adr", "b", "bcond", "bl_high", "bl_low", "push", "pop", "stmia", "ldmia", "swi",
   "nop"} \cup HighOps
Decoded(i) ==
  /\ i.op \in ThumbOps \cup ArmOps \cup {"other"} /\ i.imm \in Int
  /\ i.op \in {"mov", "lit", "arm_mov", "arm_ldr_sp"} => i.imm \in Words
  /\ i.op \in {"lsl", "lsr"} => i.imm \in 0..(2 * HalfBits)
  /\ IF i.op \in HighOps THEN {i.rd, i.rs} \subseteq Regs \cup {NoReg}
     ELSE i.rd \in LowRegs \cup {Sp, NoReg} /\ i.rs \in LowRegs \cup {NoReg}
  /\ i.op \in {"lsl", "lsr", "orr", "bic", "tst", "add_hi", "mov_hi", "bx"} => i.rs # NoReg
  /\ i.op \in {"orr", "bic", "add_hi", "str", "strh"} => i.rd # NoReg
  /\ i.op \in {"add", "sub", "cmp", "tst", "str", "strh", "ldr", "ldrh"} =>
       i.rn \in LowRegs \cup {Sp}
  /\ i.op \in {"stmia", "ldmia"} => i.rn \in LowRegs
  /\ i.op = "push" => Lr \in i.list
  /\ i.list \subseteq CASE i.op = "push" -> LowRegs \cup {Lr}
                        [] i.op = "pop" -> LowRegs \cup {Pc}
                        [] OTHER -> LowRegs

ASSUME RunnerAssumption ==
  /\ 0 \in LowRegs /\ LowRegs \subseteq 0..7
  /\ {StackTop, VblankLine, ThumbEntry} \subseteq Words /\ ThumbEntry % 2 = 0
  /\ \A a \in CellsOf("rom") : Rom[a] \in Halfwords
  /\ MaxUnits \in Nat /\ MinInstructions \in Nat /\ MaxInstructions \in Nat
  /\ \A i \in Instructions : Decoded(i)
  /\ \A p \in Prologues :
       /\ Len(p) \in 1..MaxInstructions
       /\ \A k \in 1..Len(p) : Decoded(p[k]) /\ p[k].op # "other"

VARIABLES
  runner,     \* registers, state, memory, VCOUNT reads; history: transfers of a step
  reference,  \* the same ...
  flags,      \* ... and its flags
  run,        \* instructions executed, and how run_until_frame ended
  seen        \* history: whether the runner's LR and its flags are those of Thumb

vars == <<runner, reference, flags, run, seen>>

-----------------------------------------------------------------------------
(* The memories.                                                           *)

Memory == [a \in Cells |-> IF In("rom", a) THEN Rom[a] ELSE 0]

Put(mem, a, half) == IF a \in DOMAIN mem THEN [mem EXCEPT ![a] = half] ELSE mem
PutWord(mem, a, word) ==
  Put(Put(mem, a, word % HalfRange), Plus(a, 2), word \div HalfRange)

\* run_immediate_dma_if_enabled after a store to the I/O page; after is what it makes
\* of the memory.
Transferred(m, a, after) ==
  [m EXCEPT !.mem = after,
            !.moved = @ \cup {[before |-> m.mem, after |-> after, channel |-> channel] :
                               channel \in Started(m.mem, a)}]
AfterIoStore(m, a) == Transferred(m, a, RunImmediateDmaIfEnabled(m.mem, a))

\* write_data_u32: palette, VRAM and OAM take no words.
StoreWord(m, a, word) ==
  IF In("io", a)
  THEN AfterIoStore(AfterIoStore([m EXCEPT !.mem = PutWord(@, a, word)], a), Plus(a, 2))
  ELSE IF In("ewram", a) \/ In("iwram", a) THEN [m EXCEPT !.mem = PutWord(@, a, word)]
  ELSE m

\* write_u16: EWRAM and IWRAM take no halfwords.
StoreHalf(m, a, half) ==
  IF In("io", a) THEN AfterIoStore([m EXCEPT !.mem = Put(@, a, half)], a)
  ELSE IF In("palette", a) \/ In("vram", a) THEN [m EXCEPT !.mem = Put(@, a, half)]
  ELSE m

\* read_data_u32.
LoadWord(m, a) ==
  IF In("rom", a) \/ In("ewram", a) \/ In("iwram", a) THEN WordAt(m.mem, a) ELSE 0

\* read_u16: of the I/O page only VCOUNT has a value, VBLANK's with the third read.
LoadIo(m, rd, a) ==
  IF a # VCOUNT THEN [m EXCEPT !.regs[rd] = 0]
  ELSE [m EXCEPT !.reads = @ + 1, !.regs[rd] = IF m.reads + 1 < 3 THEN 0 ELSE VblankLine]

\* read_data_u16.
LoadHalf(m, rd, a) ==
  IF In("io", a) THEN LoadIo(m, rd, a)
  ELSE [m EXCEPT !.regs[rd] =
          IF In("rom", a) \/ In("ewram", a) \/ In("iwram", a) THEN Get(m.mem, a) ELSE 0]

-----------------------------------------------------------------------------
(* Instructions that both machines execute alike.                          *)

Operand(m, i) == IF i.rs = NoReg THEN i.imm ELSE m.regs[i.rs]
Address(m, i) == Plus(m.regs[i.rn], Operand(m, i))
Bits(word) == {b \in 0..(2 * HalfBits - 1) : Bit(word, b)}
OfBits(bits) ==
  LET below[n \in 0..(2 * HalfBits)] ==
        IF n = 0 THEN 0
        ELSE IF n - 1 \in bits THEN below[n - 1] + 2 ^ (n - 1) ELSE below[n - 1]
  IN  below[2 * HalfBits]
SetReg(m, r, word) == [m EXCEPT !.regs[r] = word]

\* branch_exchange.
BranchExchange(m, word) ==
  [m EXCEPT !.thumb = word % 2 = 1, !.regs[Pc] = word - (word % 2)]

\* step_alu without the comparisons.
StepAlu(m, i) ==
  LET rd == Bits(m.regs[i.rd])
      rs == Bits(m.regs[i.rs])
  IN  SetReg(m, i.rd, OfBits(IF i.op = "orr" THEN rd \cup rs ELSE rd \ rs))

\* step_high_register: a comparison does nothing.
StepHighRegister(m, i) ==
  CASE i.op = "add_hi" -> SetReg(m, i.rd, Plus(m.regs[i.rd], m.regs[i.rs]))
    [] i.op = "mov_hi" -> SetReg(m, i.rd, m.regs[i.rs])
    [] i.op = "bx" -> BranchExchange(m, m.regs[i.rs])
    [] i.op = "cmp_hi" -> m

\* step_thumb: pc is the instruction's address, m.regs[Pc] already the next one.
Plain(m, i, pc) ==
  CASE i.op = "mov" -> SetReg(m, i.rd, i.imm)
    [] i.op = "lit" -> SetReg(m, i.rd, i.imm)
    [] i.op = "lsl" -> SetReg(m, i.rd, (m.regs[i.rs] * 2 ^ i.imm) % WordRange)
    [] i.op = "lsr" -> SetReg(m, i.rd, m.regs[i.rs] \div (2 ^ (i.imm % (2 * HalfBits))))
    [] i.op = "add" -> SetReg(m, i.rd, Address(m, i))
    [] i.op = "sub" -> SetReg(m, i.rd, Plus(m.regs[i.rn], -Operand(m, i)))
    [] i.op \in {"orr", "bic"} -> StepAlu(m, i)
    [] i.op \in {"add_hi", "mov_hi", "bx", "cmp_hi"} -> StepHighRegister(m, i)
    [] i.op = "str" -> StoreWord(m, Address(m, i), m.regs[i.rd])
    [] i.op = "strh" -> StoreHalf(m, Address(m, i), m.regs[i.rd] % HalfRange)
    [] i.op = "ldr" -> SetReg(m, i.rd, LoadWord(m, Address(m, i)))
    [] i.op = "ldrh" -> LoadHalf(m, i.rd, Address(m, i))
    [] i.op = "adr" -> SetReg(m, i.rd, Plus(((pc + 4) \div 4) * 4, i.imm))
    [] i.op = "b" -> SetReg(m, Pc, Plus(m.regs[Pc], i.imm))
    [] i.op = "bl_high" -> SetReg(m, Lr, Plus(pc, 4 + i.imm))
    [] i.op = "bl_low" -> [m EXCEPT !.regs[Lr] = m.regs[Pc] + 1 - (m.regs[Pc] % 2),
                                    !.regs[Pc] = Plus(m.regs[Lr], i.imm)]
    [] i.op \in {"swi", "nop"} -> m

\* step_arm.
Arm(m, i, pc) ==
  CASE i.op = "arm_b" -> SetReg(m, Pc, Plus(pc, 8 + i.imm))
    [] i.op = "arm_mov" -> SetReg(m, 0, i.imm)
    [] i.op = "arm_ldr_sp" -> SetReg(m, Sp, i.imm)
    [] i.op = "arm_adr" -> SetReg(m, 0, Plus(pc, 8 + 1))
    [] i.op = "arm_bx" -> BranchExchange(m, m.regs[0])
    [] i.op = "arm_str_ime" ->
         LET a == Plus(m.regs[0], IME - Regions["io"].start)
         IN  IF In("io", a) THEN StoreWord(m, a, m.regs[0]) ELSE m
    [] OTHER -> m                                          \* msr

-----------------------------------------------------------------------------
(* The runner's own.                                                       *)

Z(m) == Bit(m.regs[Lr], ZBit)
C(m) == Bit(m.regs[Lr], CBit)
SetCmp(m, lhs, rhs) ==
  SetReg(m, Lr, (IF lhs = rhs THEN 2 ^ ZBit ELSE 0) + (IF lhs >= rhs THEN 2 ^ CBit ELSE 0))

Holds(cond, z, c) ==
  CASE cond = "eq" -> z [] cond = "ne" -> ~z [] cond = "hi" -> c /\ ~z
    [] cond = "ls" -> ~c \/ z [] OTHER -> FALSE
ConditionalBranch(m, i, z, c) ==
  IF Holds(i.cond, z, c) THEN SetReg(m, Pc, Plus(m.regs[Pc], i.imm)) ELSE m

\* The loops of push, pop, stmia and ldmia over registers, from address a on: t is the
\* machine and the address so far.
StoreNext(t, r) == [m |-> StoreWord(t.m, t.a, t.m.regs[r]), a |-> Plus(t.a, 4)]
LoadNext(t, r) == [m |-> SetReg(t.m, r, LoadWord(t.m, t.a)), a |-> Plus(t.a, 4)]

StoreEach(m, regs, a) ==
  LET upTo[r \in 0..NoReg] ==
        IF r = 0 THEN [m |-> m, a |-> a]
        ELSE IF r - 1 \in regs THEN StoreNext(upTo[r - 1], r - 1) ELSE upTo[r - 1]
  IN  upTo[NoReg]
LoadEach(m, regs, a) ==
  LET upTo[r \in 0..NoReg] ==
        IF r = 0 THEN [m |-> m, a |-> a]
        ELSE IF r - 1 \in regs THEN LoadNext(upTo[r - 1], r - 1) ELSE upTo[r - 1]
  IN  upTo[NoReg]

\* Mutant: the link register goes below the others.
PushLrFirst(m, i) ==
  LET sp == Plus(m.regs[Sp], -4 * Cardinality(i.list))
      top == IF Lr \in i.list THEN StoreEach(m, {Lr}, sp) ELSE [m |-> m, a |-> sp]
  IN  SetReg(StoreEach(top.m, i.list \ {Lr}, top.a).m, Sp, sp)

Push(m, i) ==
  LET sp == Plus(m.regs[Sp], -4 * Cardinality(i.list))
      low == StoreEach(m, i.list \ {Lr}, sp)
  IN  SetReg(StoreEach(low.m, i.list \cap {Lr}, low.a).m, Sp, sp)

Pop(m, i) ==
  LET low == LoadEach(m, i.list \ {Pc}, m.regs[Sp])
      all == IF Pc \in i.list
             THEN [m |-> BranchExchange(low.m, LoadWord(low.m, low.a)), a |-> Plus(low.a, 4)]
             ELSE low
  IN  SetReg(all.m, Sp, all.a)

Stmia(m, i) ==
  LET all == StoreEach(m, i.list, m.regs[i.rn]) IN SetReg(all.m, i.rn, all.a)
Ldmia(m, i) ==
  LET all == LoadEach(m, i.list, m.regs[i.rn]) IN SetReg(all.m, i.rn, all.a)

Fetch(m) == [m EXCEPT !.regs[Pc] = Plus(@, IF m.thumb THEN 2 ELSE 4), !.moved = {}]

Step(m, i) ==
  LET pc == m.regs[Pc]
      next == Fetch(m)
  IN  CASE i.op \in ArmOps -> Arm(next, i, pc)
        [] i.op \in {"cmp", "tst"} -> SetCmp(next, m.regs[i.rn], Operand(m, i))
        [] i.op = "bcond" -> ConditionalBranch(next, i, Z(m), C(m))
        [] i.op = "push" -> Push(next, i)
        [] i.op = "pop" -> Pop(next, i)
        [] i.op = "stmia" -> Stmia(next, i)
        [] i.op = "ldmia" -> Ldmia(next, i)
        [] OTHER -> Plain(next, i, pc)

-----------------------------------------------------------------------------
(* The reference.                                                          *)

Rank(list, r) == Cardinality({q \in list : q < r})
Slot(list, a, r) == Plus(a, 4 * Rank(list, r))

\* The words of a block in memory, the lowest register at the lowest address.
StoreBlock(t, list, a) ==
  LET held == {r \in list : \E n \in {"ewram", "iwram"} : In(n, Slot(list, a, r))}
      Here(x) == {r \in held : x \in {Slot(list, a, r), Slot(list, a, r) + 2}}
      Half(x, r) == IF x = Slot(list, a, r) THEN t.regs[r] % HalfRange
                    ELSE t.regs[r] \div HalfRange
  IN  [t EXCEPT !.mem = [x \in DOMAIN t.mem |->
         IF Here(x) = {} THEN t.mem[x] ELSE Half(x, CHOOSE r \in Here(x) : TRUE)]]
LoadBlock(t, list, a) ==
  [t EXCEPT !.regs = [r \in Regs |->
     IF r \in list THEN LoadWord(t, Slot(list, a, r)) ELSE t.regs[r]]]

ThumbStep(t, i) ==
  LET pc == t.regs[Pc]
      next == Fetch(t)
      size == 4 * Cardinality(i.list)
      sp == t.regs[Sp]
      rn == t.regs[i.rn]
      loaded == LoadBlock(next, i.list, sp)
  IN  CASE i.op \in ArmOps -> Arm(next, i, pc)
        [] i.op \in {"cmp", "tst"} -> next
        [] i.op = "bcond" -> ConditionalBranch(next, i, flags.z, flags.c)
        [] i.op = "push" -> SetReg(StoreBlock(next, i.list, Plus(sp, -size)), Sp, Plus(sp, -size))
        [] i.op = "pop" -> SetReg(IF Pc \in i.list
                                  THEN BranchExchange(loaded, loaded.regs[Pc]) ELSE loaded,
                                  Sp, Plus(sp, size))
        [] i.op = "stmia" -> SetReg(StoreBlock(next, i.list, rn), i.rn, Plus(rn, size))
        [] i.op = "ldmia" -> SetReg(LoadBlock(next, i.list, rn), i.rn, Plus(rn, size))
        [] OTHER -> Plain(next, i, pc)

ThumbFlags(t, i) ==
  IF i.op = "cmp" THEN [z |-> t.regs[i.rn] = Operand(t, i), c |-> t.regs[i.rn] >= Operand(t, i)]
  ELSE flags

ReadsLr(i) ==
  \/ i.op \in {"push", "stmia"} /\ Lr \in i.list
  \/ i.op = "bl_low"
  \/ Lr = i.rs
  \/ i.op = "add_hi" /\ i.rd = Lr
WritesLr(i) ==
  \/ i.op \in {"bl_high", "bl_low"}
  \/ i.op \in {"add_hi", "mov_hi"} /\ i.rd = Lr
SetsFlags(i) ==
  \/ i.op \in {"mov", "lsl", "lsr", "orr", "bic", "tst", "cmp_hi"}
  \/ i.op \in {"add", "sub"} /\ {i.rd, i.rn} \subseteq LowRegs

\* Where the runner does something else than Thumb: it reads a link register that a
\* comparison has overwritten, or flags that are not those of the last instruction
\* that sets flags; it knows four conditions; a shift right by 32 overflows, which
\* ends a debug build and shifts by 0 in a release build; a base register in the list
\* keeps its old or its new value; PC reads as the next instruction.  A block stored
\* to the I/O page may start a transfer halfway.
Departs(i) ==
  \/ ReadsLr(i) /\ ~seen.lr
  \/ i.op = "bcond" /\ ~(seen.flags /\ i.cond \in {"eq", "ne", "hi", "ls"})
  \/ i.op = "lsr" /\ i.imm = 2 * HalfBits
  \/ i.op \in {"ldmia", "stmia"} /\ i.rn \in i.list
  \/ /\ i.op \in {"push", "stmia"}
     /\ LET size == 4 * Cardinality(i.list)
            a == IF i.op = "push" THEN Plus(reference.regs[Sp], -size) ELSE reference.regs[i.rn]
        IN  \E r \in i.list : In("io", Slot(i.list, a, r))
  \/ i.op \in {"add_hi", "mov_hi", "bx"} /\ Pc \in {i.rd, i.rs}

-----------------------------------------------------------------------------
(* run_until_frame.                                                        *)

New(thumb) ==
  [regs |-> [r \in Regs |->
     CASE r = Sp -> StackTop
       [] r = Pc -> IF thumb THEN ThumbEntry ELSE Regions["rom"].start
       [] OTHER -> 0],
   thumb |-> thumb, mem |-> Memory, reads |-> 0, moved |-> {}]
FlagsOf(m) == [z |-> Z(m), c |-> C(m)]

\* The machine before each of a program's instructions, and at last.  The first
\* instruction tells how the ROM begins (entry_thumb_addr).
Machines(program) ==
  LET m[k \in 0..Len(program)] ==
        IF k = 0 THEN New(program[1].op \notin ArmOps) ELSE Step(m[k - 1], program[k])
  IN  m

\* No program of the tests misaligns an access, nor what it tells a transfer to move.
Aligned(m, i) ==
  CASE i.op \in {"str", "ldr"} -> Address(m, i) % 4 = 0
    [] i.op \in {"strh", "ldrh"} -> Address(m, i) % 2 = 0
    [] i.op \in {"stmia", "ldmia"} -> m.regs[i.rn] % 4 = 0
    [] i.op \in {"push", "pop"} -> m.regs[Sp] % 4 = 0
    [] OTHER -> TRUE
MovesHalfwords(m) ==
  \A x \in m.moved :
    LET base == Base(x.channel)
    IN  WordAt(x.before, base) % 2 = 0 /\ WordAt(x.before, base + 4) % 2 = 0

ASSUME ProloguesAligned ==
  \A p \in Prologues : \A k \in 1..Len(p) :
    Aligned(Machines(p)[k - 1], p[k]) /\ MovesHalfwords(Machines(p)[k])

Init ==
  /\ \E prologue \in Prologues :
       /\ runner = Machines(prologue)[Len(prologue)]
       /\ run = [instructions |-> Len(prologue), result |-> "none"]
  /\ reference = runner /\ flags = FlagsOf(runner)
  /\ seen = [lr |-> TRUE, flags |-> FALSE]

\* Bound: a count is at most MaxUnits.
Bounded(i) ==
  i.op \in {"str", "strh"} /\ Address(runner, i) \in {Base(c) + 8 : c \in Channels} =>
    runner.regs[i.rd] % HalfRange <= MaxUnits

Execute ==
  /\ run.result = "none"
  /\ \E i \in Instructions :
       /\ Aligned(runner, i) /\ Bounded(i)
       /\ (i.op \in ArmOps) = ~runner.thumb /\ i.op # "other"
       /\ runner' = Step(runner, i) /\ MovesHalfwords(runner')
       /\ reference' = IF Departs(i) THEN runner' ELSE ThumbStep(reference, i)
       /\ flags' = IF Departs(i) THEN FlagsOf(runner') ELSE ThumbFlags(reference, i)
       /\ seen' = IF Departs(i) THEN [lr |-> TRUE, flags |-> FALSE]
                  ELSE IF i.op = "cmp" THEN [lr |-> FALSE, flags |-> TRUE]
                  ELSE IF i.op = "tst" THEN [lr |-> FALSE, flags |-> FALSE]
                  ELSE [lr |-> seen.lr \/ WritesLr(i),
                        flags |-> seen.flags /\ ~WritesLr(i) /\ ~SetsFlags(i)]
  /\ run' = [instructions |-> run.instructions + 1,
             result |-> IF run.instructions + 1 > MinInstructions /\ runner'.reads >= 3
                        THEN "frame"
                        ELSE IF run.instructions + 1 = MaxInstructions THEN "limit"
                        ELSE "none"]

\* An instruction the runner does not know ends it, in either state.
Unsupported ==
  /\ run.result = "none"
  /\ \E i \in Instructions : i.op = "other"
  /\ runner' = Fetch(runner)
  /\ reference' = Fetch(reference)
  /\ run' = [instructions |-> run.instructions + 1, result |-> "error"]
  /\ UNCHANGED <<flags, seen>>

Next == Execute \/ Unsupported

Spec == Init /\ [][Next]_vars

-----------------------------------------------------------------------------
(* Properties.                                                             *)

\* The runner does what a machine with flags of its own does: memory, the registers
\* and the state agree at all times, the link register except after a comparison,
\* and the flags from a comparison up to the next call or flag-setting instruction;
\* as long as no instruction is met whose result Departs names (step_thumb, set_cmp,
\* push, pop, stmia, ldmia).
SameAsThumb ==
  /\ runner.thumb = reference.thumb
  /\ runner.mem = reference.mem /\ runner.reads = reference.reads
  /\ \A r \in Regs \ {Lr} : runner.regs[r] = reference.regs[r]
  /\ seen.lr => runner.regs[Lr] = reference.regs[Lr]
  /\ seen.flags => Z(runner) = flags.z /\ C(runner) = flags.c

\* A store that starts a transfer moves the whole block, as BlockMoved describes it
\* for every count, step and unit, and leaves the rest of the memory alone (run_dma,
\* run_immediate_dma_if_enabled).
DmaMovesBlock == \A x \in runner.moved : BlockMoved(x.before, x.after, x.channel)
=============================================================================
