---------------------------- MODULE ImmediateDma ----------------------------
(***************************************************************************)
(* Immediate DMA, which the KVM back end (shared_memory.rs) and the        *)
(* software runner (software.rs) have in common line by line: a store that *)
(* leaves a channel's control enabled and without a timing moves a block   *)
(* before the program goes on.  A memory maps the even addresses of the    *)
(* regions to halfwords; a word is two of them.  The fields of a control   *)
(* are packed into a narrow halfword in the order of the code's bits.      *)
(* What a transfer writes to a sound FIFO is AudioPath's.                  *)
(***************************************************************************)
EXTENDS Integers

CONSTANTS
  HalfBits,      \* bits of a halfword (16)
  Channels,      \* the channels in use (0..3)
  Regions,       \* start and size of each region of memory_map.rs
  Largest,       \* what a count of zero stands for (0x4000) ...
  LargestLast    \* ... in channel 3 (0x10000)

RegionNames == {"ewram", "iwram", "io", "palette", "vram", "oam", "rom"}
HalfRange == 2 ^ HalfBits
WordRange == 2 ^ (2 * HalfBits)

\* The regions consist of words, do not overlap and lie below the end of the address
\* space; the I/O page has the channels' registers.
ASSUME DmaAssumption ==
  /\ HalfBits \in Nat /\ HalfBits >= 8
  /\ Channels \subseteq 0..3
  /\ Largest \in Nat \ {0} /\ LargestLast \in Nat \ {0}
  /\ DOMAIN Regions = RegionNames
  /\ \A n \in RegionNames :
       /\ Regions[n].start \in Nat /\ Regions[n].start % 4 = 0
       /\ Regions[n].size \in Nat \ {0} /\ Regions[n].size % 4 = 0
       /\ Regions[n].start + Regions[n].size <= WordRange
       /\ \A o \in RegionNames \ {n} :
            \/ Regions[n].start + Regions[n].size <= Regions[o].start
            \/ Regions[o].start + Regions[o].size <= Regions[n].start
  /\ Regions["io"].size >= 176 + 4 * 12

In(region, a) ==
  a >= Regions[region].start /\ a < Regions[region].start + Regions[region].size
DMA0SAD == Regions["io"].start + 176
Base(channel) == DMA0SAD + 12 * channel
ControlAddr(channel) == Base(channel) + 10

Plus(a, n) == (a + n) % WordRange

\* What is not aligned, which no run meets, reads as 0.
Get(mem, a) == IF a \in DOMAIN mem THEN mem[a] ELSE 0
WordAt(mem, a) == Get(mem, a) + HalfRange * Get(mem, a + 2)

Bit(v, b) == (v \div (2 ^ b)) % 2 = 1
EnableBit == 2 ^ 7
ControlOf(half) ==
  [enable |-> Bit(half, 7), timed |-> Bit(half, 6), is32 |-> Bit(half, 5),
   repeat |-> Bit(half, 4), src |-> (half \div 4) % 4, dst |-> half % 4]

\* dma_memory_region.
Reachable(a) == \E n \in RegionNames \ {"io", "rom"} : In(n, a)

DmaRead(mem, a) == IF In("rom", a) \/ Reachable(a) THEN Get(mem, a) ELSE 0
DmaWrite(mem, a, half) == IF Reachable(a) THEN [mem EXCEPT ![a] = half] ELSE mem

\* Mutant: a count of zero is the same in every channel.
UnitsAlike(channel, count) == IF count = 0 THEN Largest ELSE count

Units(channel, count) ==
  IF count # 0 THEN count ELSE IF channel = 3 THEN LargestLast ELSE Largest

\* dma_addr_step.
AddrStep(mode, unit) == CASE mode = 1 -> -unit [] mode = 2 -> 0 [] OTHER -> unit

\* One unit: both halves of a word are read before one is written.
MoveUnit(t, control) ==
  LET unit == IF control.is32 THEN 4 ELSE 2
      low == DmaWrite(t.mem, t.dest, DmaRead(t.mem, t.source))
      high == DmaWrite(low, Plus(t.dest, 2), DmaRead(t.mem, Plus(t.source, 2)))
  IN  [mem |-> IF control.is32 THEN high ELSE low,
       source |-> Plus(t.source, AddrStep(control.src, unit)),
       dest |-> Plus(t.dest, AddrStep(control.dst, unit))]

RunDma(mem, channel, source, dest, count, control) ==
  LET after[u \in 0..Units(channel, count)] ==
        IF u = 0 THEN [mem |-> mem, source |-> source, dest |-> dest]
        ELSE MoveUnit(after[u - 1], control)
  IN  after[Units(channel, count)].mem

\* The transfers that a store to address a starts: none, or one.
Started(mem, a) ==
  {channel \in Channels :
     /\ a = ControlAddr(channel)
     /\ ControlOf(mem[a]).enable /\ ~ControlOf(mem[a]).timed}

RunImmediateDma(mem, channel) ==
  LET base == Base(channel)
      half == mem[ControlAddr(channel)]
      moved == RunDma(mem, channel, WordAt(mem, base), WordAt(mem, base + 4),
                      mem[base + 8], ControlOf(half))
  IN  [moved EXCEPT ![ControlAddr(channel)] =
         IF ControlOf(half).repeat THEN @ ELSE half - EnableBit]

\* run_immediate_dma_if_enabled.
RunImmediateDmaIfEnabled(mem, a) ==
  IF Started(mem, a) = {} THEN mem
  ELSE RunImmediateDma(mem, CHOOSE channel \in Channels : channel \in Started(mem, a))

-----------------------------------------------------------------------------
(* What a transfer is to do, said of the block and not of its units.       *)

\* Where unit u of a transfer starts, and which halfwords it has.
UnitAt(start, mode, control, u) ==
  Plus(start, u * AddrStep(mode, IF control.is32 THEN 4 ELSE 2))
Halves(control) == IF control.is32 THEN {0, 2} ELSE {0}

\* after is before with the block moved: each halfword of memory that units went
\* to has what the last of them came with, the others are as they were; the
\* channel is disabled unless it repeats.  Source and destination must not overlap.
BlockMoved(before, after, channel) ==
  LET base == Base(channel)
      half == before[ControlAddr(channel)]
      control == ControlOf(half)
      count == before[base + 8]
      units == CASE count > 0 -> 0..(count - 1)
                 [] count = 0 /\ channel = 3 -> 0..(LargestLast - 1)
                 [] OTHER -> 0..(Largest - 1)
      From(u, h) == Plus(UnitAt(WordAt(before, base), control.src, control, u), h)
      To(u, h) == Plus(UnitAt(WordAt(before, base + 4), control.dst, control, u), h)
      pairs == units \X Halves(control)
      sources == {From(p[1], p[2]) : p \in pairs}
      targets == {To(p[1], p[2]) : p \in pairs}
  IN  sources \cap targets = {} =>
        \A a \in DOMAIN before :
          IF a = ControlAddr(channel)
          THEN after[a] = IF control.repeat THEN half ELSE half - EnableBit
          ELSE IF ~Reachable(a) \/ a \notin targets THEN after[a] = before[a]
          ELSE \E p \in pairs :
                 /\ To(p[1], p[2]) = a
                 /\ \A q \in pairs : To(q[1], q[2]) = a => q[1] <= p[1]
                 /\ after[a] = DmaRead(before, From(p[1], p[2]))
=============================================================================
