------------------------------ MODULE BgRaster ------------------------------
(***************************************************************************)
(* The background offsets of the lines of a frame.  The vcount clock       *)
(* copies the offset registers into a raster line by line; once an HBLANK  *)
(* handler has written an offset, that offset's lines are only written by  *)
(* the completions of HBLANK requests, each for the line after the one it  *)
(* was requested in.  Lines are drawn from the raster; a whole frame is    *)
(* drawn from the copy of the raster that is made when VBLANK begins.      *)
(*                                                                         *)
(* The handshake with the guest is HblankSync: here a request is answered  *)
(* in time, or not, or by a handler that started late for an earlier one.  *)
(* Every step is a section under the raster's lock or an access to the     *)
(* registers.  A run keeps the display registers other than the offsets.   *)
(* The program enables HBLANK in DISPSTAT, IE and IME together.            *)
(***************************************************************************)
EXTENDS Ppu

CONSTANTS
  TotalLines,    \* lines of a frame (228); Height of them are drawn
  Memory,        \* VRAM, palettes and OAM
  Displays,      \* settings of the display registers other than the offsets
  LineDisplays,  \* those among them that a whole run keeps
  Offsets,       \* values of an offset register
  HandlerWrites  \* the offset registers the guest's handler writes

Axes == {"hofs", "vofs"}
Registers == Axes \X Bgs
Lines == 0..(Height - 1)
Counts == 0..(TotalLines - 1)
OffsetValues == [Registers -> Offsets]

ASSUME RasterAssumption ==
  /\ TotalLines \in Nat /\ Height + 1 < TotalLines
  /\ 0 \in Offsets /\ Offsets \subseteq 0..(OffsetRange - 1)
  /\ HandlerWrites \subseteq Registers /\ LineDisplays \subseteq Displays

Colors == [Channels -> Levels]
Cells == (0..(BlockTiles - 1)) \X (0..(BlockTiles - 1))
TilePixels == (0..(TileSize - 1)) \X (0..(TileSize - 1))
Cover(w, h) == 0..(w * h - 1)

\* The widths of what the memories hold: a bank and a pixel of a tile have four bits,
\* or the pixel has the eight of a palette's index.
ASSUME MemoryAssumption ==
  /\ {Memory.palette, Memory.objPalette} \subseteq [0..255 -> Colors]
  /\ \A d \in Displays : \A bg \in Bgs : \A n \in 0..3 : \A cell \in Cells :
       Memory.vram.map[d.bgcnt[bg].screen + n][cell].bank \in 0..15
  /\ \A tile \in DOMAIN Memory.vram.tiles : \A p \in TilePixels :
       Memory.vram.tiles[tile][p] \in 0..(IF tile[2] THEN 255 ELSE 15)
  /\ \A tile \in DOMAIN Memory.vram.objTiles : \A p \in TilePixels :
       Memory.vram.objTiles[tile][p] \in 0..15
  /\ Memory.vram.pixels \in [Cover(Width, Height) -> Colors]
  /\ Memory.vram.indices \in [BOOLEAN -> [Cover(Width, Height) -> 0..255]]
  /\ Memory.vram.pages \in [BOOLEAN -> [Cover(Mode5Width, Mode5Height) -> Colors]]
  /\ Len(Memory.oam) \in Nat /\ DOMAIN Memory.oam = 1..Len(Memory.oam)
  /\ \A i \in DOMAIN Memory.oam :
       Memory.oam[i].prio \in 0..3 /\ Memory.oam[i].bank \in 0..15

\* The same of the display registers.
ASSUME DisplayAssumption ==
  \A d \in Displays :
    /\ d.bgOn \subseteq Bgs /\ d.backbuffer \in BOOLEAN
    /\ {d.eva, d.evb, d.evy} \subseteq Nat
    /\ \A bg \in Bgs : d.bgcnt[bg].prio \in 0..3 /\ d.bgcnt[bg].is8bpp \in BOOLEAN

VARIABLES
  display,    \* the display registers without the offsets
  registers,  \* BG0HOFS to BG3VOFS in the I/O page
  raster,     \* bg_offset_scanline.hofs and .vofs
  whole,      \* bg_offset_scanline.completed_hofs and .completed_vofs
  active,     \* bghofs_scanline_active and bgvofs_scanline_active
  hblank,     \* its interrupt enabled, IF HBLANK, hblank_latch_vcount, late handler
  clock,      \* the vcount clock thread
  work,       \* frame_buffers.work
  published,  \* frame_buffers.completed
  served      \* history: what this frame's own HBLANK gave to each line

vars == <<display, registers, raster, whole, active, hblank, clock, work,
          published, served>>

Unserved == [y \in Lines |-> <<>>]
Blank == [y \in Lines |-> [x \in 0..(Width - 1) |-> Black]]
ZeroRaster == [r \in Registers |-> [y \in Lines |-> 0]]

Init ==
  /\ display \in LineDisplays
  /\ registers = [r \in Registers |-> 0]
  /\ raster = ZeroRaster /\ whole = ZeroRaster
  /\ active = {}
  /\ hblank = [enabled |-> FALSE, pending |-> FALSE, latch |-> 0, late |-> FALSE]
  /\ clock = [pc |-> "choose", vcount |-> 0, needs |-> FALSE]
  /\ work = Blank /\ published = Blank
  /\ served = Unserved

\* The registers that a frame or a line starts from.
Ppu0(d) ==
  PpuFromRegisters(d, [bg \in Bgs |-> registers[<<"hofs", bg>>]],
                   [bg \in Bgs |-> registers[<<"vofs", bg>>]])

\* The active offsets of some lines written over the registers.
PpuWith(d, offsets, lines) ==
  LET own(axis) == [bg \in Bgs |-> IF <<axis, bg>> \in active
                                   THEN OwnLines(offsets[<<axis, bg>>], lines)
                                   ELSE <<>>]
  IN  [Ppu0(d) EXCEPT !.hofsLine = own("hofs"), !.vofsLine = own("vofs")]

\* render_scanline has those of one line, render_frame of the whole frame.
PpuOfLine(offsets, y) == PpuWith(display, offsets, {y})
WholePpu(d) == PpuWith(d, whole, Lines)
WholeFrame(d) == RenderFrame(WholePpu(d), Memory)

NeedsScanlineRenderer == hblank.enabled \/ active # {}

ClockTo(pc) == clock' = [clock EXCEPT !.pc = pc]

-----------------------------------------------------------------------------
(* The vcount clock.                                                       *)

\* Mutant: the whole frame's copy is made when the next frame begins.
CopiedLate(vcount) == vcount = 0

\* The raster is complete when VBLANK begins: the HBLANK before line 0 already
\* writes for the next frame.
Copied(vcount) == vcount = Height

\* needs_scanline_renderer, before the line begins.
ChooseRenderer ==
  /\ clock.pc = "choose"
  /\ clock' = [clock EXCEPT !.pc = "start", !.needs = NeedsScanlineRenderer]
  /\ UNCHANGED <<display, registers, raster, whole, active, hblank, work,
                 published, served>>

\* set_vcount: the whole frame's copy, or the line's offsets that no handler
\* ever wrote.
StartLine ==
  /\ clock.pc = "start"
  /\ ClockTo("draw")
  /\ whole' = IF Copied(clock.vcount) THEN raster ELSE whole
  /\ raster' = IF clock.vcount \in Lines
               THEN [r \in Registers |->
                      IF r \in active THEN raster[r]
                      ELSE [raster[r] EXCEPT ![clock.vcount] = registers[r]]]
               ELSE raster
  /\ served' = IF clock.vcount = TotalLines - 1 THEN Unserved ELSE served
  /\ UNCHANGED <<display, registers, active, hblank, work, published>>

\* render_scanline, when the clock had found that it is needed.
Draw ==
  /\ clock.pc = "draw"
  /\ work' = IF clock.vcount \in Lines /\ clock.needs
             THEN [work EXCEPT ![clock.vcount] =
                     RenderMode0Scanline(PpuOfLine(raster, clock.vcount),
                                         clock.vcount, Memory)]
             ELSE work
  /\ ClockTo("enter")
  /\ UNCHANGED <<display, registers, raster, whole, active, hblank, published,
                 served>>

\* enter_hblank: a request, unless one is pending or nobody asked for it.
EnterHblank ==
  /\ clock.pc = "enter"
  /\ LET requests == /\ ~hblank.pending /\ hblank.enabled
                     /\ clock.vcount \in Lines \cup {TotalLines - 1}
     IN  /\ hblank' = IF requests
                      THEN [hblank EXCEPT !.pending = TRUE, !.latch = clock.vcount]
                      ELSE hblank
         /\ ClockTo(IF requests THEN "wait" ELSE "next")
  /\ UNCHANGED <<display, registers, raster, whole, active, work, published,
                 served>>

\* Mutant: the offsets are written to the line the request was made in.
TargetLineOwn(vcount) == IF vcount \in Lines THEN {vcount} ELSE {}

\* hblank_target_line.
TargetLine(vcount) ==
  IF vcount = TotalLines - 1 THEN {0}
  ELSE {vcount + 1} \cap Lines

\* finish_fast_hblank and finish_fast_hblank_from_shared: the dirty registers,
\* or all, get the handler's values, and so does the line after the latched one.
Complete(dirty, values, own) ==
  LET lines == TargetLine(hblank.latch)
  IN  /\ registers' = [r \in Registers |-> IF r \in dirty THEN values[r]
                                           ELSE registers[r]]
      /\ raster' = [r \in Registers |-> [y \in Lines |->
                      IF r \in dirty /\ y \in lines THEN values[r] ELSE raster[r][y]]]
      /\ active' = IF lines = {} THEN active ELSE active \cup dirty
      /\ served' = [y \in Lines |->
                      IF own /\ y = (clock.vcount + 1) % TotalLines
                      THEN [r \in dirty |-> values[r]]
                      ELSE IF y \in lines THEN <<>> ELSE served[y]]
      /\ UNCHANGED <<display, whole, work, published>>

\* The shadow registers start as a copy of the registers.
HandlerValues ==
  {[r \in Registers |-> IF r \in HandlerWrites THEN written[r] ELSE registers[r]] :
     written \in [HandlerWrites -> Offsets]}

\* The request is answered in time, through shared memory or an MMIO exit; by
\* its own handler, or by one that started for an earlier request.
Answer ==
  /\ clock.pc = "wait"
  /\ \E values \in HandlerValues, dirty \in (SUBSET HandlerWrites) \cup {Registers},
        own \in {TRUE, ~hblank.late} :
       /\ Complete(dirty, values, own)
       /\ hblank' = [hblank EXCEPT !.pending = FALSE, !.late = FALSE]
  /\ ClockTo("next")

\* The deadline passes; the handler may be still at work.
Miss ==
  /\ clock.pc = "wait"
  /\ hblank' = [hblank EXCEPT !.late = TRUE]
  /\ ClockTo("next")
  /\ UNCHANGED <<display, registers, raster, whole, active, work, published,
                 served>>

\* Mutant: the count after the last line is taken too.
NextCountOver(vcount) == IF vcount >= TotalLines THEN 0 ELSE vcount + 1

NextCount(vcount) == IF vcount + 1 >= TotalLines THEN 0 ELSE vcount + 1

\* The next line; VBLANK publishes the lines that were drawn.
NextLine ==
  /\ clock.pc = "next"
  /\ clock' = [clock EXCEPT !.pc = "choose", !.vcount = NextCount(@)]
  /\ published' = IF clock'.vcount = Height /\ clock.needs THEN work ELSE published
  /\ UNCHANGED <<display, registers, raster, whole, active, hblank, work, served>>

-----------------------------------------------------------------------------
(* The guest and the KVM thread.                                           *)

\* A handler that missed its deadline ends through the MMIO exit.
LateExit ==
  /\ hblank.late /\ clock.pc # "wait"
  /\ \E values \in HandlerValues : Complete(Registers, values, FALSE)
  /\ hblank' = [hblank EXCEPT !.pending = FALSE, !.late = FALSE]
  /\ UNCHANGED clock

\* The slow path acknowledges IF HBLANK.
AckHblank ==
  /\ hblank.pending
  /\ hblank' = [hblank EXCEPT !.pending = FALSE]
  /\ UNCHANGED <<display, registers, raster, whole, active, clock, work,
                 published, served>>

\* The program turns HBLANK interrupts on or off, or writes an offset.
ToggleHblank ==
  /\ hblank' = [hblank EXCEPT !.enabled = ~@]
  /\ UNCHANGED <<display, registers, raster, whole, active, clock, work,
                 published, served>>

WriteOffset ==
  /\ \E r \in HandlerWrites, v \in Offsets :
       registers' = [registers EXCEPT ![r] = v]
  /\ UNCHANGED <<display, raster, whole, active, hblank, clock, work, published,
                 served>>

Next ==
  \/ ChooseRenderer \/ StartLine \/ Draw \/ EnterHblank \/ Answer \/ Miss \/ NextLine
  \/ LateExit \/ AckHblank \/ ToggleHblank \/ WriteOffset

Spec == Init /\ [][Next]_vars

-----------------------------------------------------------------------------
(* Properties.                                                             *)

OffsetTypes ==
  /\ display \in LineDisplays
  /\ registers \in OffsetValues
  /\ raster \in [Registers -> [Lines -> Offsets]]
  /\ whole \in [Registers -> [Lines -> Offsets]]
  /\ active \subseteq Registers
  /\ hblank \in [enabled: BOOLEAN, pending: BOOLEAN, latch: Counts, late: BOOLEAN]
  /\ clock \in [pc: {"choose", "start", "draw", "enter", "wait", "next"},
                vcount: Counts, needs: BOOLEAN]
  /\ DOMAIN served = Lines
  /\ \A y \in Lines : \A r \in DOMAIN served[y] : served[y][r] \in Offsets

PictureTypes ==
  /\ work \in [Lines -> [0..(Width - 1) -> Colors]]
  /\ published \in [Lines -> [0..(Width - 1) -> Colors]]

\* Every variable keeps its type; offsets never leave their nine bits and no
\* colour a channel's range.
TypeOK == OffsetTypes /\ PictureTypes

\* A line is drawn with the offsets that the handler of the HBLANK before it wrote
\* in the same frame, whatever happened to the HBLANKs of other lines: a missed
\* deadline, a late answer or the end of a frame spoils no line but its own
\* (render_scanline, hblank_target_line).
ServedLinesShown ==
  [][Draw /\ clock.vcount \in Lines =>
       \A r \in DOMAIN served[clock.vcount] :
         /\ clock.needs /\ r \in active
         /\ raster[r][clock.vcount] = served[clock.vcount][r]]_vars

InVblank ==
  \/ clock.vcount = Height /\ clock.pc \notin {"choose", "start"}
  \/ clock.vcount \in (Height + 1)..(TotalLines - 2)

\* When every line of a frame was served, render_frame draws in VBLANK the very
\* frame that the line renderer published, so that the change from one renderer
\* to the other does not show; where supports_scanline_renderer says that the line
\* renderer leaves nothing out.
FrameAgreesWithLines ==
  /\ InVblank
  /\ \A y \in Lines : HandlerWrites \subseteq DOMAIN served[y]
  /\ SupportsScanlineRenderer(display, Memory.oam)
  => \A p \in Pixels : WholeFrame(display)[p] = published[p[2]][p[1]]

\* The objects that show a colour at a pixel, and the backgrounds, and which of
\* two is in front.
ObjsAt(d, p) == {i \in DOMAIN Memory.oam :
  /\ d.objOn /\ Renderable(Memory.oam[i])
  /\ ObjPixel(d.obj1d, Memory, Memory.oam[i], p[1], p[2]) # <<>>}
BgsAt(ppu, p) == {bg \in ppu.bgOn :
  /\ WindowsEnabled(ppu) => bg \in WindowMask(ppu, p[1], p[2])
  /\ TextBgPixel(ppu, bg, p[1], p[2], Memory) # <<>>}
InFront(prio, a, b) == prio[a] < prio[b] \/ (prio[a] = prio[b] /\ a <= b)

\* When the line renderer is not needed, render_frame draws the picture.  Whatever
\* the other registers are by then, it shows at
\* every pixel what is in front: the object of the lowest priority and number,
\* else, where no effect applies, the background of the lowest priority and number,
\* else the backdrop; and no effect carries a channel beyond its five bits.
FrameShowsFront ==
  clock.pc = "draw" /\ clock.vcount = Height /\ ~NeedsScanlineRenderer =>
    \A d \in Displays :
    LET ppu == WholePpu(d)
        frame == WholeFrame(d)
        objPrio == [i \in DOMAIN Memory.oam |-> Memory.oam[i].prio]
        bgPrio == [bg \in Bgs |-> d.bgcnt[bg].prio]
    IN  \A p \in Pixels :
          LET objs == ObjsAt(d, p)
              bgs == BgsAt(ppu, p)
          IN  /\ frame[p] \in Colors
              /\ \A i \in objs : (\A j \in objs : InFront(objPrio, i, j)) =>
                   <<frame[p]>> = ObjPixel(d.obj1d, Memory, Memory.oam[i], p[1], p[2])
              /\ d.mode = 0 /\ d.bld.mode = 0 /\ objs = {} =>
                   /\ bgs = {} => frame[p] = Memory.palette[0]
                   /\ \A a \in bgs : (\A b \in bgs : InFront(bgPrio, a, b)) =>
                        <<frame[p]>> = TextBgPixel(ppu, a, p[1], p[2], Memory)
=============================================================================
