--------------------------- MODULE BgRasterProofs ---------------------------
(***************************************************************************)
(* For every screen, frame geometry, range of offsets, handler, setting of *)
(* the display and content of the memories: a line is drawn with the       *)
(* offsets its HBLANK handler gave it, the copy that a whole frame is      *)
(* drawn from has those of every line, both renderers draw the same, and   *)
(* a whole frame shows what is in front at every pixel, in colours that    *)
(* keep the range of their channels.                                       *)
(***************************************************************************)
EXTENDS BgRaster, FiniteSetTheorems, SequenceTheorems, TLAPS

Rasters == [Registers -> [Lines -> Offsets]]

\* The clock waits only for the request of its own line.
Requested ==
  clock.pc = "wait" =>
    hblank.latch = clock.vcount /\ clock.vcount \in Lines \cup {TotalLines - 1}

\* What a line was served is in the raster, under a flag that keeps set_vcount
\* from writing it ...
ServedInRaster ==
  \A y \in Lines : \A r \in DOMAIN served[y] :
    r \in active /\ raster[r][y] = served[y][r]

\* ... and the clock knew of a flag before it began the line.
NeedsServed ==
  clock.pc # "choose" /\ clock.vcount \in Lines =>
    \A r \in DOMAIN served[clock.vcount] : clock.needs

\* From the beginning of VBLANK to its last line but one, what the lines were
\* served is also in the whole frame's copy.
ServedInWhole ==
  InVblank => \A y \in Lines : \A r \in DOMAIN served[y] :
    r \in active /\ whole[r][y] = served[y][r]

IInv == OffsetTypes /\ Requested /\ ServedInRaster /\ NeedsServed /\ ServedInWhole

-----------------------------------------------------------------------------
(* The constants, and what a completion writes.                            *)

LEMMA Geometry ==
  /\ Height \in Nat \ {0} /\ TotalLines \in Nat /\ Height + 1 < TotalLines
  /\ 0 \in Counts /\ TotalLines - 1 \in Counts /\ Lines \subseteq Counts
  /\ \A n \in Counts : n \in Nat /\ n < TotalLines
  /\ \A n \in Counts : n \in Lines <=> n < Height
<1>1. Height \in Nat \ {0} /\ TotalLines \in Nat /\ Height + 1 < TotalLines
  BY ScreenAssumption, RasterAssumption
<1> QED  BY <1>1 DEF Counts, Lines

\* A handler gives every register an offset: the ones it writes, and for the rest
\* the register's own.
LEMMA HandlerValuesTyped ==
  ASSUME registers \in OffsetValues
  PROVE  HandlerValues \subseteq OffsetValues
BY DEF HandlerValues, OffsetValues

\* The line a completion is for is that of a request's next line: 0 from the
\* frame's last line, none from the others of VBLANK.
LEMMA TargetOf ==
  ASSUME NEW n \in Lines \cup {TotalLines - 1}
  PROVE  TargetLine(n) = {(n + 1) % TotalLines} \cap Lines
<1>1. CASE n = TotalLines - 1
  <2>1. (n + 1) % TotalLines = 0
    BY <1>1, Geometry
  <2> QED  BY <1>1, <2>1, Geometry DEF TargetLine, Lines
<1>2. CASE n # TotalLines - 1
  <2>1. (n + 1) % TotalLines = n + 1
    BY <1>2, Geometry DEF Lines
  <2> QED  BY <1>2, <2>1 DEF TargetLine
<1> QED  BY <1>1, <1>2

\* A completion keeps the types, and what it serves and leaves served is in the
\* raster under an active flag; it serves no line but its own and leaves the
\* others' as they were, or forgets them.
LEMMA CompleteKeeps ==
  ASSUME IInv, NEW dirty \in SUBSET Registers, NEW values \in OffsetValues,
         NEW own \in BOOLEAN, Complete(dirty, values, own),
         own => clock.pc = "wait"
  PROVE  /\ registers' \in OffsetValues /\ raster' \in Rasters
         /\ active \subseteq active' /\ active' \subseteq Registers
         /\ DOMAIN served' = Lines
         /\ \A y \in Lines : \A r \in DOMAIN served'[y] : served'[y][r] \in Offsets
         /\ ServedInRaster'
         /\ \A y \in Lines : \/ served'[y] = served[y] \/ served'[y] = <<>>
                             \/ own /\ y = (clock.vcount + 1) % TotalLines
<1> DEFINE lines == TargetLine(hblank.latch)
           mine == (clock.vcount + 1) % TotalLines
<1>1. /\ registers' = [r \in Registers |-> IF r \in dirty THEN values[r] ELSE registers[r]]
      /\ raster' = [r \in Registers |-> [y \in Lines |->
                      IF r \in dirty /\ y \in lines THEN values[r] ELSE raster[r][y]]]
      /\ active' = IF lines = {} THEN active ELSE active \cup dirty
      /\ served' = [y \in Lines |->
                      IF own /\ y = mine THEN [r \in dirty |-> values[r]]
                      ELSE IF y \in lines THEN <<>> ELSE served[y]]
  BY DEF Complete
<1>2. own => lines = {mine} \cap Lines
  BY TargetOf DEF IInv, Requested
<1> HIDE DEF lines, mine
<1>3. registers' \in OffsetValues
  BY <1>1 DEF IInv, OffsetTypes, OffsetValues
<1>4. raster' \in Rasters
  BY <1>1 DEF IInv, OffsetTypes, OffsetValues, Rasters
<1>5. active \subseteq active' /\ active' \subseteq Registers
  BY <1>1 DEF IInv, OffsetTypes
<1>6. ASSUME NEW y \in Lines
      PROVE  \/ /\ own /\ y = mine /\ y \in lines
                /\ served'[y] = [r \in dirty |-> values[r]]
             \/ served'[y] = <<>>
             \/ served'[y] = served[y] /\ y \notin lines
  BY <1>1, <1>2, <1>6
<1>7. ASSUME NEW y \in Lines, NEW r \in DOMAIN served'[y] PROVE served'[y][r] \in Offsets
  <2>1. CASE served'[y] = [q \in dirty |-> values[q]]
    <3>1. r \in dirty /\ served'[y][r] = values[r]
      BY <2>1
    <3> QED  BY <3>1 DEF OffsetValues
  <2>2. CASE served'[y] = <<>>
    BY <2>2
  <2>3. CASE served'[y] = served[y]
    BY <2>3 DEF IInv, OffsetTypes
  <2> QED  BY <1>6, <2>1, <2>2, <2>3
<1>8. ServedInRaster'
  <2> SUFFICES ASSUME NEW y \in Lines, NEW r \in DOMAIN served'[y]
               PROVE  r \in active' /\ raster'[r][y] = served'[y][r]
    BY DEF ServedInRaster
  <2>1. CASE own /\ y = mine /\ y \in lines /\ served'[y] = [q \in dirty |-> values[q]]
    <3>1. r \in dirty /\ served'[y][r] = values[r]
      BY <2>1
    <3> QED  BY <1>1, <2>1, <3>1
  <2>2. CASE served'[y] = <<>>
    BY <2>2
  <2>3. CASE served'[y] = served[y] /\ y \notin lines
    <3>1. r \in active /\ raster[r][y] = served[y][r] /\ r \in Registers
      BY <2>3 DEF IInv, ServedInRaster, OffsetTypes
    <3> QED  BY <1>1, <1>5, <2>3, <3>1
  <2> QED  BY <1>6, <2>1, <2>2, <2>3
<1> QED
  BY <1>1, <1>3, <1>4, <1>5, <1>6, <1>7, <1>8 DEF mine

-----------------------------------------------------------------------------
(* Initially.                                                              *)

LEMMA InitInv == Init => IInv
<1> SUFFICES ASSUME Init PROVE IInv
  OBVIOUS
<1>1. 0 \in Counts /\ 0 \in Offsets
  BY Geometry, RasterAssumption
<1>2. DOMAIN served = Lines /\ \A y \in Lines : DOMAIN served[y] = {}
  BY DEF Init, Unserved
<1>3. registers \in OffsetValues /\ raster \in Rasters /\ whole \in Rasters
  BY <1>1 DEF Init, OffsetValues, Rasters, ZeroRaster
<1>4. clock.pc = "choose"
  BY DEF Init
<1>5. OffsetTypes
  BY <1>1, <1>2, <1>3 DEF Init, OffsetTypes, Rasters
<1> QED
  BY <1>2, <1>4, <1>5 DEF IInv, Requested, ServedInRaster, NeedsServed, ServedInWhole

-----------------------------------------------------------------------------
(* The vcount clock.                                                       *)

LEMMA ChooseInv == IInv /\ ChooseRenderer => IInv'
<1> SUFFICES ASSUME IInv, ChooseRenderer PROVE IInv'
  OBVIOUS
<1>1. /\ clock.pc = "choose"
      /\ clock' = [clock EXCEPT !.pc = "start", !.needs = NeedsScanlineRenderer]
      /\ UNCHANGED <<display, registers, raster, whole, active, hblank, served>>
  BY DEF ChooseRenderer
<1>2. NeedsScanlineRenderer \in BOOLEAN
  BY DEF NeedsScanlineRenderer, IInv, OffsetTypes
<1> DEFINE needs == NeedsScanlineRenderer
<1> HIDE DEF needs
<1>3. clock' = [clock EXCEPT !.pc = "start", !.needs = needs]
  BY <1>1 DEF needs
<1>4. clock'.pc = "start" /\ clock'.vcount = clock.vcount /\ clock'.needs = needs
  BY <1>3 DEF IInv, OffsetTypes
<1>5. OffsetTypes'
  BY <1>1, <1>2, <1>3 DEF IInv, OffsetTypes, needs
<1>6. NeedsServed'
  BY <1>1, <1>4 DEF IInv, NeedsServed, ServedInRaster, NeedsScanlineRenderer, needs
<1> QED
  BY <1>1, <1>4, <1>5, <1>6 DEF IInv, Requested, ServedInRaster, ServedInWhole, InVblank

\* set_vcount writes only offsets that no line was served.
LEMMA StartInv == IInv /\ StartLine => IInv'
<1> SUFFICES ASSUME IInv, StartLine PROVE IInv'
  OBVIOUS
<1> DEFINE n == clock.vcount
<1>1. /\ clock.pc = "start" /\ clock' = [clock EXCEPT !.pc = "draw"]
      /\ whole' = IF n = Height THEN raster ELSE whole
      /\ raster' = IF n \in Lines
                   THEN [r \in Registers |->
                          IF r \in active THEN raster[r]
                          ELSE [raster[r] EXCEPT ![n] = registers[r]]]
                   ELSE raster
      /\ served' = IF n = TotalLines - 1 THEN Unserved ELSE served
      /\ UNCHANGED <<display, registers, active, hblank>>
  BY DEF StartLine, ClockTo, Copied
<1>2. clock'.pc = "draw" /\ clock'.vcount = n /\ clock'.needs = clock.needs
      /\ n \in Counts
  BY <1>1 DEF IInv, OffsetTypes
<1>3. raster \in Rasters /\ whole \in Rasters /\ registers \in OffsetValues
  BY DEF IInv, OffsetTypes, Rasters
<1>4. \A r \in active : raster'[r] = raster[r]
  BY <1>1 DEF IInv, OffsetTypes
<1>5. raster' \in Rasters /\ whole' \in Rasters
  BY <1>1, <1>3 DEF Rasters, OffsetValues
<1>6. /\ DOMAIN served' = Lines
      /\ \A y \in Lines : served'[y] = served[y] \/ DOMAIN served'[y] = {}
  BY <1>1 DEF Unserved, IInv, OffsetTypes
<1>7. OffsetTypes'
  BY <1>1, <1>2, <1>3, <1>5, <1>6 DEF IInv, OffsetTypes, Rasters
<1>8. ServedInRaster'
  BY <1>1, <1>4, <1>6 DEF IInv, ServedInRaster
<1>9. NeedsServed'
  BY <1>1, <1>2, <1>6 DEF IInv, NeedsServed
<1>10. ServedInWhole'
  <2>1. CASE n = Height
    <3>1. n \notin Lines /\ whole' = raster /\ raster' = raster
      BY <1>1, <1>2, <2>1, Geometry
    <3> QED  BY <1>8, <3>1 DEF ServedInRaster, ServedInWhole
  <2>2. CASE n # Height
    <3>1. whole' = whole /\ (InVblank' => InVblank)
      BY <1>1, <1>2, <2>2 DEF InVblank
    <3> QED  BY <1>1, <1>6, <3>1 DEF IInv, ServedInWhole
  <2> QED  BY <2>1, <2>2
<1>11. Requested'
  BY <1>2 DEF Requested
<1> QED  BY <1>7, <1>8, <1>9, <1>10, <1>11 DEF IInv

\* A step that moves the clock on in its line, and takes no part in the offsets.
LEMMA MovesOn ==
  ASSUME IInv, OffsetTypes', clock.pc # "choose", Requested',
         UNCHANGED <<raster, whole, active, served>>,
         clock'.vcount = clock.vcount, clock'.needs = clock.needs,
         clock.vcount = Height /\ clock.pc = "start" => clock'.pc = "start"
  PROVE  IInv'
BY DEF IInv, ServedInRaster, NeedsServed, ServedInWhole, InVblank

LEMMA NextLineInv == IInv /\ NextLine => IInv'
<1> SUFFICES ASSUME IInv, NextLine PROVE IInv'
  OBVIOUS
<1>1. /\ clock.pc = "next"
      /\ clock' = [clock EXCEPT !.pc = "choose", !.vcount = NextCount(@)]
      /\ UNCHANGED <<display, registers, raster, whole, active, hblank, served>>
  BY DEF NextLine
<1>2. clock.vcount \in Counts
  BY DEF IInv, OffsetTypes
<1>3. NextCount(clock.vcount) \in Counts
      /\ NextCount(clock.vcount) = IF clock.vcount = TotalLines - 1 THEN 0
                                   ELSE clock.vcount + 1
  BY <1>2, Geometry DEF NextCount, Counts
<1>4. clock'.pc = "choose" /\ clock'.vcount = NextCount(clock.vcount)
  BY <1>1 DEF IInv, OffsetTypes
<1>5. OffsetTypes'
  BY <1>1, <1>3 DEF IInv, OffsetTypes
<1>6. InVblank' => InVblank
  BY <1>1, <1>2, <1>3, <1>4, Geometry DEF InVblank, Counts
<1> QED
  BY <1>1, <1>4, <1>5, <1>6 DEF IInv, Requested, ServedInRaster, NeedsServed, ServedInWhole

LEMMA AnswerInv == IInv /\ Answer => IInv'
<1> SUFFICES ASSUME IInv, Answer PROVE IInv'
  OBVIOUS
<1>1. PICK values \in OffsetValues, dirty \in SUBSET Registers, own \in BOOLEAN :
        Complete(dirty, values, own)
  <2>1. HandlerValues \subseteq OffsetValues
    BY HandlerValuesTyped DEF IInv, OffsetTypes
  <2>2. (SUBSET HandlerWrites) \cup {Registers} \subseteq SUBSET Registers
    BY RasterAssumption
  <2>3. {TRUE, ~hblank.late} \subseteq BOOLEAN
    OBVIOUS
  <2>4. PICK values \in HandlerValues, dirty \in (SUBSET HandlerWrites) \cup {Registers},
             own \in {TRUE, ~hblank.late} : Complete(dirty, values, own)
    BY DEF Answer
  <2>5. values \in OffsetValues /\ dirty \in SUBSET Registers /\ own \in BOOLEAN
    BY <2>1, <2>2, <2>3, <2>4
  <2> QED  BY <2>4, <2>5
<1>2. /\ clock.pc = "wait" /\ clock' = [clock EXCEPT !.pc = "next"]
      /\ hblank' = [hblank EXCEPT !.pending = FALSE, !.late = FALSE]
      /\ UNCHANGED <<display, whole>>
  BY DEF Answer, ClockTo, Complete
<1>3. /\ registers' \in OffsetValues /\ raster' \in Rasters
      /\ active \subseteq active' /\ active' \subseteq Registers
      /\ DOMAIN served' = Lines
      /\ \A y \in Lines : \A r \in DOMAIN served'[y] : served'[y][r] \in Offsets
      /\ ServedInRaster'
      /\ \A y \in Lines : \/ served'[y] = served[y] \/ served'[y] = <<>>
                          \/ own /\ y = (clock.vcount + 1) % TotalLines
  BY <1>1, <1>2, CompleteKeeps
<1>4. clock'.pc = "next" /\ clock'.vcount = clock.vcount /\ clock'.needs = clock.needs
  BY <1>2 DEF IInv, OffsetTypes
<1>5. clock.vcount \in Lines \cup {TotalLines - 1} /\ clock.vcount \in Counts
  BY <1>2, Geometry DEF IInv, Requested
<1>6. OffsetTypes'
  BY <1>2, <1>3 DEF IInv, OffsetTypes, Rasters
<1>7. (clock.vcount + 1) % TotalLines # clock.vcount
  <2>1. CASE clock.vcount = TotalLines - 1
    BY <2>1, Geometry
  <2>2. CASE clock.vcount # TotalLines - 1
    BY <1>5, <2>2, Geometry
  <2> QED  BY <2>1, <2>2
<1>8. NeedsServed'
  BY <1>2, <1>3, <1>4, <1>7 DEF IInv, NeedsServed
<1>9. ~InVblank'
  BY <1>4, <1>5, Geometry DEF InVblank, Lines
<1> QED
  BY <1>3, <1>4, <1>6, <1>8, <1>9 DEF IInv, Requested, ServedInWhole

LEMMA ClockInv ==
  ASSUME IInv, ChooseRenderer \/ StartLine \/ Draw \/ EnterHblank \/ Answer \/ Miss \/ NextLine
  PROVE  IInv'
<1>1. CASE Draw
  <2>1. /\ clock.pc = "draw" /\ clock' = [clock EXCEPT !.pc = "enter"]
        /\ UNCHANGED <<display, registers, raster, whole, active, hblank, served>>
    BY <1>1 DEF Draw, ClockTo
  <2>2. OffsetTypes' /\ Requested'
    BY <2>1 DEF IInv, OffsetTypes, Requested
  <2> QED  BY <2>1, <2>2, MovesOn DEF IInv, OffsetTypes
<1>2. CASE EnterHblank
  <2>1. PICK requests \in BOOLEAN :
          /\ clock.pc = "enter"
          /\ requests => clock.vcount \in Lines \cup {TotalLines - 1}
          /\ hblank' = IF requests
                       THEN [hblank EXCEPT !.pending = TRUE, !.latch = clock.vcount]
                       ELSE hblank
          /\ clock' = [clock EXCEPT !.pc = IF requests THEN "wait" ELSE "next"]
          /\ UNCHANGED <<display, registers, raster, whole, active, served>>
    BY <1>2 DEF EnterHblank, ClockTo
  <2>2. OffsetTypes' /\ Requested'
    BY <2>1 DEF IInv, OffsetTypes, Requested
  <2> QED  BY <2>1, <2>2, MovesOn DEF IInv, OffsetTypes
<1>3. CASE Miss
  <2>1. /\ clock.pc = "wait" /\ clock' = [clock EXCEPT !.pc = "next"]
        /\ hblank' = [hblank EXCEPT !.late = TRUE]
        /\ UNCHANGED <<display, registers, raster, whole, active, served>>
    BY <1>3 DEF Miss, ClockTo
  <2>2. OffsetTypes' /\ Requested'
    BY <2>1 DEF IInv, OffsetTypes, Requested
  <2> QED  BY <2>1, <2>2, MovesOn DEF IInv, OffsetTypes
<1> QED  BY <1>1, <1>2, <1>3, ChooseInv, StartInv, AnswerInv, NextLineInv

-----------------------------------------------------------------------------
(* The guest and the KVM thread.                                           *)

LEMMA LateExitInv == IInv /\ LateExit => IInv'
<1> SUFFICES ASSUME IInv, LateExit PROVE IInv'
  OBVIOUS
<1>1. PICK values \in OffsetValues : Complete(Registers, values, FALSE)
  BY HandlerValuesTyped DEF LateExit, IInv, OffsetTypes
<1>2. /\ hblank' = [hblank EXCEPT !.pending = FALSE, !.late = FALSE]
      /\ UNCHANGED <<display, whole, clock>>
  BY DEF LateExit, Complete
<1>3. /\ registers' \in OffsetValues /\ raster' \in Rasters
      /\ active \subseteq active' /\ active' \subseteq Registers
      /\ DOMAIN served' = Lines
      /\ \A y \in Lines : \A r \in DOMAIN served'[y] : served'[y][r] \in Offsets
      /\ ServedInRaster'
      /\ \A y \in Lines : served'[y] = served[y] \/ served'[y] = <<>>
  BY <1>1, CompleteKeeps
<1>4. OffsetTypes'
  BY <1>2, <1>3 DEF IInv, OffsetTypes, Rasters
<1>5. Requested'
  BY <1>2 DEF IInv, OffsetTypes, Requested
<1>6. NeedsServed' /\ ServedInWhole'
  BY <1>2, <1>3 DEF IInv, NeedsServed, ServedInWhole, InVblank
<1> QED  BY <1>3, <1>4, <1>5, <1>6 DEF IInv

LEMMA GuestInv ==
  ASSUME IInv, LateExit \/ AckHblank \/ ToggleHblank \/ WriteOffset
  PROVE  IInv'
<1> USE DEF IInv, OffsetTypes, Requested, ServedInRaster, NeedsServed, ServedInWhole,
            InVblank
<1>1. CASE AckHblank
  <2>1. hblank' \in [enabled: BOOLEAN, pending: BOOLEAN, latch: Counts, late: BOOLEAN]
        /\ hblank'.latch = hblank.latch
    BY <1>1 DEF AckHblank
  <2> QED  BY <1>1, <2>1 DEF AckHblank
<1>2. CASE ToggleHblank
  <2>1. hblank' \in [enabled: BOOLEAN, pending: BOOLEAN, latch: Counts, late: BOOLEAN]
        /\ hblank'.latch = hblank.latch
    BY <1>2 DEF ToggleHblank
  <2> QED  BY <1>2, <2>1 DEF ToggleHblank
<1>3. CASE WriteOffset
  <2>1. PICK r \in HandlerWrites, v \in Offsets : registers' = [registers EXCEPT ![r] = v]
    BY <1>3 DEF WriteOffset
  <2>2. registers' \in OffsetValues
    BY <2>1 DEF OffsetValues
  <2> QED  BY <1>3, <2>2 DEF WriteOffset
<1> QED  BY <1>1, <1>2, <1>3, LateExitInv

-----------------------------------------------------------------------------
(* The theorems.                                                           *)

LEMMA Inductive == IInv /\ [Next]_vars => IInv'
<1> SUFFICES ASSUME IInv, [Next]_vars PROVE IInv'
  OBVIOUS
<1>1. CASE UNCHANGED vars
  BY <1>1 DEF vars, IInv, OffsetTypes, Requested, ServedInRaster, NeedsServed,
    ServedInWhole, InVblank
<1> QED  BY <1>1, ClockInv, GuestInv DEF Next

LEMMA Invariance == Spec => []IInv
  BY InitInv, Inductive, PTL DEF Spec

\* Every variable but the pictures keeps its type: no offset leaves the values that
\* the registers take, in the registers, the raster and its copy.
THEOREM OffsetsTyped == Spec => []OffsetTypes
<1>1. IInv => OffsetTypes
  BY DEF IInv
<1> QED  BY <1>1, Invariance, PTL

\* A line is drawn with the offsets that the handler of the HBLANK before it wrote in
\* the same frame, whatever became of the HBLANKs of other lines (render_scanline,
\* hblank_target_line).
THEOREM LinesShowTheirOffsets == Spec => ServedLinesShown
<1>1. IInv /\ [Next]_vars =>
        [Draw /\ clock.vcount \in Lines =>
           \A r \in DOMAIN served[clock.vcount] :
             /\ clock.needs /\ r \in active
             /\ raster[r][clock.vcount] = served[clock.vcount][r]]_vars
  BY DEF IInv, ServedInRaster, NeedsServed, Draw
<1> QED  BY <1>1, Invariance, PTL DEF Spec, ServedLinesShown

\* While a whole frame may be drawn, in VBLANK, the copy it is drawn from has under
\* active flags the offsets that each line was served, although completions for the
\* frame's lines may still come late (snapshot in set_vcount, render_frame).
THEOREM WholeFrameHasServed == Spec => []ServedInWhole
<1>1. IInv => ServedInWhole
  BY DEF IInv
<1> QED  BY <1>1, Invariance, PTL

-----------------------------------------------------------------------------
(* What a line and a whole frame show, as an operator of the offsets that  *)
(* the registers, the raster and the flags stand for.                      *)

\* What ppu_from_registers takes from the display registers and the offsets, of
\* that what is looked at here.
StartsFrom(q, d) ==
  /\ q.mode = d.mode /\ q.bgcnt = d.bgcnt /\ q.bgOn = d.bgOn /\ q.objOn = d.objOn
  /\ q.windows = d.windows /\ q.objWindow = d.objWindow /\ q.bld = d.bld
  /\ q.bghofs = [bg \in Bgs |-> registers[<<"hofs", bg>>] % OffsetRange]
  /\ q.bgvofs = [bg \in Bgs |-> registers[<<"vofs", bg>>] % OffsetRange]
  /\ q.obj1d = d.obj1d /\ q.backbuffer = d.backbuffer
  /\ {d.eva, d.evb, d.evy} \subseteq Nat => {q.eva, q.evb, q.evy} \subseteq Nat
  /\ {"hofsLine", "vofsLine", "eva", "evb", "evy"} \subseteq DOMAIN q

LEMMA Ppu0Starts ==
  ASSUME NEW d
  PROVE  StartsFrom(Ppu0(d), d)
<1> DEFINE hofs == [bg \in Bgs |-> registers[<<"hofs", bg>>]]
           vofs == [bg \in Bgs |-> registers[<<"vofs", bg>>]]
           bghofs == [bg \in Bgs |-> hofs[bg] % OffsetRange]
           bgvofs == [bg \in Bgs |-> vofs[bg] % OffsetRange]
           x == d.x % (2 ^ 28)
           y == d.y % (2 ^ 28)
<1>1. PICK q0 : q0 = [NewPpu EXCEPT
        !.mode = d.mode, !.backbuffer = d.backbuffer, !.obj1d = d.obj1d,
        !.bgOn = d.bgOn, !.objOn = d.objOn, !.windows = d.windows,
        !.objWindow = d.objWindow, !.bgcnt = d.bgcnt,
        !.bghofs = bghofs, !.bgvofs = bgvofs,
        !.pa = d.pa, !.pb = d.pb, !.pc = d.pc, !.pd = d.pd,
        !.x = x, !.y = y,
        !.win = d.win, !.mosaic = d.mosaic, !.bld = d.bld]
  BY Zenon
<1>2. PICK q1 : q1 = WriteWinin(q0, d.winin)
  OBVIOUS
<1>3. PICK q2 : q2 = WriteWinout(q1, d.winout)
  OBVIOUS
<1>4. PICK q3 : q3 = WriteBldalpha(q2, d.eva, d.evb)
  OBVIOUS
<1>5. PICK q4 : q4 = WriteBldy(q3, d.evy)
  OBVIOUS
<1>6. Ppu0(d) = q4
  BY <1>1, <1>2, <1>3, <1>4, <1>5 DEF Ppu0, PpuFromRegisters
<1>7. StartsFrom(q0, d)
  <2> HIDE DEF x, y, bghofs, bgvofs
  <2> DEFINE names == {"mode", "backbuffer", "obj1d", "bgOn", "objOn", "windows",
          "objWindow", "bgcnt", "bghofs", "bgvofs", "hofsLine", "vofsLine", "pa", "pb",
          "pc", "pd", "x", "y", "win", "winin", "winout", "mosaic", "bld", "eva", "evb",
          "evy"}
  <2>1. PICK new : new = NewPpu
    OBVIOUS
  <2>2. DOMAIN new = names
    BY <2>1 DEF NewPpu
  <2>3. q0 = [new EXCEPT
        !.mode = d.mode, !.backbuffer = d.backbuffer, !.obj1d = d.obj1d,
        !.bgOn = d.bgOn, !.objOn = d.objOn, !.windows = d.windows,
        !.objWindow = d.objWindow, !.bgcnt = d.bgcnt,
        !.bghofs = bghofs, !.bgvofs = bgvofs,
        !.pa = d.pa, !.pb = d.pb, !.pc = d.pc, !.pd = d.pd,
        !.x = x, !.y = y,
        !.win = d.win, !.mosaic = d.mosaic, !.bld = d.bld]
    BY <1>1, <2>1
  <2>4. DOMAIN q0 = names
    BY <2>2, <2>3, Zenon
  <2>5. q0.mode = d.mode
    BY <2>2, <2>3
  <2>6. q0.bgcnt = d.bgcnt
    BY <2>2, <2>3
  <2>7. q0.bgOn = d.bgOn
    BY <2>2, <2>3
  <2>8. q0.objOn = d.objOn
    BY <2>2, <2>3
  <2>9. q0.windows = d.windows /\ q0.objWindow = d.objWindow
    BY <2>2, <2>3
  <2>10. q0.bld = d.bld
    BY <2>2, <2>3
  <2>11. q0.bghofs = bghofs /\ q0.bgvofs = bgvofs
    BY <2>2, <2>3
  <2>12. q0.obj1d = d.obj1d /\ q0.backbuffer = d.backbuffer
    BY <2>2, <2>3
  <2>13. q0.eva = 0 /\ q0.evb = 0 /\ q0.evy = 0
    <3>1. new.eva = 0 /\ new.evb = 0 /\ new.evy = 0
      BY <2>1 DEF NewPpu
    <3> QED  BY <2>2, <2>3, <3>1
  <2> QED
    BY <2>4, <2>5, <2>6, <2>7, <2>8, <2>9, <2>10, <2>11, <2>12, <2>13
    DEF StartsFrom, bghofs, bgvofs
<1>8. StartsFrom(q1, d)
  BY <1>2, <1>7 DEF StartsFrom, WriteWinin
<1>9. StartsFrom(q2, d)
  BY <1>3, <1>8 DEF StartsFrom, WriteWinout
<1>10. StartsFrom(q3, d)
  <2>1. PICK a, b : a = d.eva % 32 /\ b = d.evb % 32
    OBVIOUS
  <2>2. {d.eva, d.evb} \subseteq Nat => {a, b} \subseteq Nat
    <3> SUFFICES ASSUME NEW eva \in Nat, NEW evb \in Nat, eva = d.eva, evb = d.evb
                 PROVE  eva % 32 \in Nat /\ evb % 32 \in Nat
      BY <2>1
    <3> QED  OBVIOUS
  <2>3. q3 = [q2 EXCEPT !.eva = a, !.evb = b]
    BY <1>4, <2>1 DEF WriteBldalpha
  <2> QED  BY <1>9, <2>2, <2>3 DEF StartsFrom
<1>11. StartsFrom(q4, d)
  <2>1. PICK a : a = d.evy % 32
    OBVIOUS
  <2>2. d.evy \in Nat => a \in Nat
    <3> SUFFICES ASSUME NEW evy \in Nat, evy = d.evy PROVE evy % 32 \in Nat
      BY <2>1
    <3> QED  OBVIOUS
  <2>3. q4 = [q3 EXCEPT !.evy = a]
    BY <1>5, <2>1 DEF WriteBldy
  <2> QED  BY <1>10, <2>2, <2>3 DEF StartsFrom
<1> QED  BY <1>6, <1>11

\* What a background shows at a pixel with given offsets.
Texel(cnt, x, y, hofs, vofs) ==
  LET size == TextBgSize(cnt.size)
      index == TextBgColorIndex(Memory.vram, cnt, (x + hofs) % size.w, (y + vofs) % size.h)
  IN  IF index = <<>> THEN <<>> ELSE <<Memory.palette[index[1]]>>

\* The layers of a pixel, with given offsets.
LayersWith(d, mask, x, y, offsets) ==
  LayersOf(d.bgcnt, d.bgOn \cap mask,
           [bg \in Bgs |-> Texel(d.bgcnt[bg], x, y, offsets[<<"hofs", bg>>],
                                 offsets[<<"vofs", bg>>])],
           Memory.palette[0])
LineWith(y, offsets) ==
  [x \in 0..(Width - 1) |-> LayersWith(display, WinMaskAll, x, y, offsets)[1].color]

\* Offsets of a line that the registers stand for under the flags.
Resolved(offsets, y, values) ==
  \A r \in Registers :
    values[r] = IF r \in active THEN offsets[r][y] ELSE registers[r]

\* The renderers look up these offsets.
Shows(ppu, d, x, y, offsets) ==
  \A bg \in Bgs : TextBgPixel(ppu, bg, x, y, Memory)
                   = Texel(d.bgcnt[bg], x, y, offsets[<<"hofs", bg>>], offsets[<<"vofs", bg>>])

LEMMA TexelsShown ==
  ASSUME registers \in OffsetValues, NEW offsets \in [Registers -> [Lines -> Offsets]],
         NEW lines \in SUBSET Lines, NEW y \in lines, NEW values, Resolved(offsets, y, values),
         NEW d, NEW x
  PROVE  Shows(PpuWith(d, offsets, lines), d, x, y, values)
<1> DEFINE p0 == Ppu0(d)
           own(axis) == [bg \in Bgs |-> IF <<axis, bg>> \in active
                           THEN OwnLines(offsets[<<axis, bg>>], lines) ELSE <<>>]
<1>1. StartsFrom(p0, d)
  BY Ppu0Starts
<1>2. PICK hl, vl : hl = own("hofs") /\ vl = own("vofs")
  OBVIOUS
<1>3. PICK q : q = [p0 EXCEPT !.hofsLine = hl, !.vofsLine = vl]
  OBVIOUS
<1>4. PpuWith(d, offsets, lines) = q
  BY <1>2, <1>3 DEF PpuWith
<1> HIDE DEF p0
<1>5. /\ q.hofsLine = hl /\ q.vofsLine = vl
      /\ q.bgcnt = d.bgcnt /\ q.bgOn = d.bgOn
      /\ q.bghofs = [bg \in Bgs |-> registers[<<"hofs", bg>>] % OffsetRange]
      /\ q.bgvofs = [bg \in Bgs |-> registers[<<"vofs", bg>>] % OffsetRange]
  BY <1>1, <1>3 DEF StartsFrom
<1>6. \A v \in Offsets : v % OffsetRange = v
  <2>1. OffsetRange \in Nat /\ OffsetRange > 0
    BY ScreenAssumption DEF OffsetRange, BlockSize
  <2> QED  BY <2>1, RasterAssumption
<1>7. \A axis \in Axes, bg \in Bgs : <<axis, bg>> \in Registers
  BY DEF Registers
<1>8. ASSUME NEW axis \in Axes, NEW bg \in Bgs
      PROVE  LET r == <<axis, bg>> IN
             /\ r \in active => own(axis)[bg] # <<>> /\ own(axis)[bg][y] = values[r]
             /\ r \notin active => own(axis)[bg] = <<>>
                                 /\ registers[r] % OffsetRange = values[r]
  <2> DEFINE r == <<axis, bg>>
  <2>1. r \in Registers
    BY <1>7
  <2>2. CASE r \in active
    <3>1. own(axis)[bg] = OwnLines(offsets[r], lines)
      BY <2>2
    <3>2. y \in 0..(Height - 1) /\ OwnLines(offsets[r], lines)[y] = offsets[r][y] % OffsetRange
      BY DEF OwnLines, Lines
    <3>3. OwnLines(offsets[r], lines) # <<>>
      <4>1. DOMAIN OwnLines(offsets[r], lines) = 0..(Height - 1)
        BY DEF OwnLines
      <4>2. 0 \in 0..(Height - 1) /\ 0 \notin DOMAIN <<>>
        BY Geometry
      <4> QED  BY <4>1, <4>2
    <3>4. offsets[r][y] \in Offsets
      BY <2>1
    <3> QED  BY <1>6, <2>1, <2>2, <3>1, <3>2, <3>3, <3>4 DEF Resolved
  <2>3. CASE r \notin active
    BY <1>6, <2>1, <2>3 DEF Resolved, OffsetValues
  <2> QED  BY <2>2, <2>3
<1> SUFFICES ASSUME NEW bg \in Bgs
             PROVE  TextBgPixel(q, bg, x, y, Memory)
                      = Texel(d.bgcnt[bg], x, y, values[<<"hofs", bg>>], values[<<"vofs", bg>>])
  BY <1>4, Zenon DEF Shows
<1> HIDE DEF own
<1>9. (IF q.hofsLine[bg] = <<>> THEN q.bghofs[bg] ELSE q.hofsLine[bg][y])
           = values[<<"hofs", bg>>]
  BY <1>2, <1>5, <1>8 DEF Axes
<1>10. (IF q.vofsLine[bg] = <<>> THEN q.bgvofs[bg] ELSE q.vofsLine[bg][y])
           = values[<<"vofs", bg>>]
  BY <1>2, <1>5, <1>8 DEF Axes
<1> QED  BY <1>4, <1>5, <1>9, <1>10, Zenon DEF TextBgPixel, Texel

LEMMA LayersShown ==
  ASSUME registers \in OffsetValues, NEW offsets \in [Registers -> [Lines -> Offsets]],
         NEW lines \in SUBSET Lines, NEW y \in lines, NEW values, Resolved(offsets, y, values),
         NEW d, NEW x, NEW mask
  PROVE  Layers(PpuWith(d, offsets, lines), Memory, x, y, mask)
           = LayersWith(d, mask, x, y, values)
<1>1. PICK q : q = PpuWith(d, offsets, lines)
  OBVIOUS
<1>2. q.bgcnt = d.bgcnt /\ q.bgOn = d.bgOn
  <2>1. StartsFrom(Ppu0(d), d)
    BY Ppu0Starts
  <2> QED  BY <1>1, <2>1 DEF PpuWith, StartsFrom
<1>3. [bg \in Bgs |-> TextBgPixel(q, bg, x, y, Memory)]
         = [bg \in Bgs |-> Texel(d.bgcnt[bg], x, y, values[<<"hofs", bg>>],
                                 values[<<"vofs", bg>>])]
  <2>1. Shows(q, d, x, y, values)
    BY <1>1, TexelsShown
  <2> QED  BY <2>1 DEF Shows
<1> QED  BY <1>1, <1>2, <1>3 DEF Layers, LayersWith

\* A line drawn by itself.
LEMMA LineShown ==
  ASSUME registers \in OffsetValues, raster \in [Registers -> [Lines -> Offsets]],
         display.mode = 0, NEW y \in Lines, NEW values, Resolved(raster, y, values)
  PROVE  RenderMode0Scanline(PpuOfLine(raster, y), y, Memory) = LineWith(y, values)
<1>1. PpuOfLine(raster, y).mode = 0
  <2>1. StartsFrom(Ppu0(display), display)
    BY Ppu0Starts
  <2> QED  BY <2>1 DEF PpuOfLine, PpuWith, StartsFrom
<1>2. \A x \in 0..(Width - 1) :
        Layers(PpuOfLine(raster, y), Memory, x, y, WinMaskAll)
          = LayersWith(display, WinMaskAll, x, y, values)
  BY LayersShown DEF PpuOfLine
<1> QED  BY <1>1, <1>2 DEF RenderMode0Scanline, LineWith

\* Without an object there is nothing in front of the frame.
LEMMA NoObjects ==
  ASSUME NEW ppu, NEW frame, NEW p \in Pixels,
         \A i \in DOMAIN Memory.oam : ~Renderable(Memory.oam[i])
  PROVE  RenderObjs(ppu, Memory, frame)[p] = frame[p]
<1>1. {i \in DOMAIN Memory.oam :
         /\ Renderable(Memory.oam[i])
         /\ ObjPixel(ppu.obj1d, Memory, Memory.oam[i], p[1], p[2]) # <<>>} = {}
  OBVIOUS
<1>2. ObjOrder(Memory.oam, {}) = <<>>
  <2>1. Cardinality({}) = 0
    BY FS_EmptySet
  <2> QED  BY <2>1 DEF ObjOrder, Sorted
<1> QED  BY <1>1, <1>2 DEF RenderObjs

\* The whole frame, where it shows no more than the line renderer can.
LEMMA FrameShown ==
  ASSUME registers \in OffsetValues, whole \in [Registers -> [Lines -> Offsets]],
         SupportsScanlineRenderer(display, Memory.oam),
         NEW p \in Pixels, NEW values, Resolved(whole, p[2], values)
  PROVE  WholeFrame(display)[p] = LineWith(p[2], values)[p[1]]
<1>1. PICK ppu : ppu = WholePpu(display)
  OBVIOUS
<1>2. /\ ppu.mode = 0 /\ ppu.windows = {} /\ ~ppu.objWindow /\ ppu.bld.top = {}
      /\ ppu.objOn = display.objOn
  <2>1. StartsFrom(Ppu0(display), display)
    BY Ppu0Starts
  <2> QED  BY <1>1, <2>1 DEF WholePpu, PpuWith, StartsFrom, SupportsScanlineRenderer
<1>3. p[1] \in 0..(Width - 1) /\ p[2] \in Lines
  BY DEF Pixels, Lines
<1>4. Layers(ppu, Memory, p[1], p[2], WinMaskAll)
        = LayersWith(display, WinMaskAll, p[1], p[2], values)
  BY <1>1, <1>3, LayersShown DEF WholePpu
<1>5. RenderMode0(ppu, Memory)[p] = LineWith(p[2], values)[p[1]]
  <2>1. ~WindowsEnabled(ppu) /\ WinLayerEffect \in WinMaskAll
    BY <1>2 DEF WindowsEnabled, WinLayerEffect, WinMaskAll
  <2>2. RenderMode0(ppu, Memory)[p]
          = ApplyBlend(ppu, LayersWith(display, WinMaskAll, p[1], p[2], values))
    BY <1>4, <2>1 DEF RenderMode0
  <2> QED  BY <1>2, <1>3, <2>2 DEF ApplyBlend, LineWith
<1>6. RenderFrame(ppu, Memory)[p] = RenderMode0(ppu, Memory)[p]
  <2>1. CASE display.objOn
    <3>1. \A i \in DOMAIN Memory.oam : ~Renderable(Memory.oam[i])
      BY <2>1 DEF SupportsScanlineRenderer
    <3> QED  BY <1>2, <2>1, <3>1, NoObjects DEF RenderFrame
  <2>2. CASE ~display.objOn
    BY <1>2, <2>2 DEF RenderFrame
  <2> QED  BY <2>1, <2>2
<1> QED  BY <1>1, <1>5, <1>6 DEF WholeFrame

-----------------------------------------------------------------------------
(* Pictures: a second invariant, on top of IInv.                           *)

\* The registers that no handler writes keep their first value.
OthersZero ==
  \A r \in Registers \ HandlerWrites :
    registers[r] = 0 /\ \A y \in Lines : raster[r][y] = 0 /\ whole[r][y] = 0

\* A line was served all offsets its handler writes; these, and zeros.
Full(y) == HandlerWrites \subseteq DOMAIN served[y]
Given(y) == [r \in Registers |-> IF r \in DOMAIN served[y] THEN served[y][r] ELSE 0]
LineServed(y) == LineWith(y, Given(y))

\* The frame's line has been drawn; the frame's lines have been published.
Past(y) ==
  /\ clock.vcount < TotalLines - 1
  /\ y < clock.vcount \/ (y = clock.vcount /\ clock.pc \in {"enter", "wait", "next"})
Published == clock.vcount \in Height..(TotalLines - 2)

LinesDrawn ==
  display.mode = 0 => \A y \in Lines : Past(y) /\ Full(y) => work[y] = LineServed(y)
FramePublished ==
  display.mode = 0 /\ Published /\ (\A y \in Lines : Full(y)) =>
    \A y \in Lines : published[y] = LineServed(y)

PictureInv == DOMAIN work = Lines /\ OthersZero /\ LinesDrawn /\ FramePublished

\* What a line was served is what its offsets stand for: in the raster,
LEMMA RasterResolved ==
  ASSUME IInv, OthersZero, NEW y \in Lines, Full(y)
  PROVE  Resolved(raster, y, Given(y))
<1> SUFFICES ASSUME NEW r \in Registers
             PROVE  Given(y)[r] = IF r \in active THEN raster[r][y] ELSE registers[r]
  BY DEF Resolved
<1>1. CASE r \in DOMAIN served[y]
  BY <1>1 DEF IInv, ServedInRaster, Given
<1>2. CASE r \notin DOMAIN served[y]
  BY <1>2 DEF Full, Given, OthersZero
<1> QED  BY <1>1, <1>2

\* and in VBLANK in the whole frame's copy.
LEMMA WholeResolved ==
  ASSUME IInv, OthersZero, InVblank, NEW y \in Lines, Full(y)
  PROVE  Resolved(whole, y, Given(y))
<1> SUFFICES ASSUME NEW r \in Registers
             PROVE  Given(y)[r] = IF r \in active THEN whole[r][y] ELSE registers[r]
  BY DEF Resolved
<1>1. CASE r \in DOMAIN served[y]
  BY <1>1 DEF IInv, ServedInWhole, Given
<1>2. CASE r \notin DOMAIN served[y]
  BY <1>2 DEF Full, Given, OthersZero
<1> QED  BY <1>1, <1>2

\* A line that was served something was found to be needed.
LEMMA ServedNeeds ==
  ASSUME IInv, HandlerWrites # {}, clock.pc # "choose", clock.vcount \in Lines,
         Full(clock.vcount)
  PROVE  clock.needs
BY DEF IInv, NeedsServed, Full

LEMMA SameServed ==
  ASSUME display' = display, NEW y \in Lines, served'[y] = served[y]
  PROVE  LineServed(y)' = LineServed(y)
BY DEF LineServed, LineWith, LayersWith, Given

\* A step that draws and publishes nothing keeps the pictures, if it serves no line
\* that was drawn.
LEMMA PicturesKept ==
  ASSUME LinesDrawn, FramePublished, UNCHANGED <<display, work, published>>,
         \A y \in Lines : Past(y)' /\ Full(y)' => Past(y) /\ served'[y] = served[y],
         Published' /\ (\A y \in Lines : Full(y)') =>
           Published /\ \A y \in Lines : served'[y] = served[y]
  PROVE  LinesDrawn' /\ FramePublished'
<1>1. ASSUME NEW y \in Lines, served'[y] = served[y]
      PROVE  LineServed(y)' = LineServed(y) /\ Full(y)' = Full(y)
  BY <1>1, SameServed DEF Full
<1>2. ASSUME display'.mode = 0, NEW y \in Lines, Past(y)', Full(y)'
      PROVE  work'[y] = LineServed(y)'
  BY <1>1, <1>2 DEF LinesDrawn
<1>3. ASSUME display'.mode = 0, Published', \A y \in Lines : Full(y)', NEW y \in Lines
      PROVE  published'[y] = LineServed(y)'
  BY <1>1, <1>3 DEF FramePublished
<1> QED  BY <1>2, <1>3 DEF LinesDrawn, FramePublished

LEMMA PicturesInit == Init => PictureInv
<1> SUFFICES ASSUME Init PROVE PictureInv
  OBVIOUS
<1>1. DOMAIN work = Lines
  BY DEF Init, Blank
<1>2. OthersZero
  BY DEF Init, OthersZero, ZeroRaster
<1>3. clock.vcount = 0 /\ clock.pc = "choose"
  BY DEF Init
<1> QED  BY <1>1, <1>2, <1>3, Geometry DEF PictureInv, LinesDrawn, FramePublished,
       Past, Published, Lines

\* A handler leaves the registers that it does not write as they are.
LEMMA OthersComplete ==
  ASSUME IInv, OthersZero, NEW dirty \in SUBSET Registers, NEW values \in HandlerValues,
         NEW own, Complete(dirty, values, own)
  PROVE  OthersZero'
<1>1. \A r \in Registers \ HandlerWrites : values[r] = 0
  BY DEF HandlerValues, OthersZero
<1>2. /\ registers' = [r \in Registers |-> IF r \in dirty THEN values[r] ELSE registers[r]]
      /\ raster' = [r \in Registers |-> [y \in Lines |->
                      IF r \in dirty /\ y \in TargetLine(hblank.latch) THEN values[r]
                      ELSE raster[r][y]]]
      /\ whole' = whole
  BY DEF Complete
<1> QED  BY <1>1, <1>2 DEF OthersZero

LEMMA StartPictures == ASSUME IInv, PictureInv, StartLine PROVE PictureInv'
<1> DEFINE n == clock.vcount
<1>1. /\ clock.pc = "start" /\ clock' = [clock EXCEPT !.pc = "draw"]
      /\ whole' = IF n = Height THEN raster ELSE whole
      /\ raster' = IF n \in Lines
                   THEN [r \in Registers |->
                          IF r \in active THEN raster[r]
                          ELSE [raster[r] EXCEPT ![n] = registers[r]]]
                   ELSE raster
      /\ served' = IF n = TotalLines - 1 THEN Unserved ELSE served
      /\ UNCHANGED <<display, registers, work, published>>
  BY DEF StartLine, ClockTo, Copied
<1>2. clock'.pc = "draw" /\ clock'.vcount = n /\ n \in Counts
  BY <1>1 DEF IInv, OffsetTypes
<1>3. raster \in Rasters
  BY DEF IInv, OffsetTypes, Rasters
<1>4. OthersZero'
  BY <1>1, <1>3 DEF PictureInv, OthersZero, Rasters
<1>5. \A y \in Lines : Past(y)' => Past(y) /\ served' = served
  BY <1>1, <1>2, Geometry DEF Past
<1>6. Published' => Published /\ served' = served
  BY <1>1, <1>2, Geometry DEF Published
<1>7. LinesDrawn' /\ FramePublished'
  BY <1>1, <1>5, <1>6, PicturesKept DEF PictureInv
<1> QED  BY <1>1, <1>4, <1>7 DEF PictureInv

LEMMA DrawPictures ==
  ASSUME IInv, PictureInv, HandlerWrites # {}, Draw PROVE PictureInv'
<1> DEFINE n == clock.vcount
<1>1. /\ clock.pc = "draw" /\ clock' = [clock EXCEPT !.pc = "enter"]
      /\ work' = IF n \in Lines /\ clock.needs
                 THEN [work EXCEPT ![n] =
                         RenderMode0Scanline(PpuOfLine(raster, n), n, Memory)]
                 ELSE work
      /\ UNCHANGED <<display, registers, raster, whole, published, served>>
  BY DEF Draw, ClockTo
<1>2. clock'.pc = "enter" /\ clock'.vcount = n /\ n \in Counts
  BY <1>1 DEF IInv, OffsetTypes
<1>3. DOMAIN work' = Lines /\ OthersZero'
  BY <1>1 DEF PictureInv, OthersZero
<1>4. ASSUME NEW y \in Lines
      PROVE  LineServed(y)' = LineServed(y) /\ Full(y)' = Full(y)
  BY <1>1, SameServed DEF Full
<1>5. ASSUME display.mode = 0, NEW y \in Lines, Past(y)', Full(y)
      PROVE  work'[y] = LineServed(y)
  <2>1. CASE y = n
    <3>1. clock.needs
      BY <1>1, <1>5, <2>1, ServedNeeds
    <3>2. work'[y] = RenderMode0Scanline(PpuOfLine(raster, y), y, Memory)
      BY <1>1, <2>1, <3>1 DEF PictureInv
    <3>3. Resolved(raster, y, Given(y))
      BY <1>5, RasterResolved DEF PictureInv
    <3> QED  BY <1>5, <3>2, <3>3, LineShown DEF LineServed, IInv, OffsetTypes
  <2>2. CASE y # n
    <3>1. Past(y) /\ work'[y] = work[y]
      BY <1>1, <1>2, <1>5, <2>2 DEF Past, PictureInv
    <3> QED  BY <1>5, <3>1 DEF PictureInv, LinesDrawn
  <2> QED  BY <2>1, <2>2
<1>6. LinesDrawn'
  BY <1>1, <1>4, <1>5 DEF LinesDrawn
<1>7. FramePublished'
  BY <1>1, <1>2, <1>4 DEF PictureInv, FramePublished, Published
<1> QED  BY <1>3, <1>6, <1>7 DEF PictureInv

LEMMA NextPictures ==
  ASSUME IInv, PictureInv, HandlerWrites # {}, NextLine PROVE PictureInv'
<1> DEFINE n == clock.vcount
<1>1. /\ clock.pc = "next"
      /\ clock' = [clock EXCEPT !.pc = "choose", !.vcount = NextCount(@)]
      /\ published' = IF clock'.vcount = Height /\ clock.needs THEN work ELSE published
      /\ UNCHANGED <<display, registers, raster, whole, work, served>>
  BY DEF NextLine
<1>2. /\ clock'.pc = "choose" /\ n \in Counts
      /\ clock'.vcount = IF n = TotalLines - 1 THEN 0 ELSE n + 1
  <2>1. n \in Counts
    BY DEF IInv, OffsetTypes
  <2>2. NextCount(n) = IF n = TotalLines - 1 THEN 0 ELSE n + 1
    BY <2>1, Geometry DEF NextCount, Counts
  <2>3. clock'.pc = "choose" /\ clock'.vcount = NextCount(n)
    BY <1>1 DEF IInv, OffsetTypes
  <2> QED  BY <2>1, <2>2, <2>3
<1>3. OthersZero'
  BY <1>1 DEF PictureInv, OthersZero
<1>4. ASSUME NEW y \in Lines
      PROVE  /\ LineServed(y)' = LineServed(y) /\ Full(y)' = Full(y)
             /\ Past(y)' => Past(y)
  <2>1. Past(y)' => Past(y)
    BY <1>1, <1>2, Geometry DEF Past, Lines, Counts
  <2> QED  BY <1>1, <2>1, SameServed DEF Full
<1>5. LinesDrawn'
  BY <1>1, <1>4 DEF PictureInv, LinesDrawn
<1>6. ASSUME display.mode = 0, Published', \A y \in Lines : Full(y), NEW y \in Lines
      PROVE  published'[y] = LineServed(y)
  <2>1. CASE n = Height - 1
    <3>1. n \in Lines /\ clock'.vcount = Height /\ Past(y)
      BY <1>1, <1>2, <2>1, Geometry DEF Lines, Past
    <3>2. clock.needs
      BY <1>1, <1>6, <3>1, ServedNeeds
    <3> QED  BY <1>1, <1>6, <3>1, <3>2 DEF PictureInv, LinesDrawn
  <2>2. CASE n # Height - 1
    <3>1. Published /\ published' = published
      BY <1>1, <1>2, <1>6, <2>2, Geometry DEF Published, Counts
    <3> QED  BY <1>6, <3>1 DEF PictureInv, FramePublished
  <2> QED  BY <2>1, <2>2
<1>7. FramePublished'
  BY <1>1, <1>4, <1>6 DEF FramePublished
<1> QED  BY <1>1, <1>3, <1>5, <1>7 DEF PictureInv

\* An answer in time serves the line after the clock's.
LEMMA AnswerPictures ==
  ASSUME IInv, PictureInv, HandlerWrites # {}, Answer PROVE PictureInv'
<1>1. PICK values \in HandlerValues, dirty \in SUBSET Registers, own \in BOOLEAN :
        Complete(dirty, values, own)
  <2>1. PICK values \in HandlerValues, dirty \in (SUBSET HandlerWrites) \cup {Registers},
             own \in {TRUE, ~hblank.late} : Complete(dirty, values, own)
    BY DEF Answer
  <2>2. dirty \in SUBSET Registers /\ own \in BOOLEAN
    BY <2>1, RasterAssumption
  <2> QED  BY <2>1, <2>2
<1>2. /\ clock.pc = "wait" /\ clock' = [clock EXCEPT !.pc = "next"]
      /\ UNCHANGED <<display, work, published>>
  BY <1>1 DEF Answer, ClockTo, Complete
<1>3. clock'.pc = "next" /\ clock'.vcount = clock.vcount
      /\ clock.vcount \in Lines \cup {TotalLines - 1}
  BY <1>2 DEF IInv, OffsetTypes, Requested
<1>4. \A y \in Lines : \/ served'[y] = served[y] \/ served'[y] = <<>>
                       \/ y = (clock.vcount + 1) % TotalLines
  <2>1. values \in OffsetValues
    BY HandlerValuesTyped DEF IInv, OffsetTypes
  <2> QED  BY <1>1, <1>2, <2>1, CompleteKeeps
<1>5. ASSUME NEW y \in Lines, Past(y)', Full(y)'
      PROVE  Past(y) /\ served'[y] = served[y]
  <2>1. Past(y)
    BY <1>2, <1>3, <1>5 DEF Past
  <2>2. y # (clock.vcount + 1) % TotalLines
    <3>1. clock.vcount \in Nat /\ clock.vcount + 1 < TotalLines /\ y <= clock.vcount
      BY <1>3, <2>1, Geometry DEF Past, Lines
    <3> QED  BY <3>1, Geometry DEF Lines
  <2>3. served'[y] # <<>>
    BY <1>5 DEF Full
  <2> QED  BY <1>4, <2>1, <2>2, <2>3
<1>6. ~Published'
  BY <1>3, Geometry DEF Published, Lines
<1>7. LinesDrawn' /\ FramePublished'
  BY <1>2, <1>5, <1>6, PicturesKept DEF PictureInv
<1>8. OthersZero'
  BY <1>1, OthersComplete DEF PictureInv
<1> QED  BY <1>2, <1>7, <1>8 DEF PictureInv

LEMMA LatePictures ==
  ASSUME IInv, PictureInv, HandlerWrites # {}, LateExit PROVE PictureInv'
<1>1. PICK values \in HandlerValues : Complete(Registers, values, FALSE)
  BY DEF LateExit
<1>2. UNCHANGED <<display, work, published, clock>>
  BY <1>1 DEF LateExit, Complete
<1>3. \A y \in Lines : served'[y] = served[y] \/ served'[y] = <<>>
  <2>1. values \in OffsetValues
    BY HandlerValuesTyped DEF IInv, OffsetTypes
  <2> QED  BY <1>1, <2>1, CompleteKeeps
<1>4. \A y \in Lines : Full(y)' => served'[y] = served[y]
  BY <1>3 DEF Full
<1>5. LinesDrawn' /\ FramePublished'
  BY <1>2, <1>4, PicturesKept DEF PictureInv, Past, Published
<1>6. OthersZero'
  BY <1>1, OthersComplete DEF PictureInv
<1> QED  BY <1>2, <1>5, <1>6 DEF PictureInv

\* A step that takes no part in offsets or pictures, and that takes the clock no
\* further than before.
LEMMA PicturesAside ==
  ASSUME PictureInv, UNCHANGED <<display, raster, whole, work, published, served>>,
         \A r \in Registers \ HandlerWrites : registers'[r] = registers[r],
         clock'.vcount = clock.vcount,
         clock'.pc \in {"enter", "wait", "next"} => clock.pc \in {"enter", "wait", "next"}
  PROVE  PictureInv'
<1>1. LinesDrawn' /\ FramePublished'
  BY PicturesKept DEF PictureInv, Past, Published
<1> QED  BY <1>1 DEF PictureInv, OthersZero

LEMMA PicturesInductive ==
  ASSUME HandlerWrites # {}, IInv, PictureInv, [Next]_vars
  PROVE  PictureInv'
<1>1. clock = [pc |-> clock.pc, vcount |-> clock.vcount, needs |-> clock.needs]
  BY DEF IInv, OffsetTypes
<1>2. CASE ChooseRenderer
  BY <1>1, <1>2, PicturesAside DEF ChooseRenderer
<1>3. CASE EnterHblank
  <2>1. PICK pc : clock' = [clock EXCEPT !.pc = pc]
    BY <1>3 DEF EnterHblank, ClockTo
  <2> QED  BY <1>1, <1>3, <2>1, PicturesAside DEF EnterHblank
<1>4. CASE Miss
  BY <1>1, <1>4, PicturesAside DEF Miss, ClockTo
<1>5. CASE AckHblank \/ ToggleHblank
  BY <1>5, PicturesAside DEF AckHblank, ToggleHblank
<1>6. CASE WriteOffset
  <2>1. PICK r \in HandlerWrites, v \in Offsets : registers' = [registers EXCEPT ![r] = v]
    BY <1>6 DEF WriteOffset
  <2>2. \A q \in Registers \ HandlerWrites : registers'[q] = registers[q]
    BY <2>1 DEF IInv, OffsetTypes, OffsetValues
  <2> QED  BY <1>6, <2>2, PicturesAside DEF WriteOffset
<1>7. CASE UNCHANGED vars
  BY <1>7, PicturesAside DEF vars
<1> QED
  BY <1>2, <1>3, <1>4, <1>5, <1>6, <1>7, StartPictures, DrawPictures, NextPictures,
     AnswerPictures, LatePictures DEF Next

\* When every line of a frame was served, the whole frame that render_frame would
\* draw in VBLANK is the very one that the line renderer published, if that leaves
\* nothing out: the switch between the renderers does not show.  For some handler:
\* a line of which no offset is written is served nothing, drawn or not.
THEOREM RenderersAgree ==
  ASSUME HandlerWrites # {}
  PROVE  Spec => []FrameAgreesWithLines
<1>1. IInv /\ PictureInv => FrameAgreesWithLines
  <2> SUFFICES ASSUME IInv, PictureInv, InVblank, \A y \in Lines : Full(y),
                      SupportsScanlineRenderer(display, Memory.oam), NEW p \in Pixels
               PROVE  WholeFrame(display)[p] = published[p[2]][p[1]]
    BY DEF FrameAgreesWithLines, Full
  <2>1. p[2] \in Lines
    BY DEF Pixels, Lines
  <2>2. Resolved(whole, p[2], Given(p[2]))
    BY <2>1, WholeResolved DEF PictureInv
  <2>3. WholeFrame(display)[p] = LineServed(p[2])[p[1]]
    BY <2>2, FrameShown DEF IInv, OffsetTypes, LineServed
  <2>4. display.mode = 0 /\ Published
    BY Geometry DEF SupportsScanlineRenderer, InVblank, Published
  <2> QED  BY <2>1, <2>3, <2>4 DEF PictureInv, FramePublished
<1>2. Init => PictureInv
  BY PicturesInit
<1>3. IInv /\ PictureInv /\ [Next]_vars => PictureInv'
  BY PicturesInductive
<1> QED  BY <1>1, <1>2, <1>3, Invariance, PTL DEF Spec

-----------------------------------------------------------------------------
(* What is sorted: as many elements are before each as its place says.     *)

\* A relation puts the elements of a set in order.
Orders(R, S) ==
  /\ \A a \in S : <<a, a>> \notin R
  /\ \A a, b \in S : a = b \/ <<a, b>> \in R \/ <<b, a>> \in R
  /\ \A a, b, c \in S : <<a, b>> \in R /\ <<b, c>> \in R => <<a, c>> \in R

Less(R, S, a) == {b \in S : <<b, a>> \in R}
Rank(R, S, a) == Cardinality(Less(R, S, a))

LEMMA RankTyped ==
  ASSUME NEW S, IsFiniteSet(S), NEW R, Orders(R, S), NEW a \in S
  PROVE  /\ Cardinality(S) \in Nat /\ Rank(R, S, a) \in 0..(Cardinality(S) - 1)
         /\ IsFiniteSet(Less(R, S, a))
<1>1. Less(R, S, a) \subseteq S /\ a \notin Less(R, S, a)
  BY DEF Less, Orders
<1>2. IsFiniteSet(Less(R, S, a))
  BY <1>1, FS_Subset
<1>3. Cardinality(S) \in Nat /\ Rank(R, S, a) \in Nat
  BY <1>2, FS_CardinalityType DEF Rank
<1>4. Rank(R, S, a) < Cardinality(S)
  BY <1>1, <1>3, FS_Subset DEF Rank
<1> QED  BY <1>2, <1>3, <1>4

\* Fewer elements are before the one that is before the other.
LEMMA RankGrows ==
  ASSUME NEW S, IsFiniteSet(S), NEW R, Orders(R, S), NEW a \in S, NEW b \in S, <<a, b>> \in R
  PROVE  Rank(R, S, a) < Rank(R, S, b)
<1>1. Less(R, S, a) \subseteq Less(R, S, b) /\ a \in Less(R, S, b) /\ a \notin Less(R, S, a)
  BY DEF Less, Orders
<1>2. IsFiniteSet(Less(R, S, b)) /\ Rank(R, S, a) \in Nat /\ Rank(R, S, b) \in Nat
  BY RankTyped
<1> QED  BY <1>1, <1>2, FS_Subset DEF Rank

\* Each rank is that of an element.
LEMMA RanksTaken ==
  ASSUME NEW S, IsFiniteSet(S), NEW R, Orders(R, S), NEW n \in 0..(Cardinality(S) - 1)
  PROVE  \E a \in S : Rank(R, S, a) = n
<1> DEFINE m == Cardinality(S)
           T == 0..(m - 1)
           f == [a \in S |-> Rank(R, S, a)]
<1>1. m \in Nat
  BY FS_CardinalityType
<1>2. f \in [S -> T]
  BY RankTyped
<1>3. \A a, b \in S : f[a] = f[b] => a = b
  <2> SUFFICES ASSUME NEW a \in S, NEW b \in S, f[a] = f[b], a # b PROVE FALSE
    OBVIOUS
  <2>1. f[a] \in Nat /\ f[b] \in Nat /\ f[a] = Rank(R, S, a) /\ f[b] = Rank(R, S, b)
    BY RankTyped
  <2>2. CASE <<a, b>> \in R
    BY <2>1, <2>2, RankGrows
  <2>3. CASE <<b, a>> \in R
    BY <2>1, <2>3, RankGrows
  <2> QED  BY <2>2, <2>3 DEF Orders
<1>4. f \in Injection(S, T)
  BY <1>2, <1>3 DEF Injection, IsInjective
<1>5. IsFiniteSet(T) /\ Cardinality(T) = m
  BY <1>1, FS_Interval
<1>6. f \in Surjection(S, T)
  BY <1>4, <1>5, FS_Injection
<1>7. \A t \in T : \E a \in S : f[a] = t
  BY <1>6 DEF Surjection
<1> QED  BY <1>7

\* What is sorted has the elements of the set: the first is before the others, the
\* last is after them.
LEMMA SortedElements ==
  ASSUME NEW S, IsFiniteSet(S), NEW R, Orders(R, S)
  PROVE  /\ Cardinality(S) \in Nat
         /\ Sorted(S, R) \in [1..Cardinality(S) -> S]
         /\ Cardinality(S) = 0 => S = {}
         /\ Cardinality(S) > 0 =>
              /\ \A b \in S : b = Sorted(S, R)[1] \/ <<Sorted(S, R)[1], b>> \in R
              /\ \A b \in S : \/ b = Sorted(S, R)[Cardinality(S)]
                              \/ <<b, Sorted(S, R)[Cardinality(S)]>> \in R
<1> DEFINE m == Cardinality(S)
           s == Sorted(S, R)
<1>1. m \in Nat /\ (m = 0 => S = {})
  BY FS_CardinalityType, FS_EmptySet
<1>2. ASSUME NEW n \in 1..m PROVE s[n] \in S /\ Rank(R, S, s[n]) = n - 1
  <2>1. \E a \in S : Rank(R, S, a) = n - 1
    BY <1>1, RanksTaken
  <2>2. s[n] = CHOOSE a \in S : Rank(R, S, a) = n - 1
    BY DEF Sorted, Rank, Less
  <2> QED  BY <2>1, <2>2
<1>3. s \in [1..m -> S]
  BY <1>2 DEF Sorted
<1>4. ASSUME m > 0, NEW b \in S PROVE b = s[1] \/ <<s[1], b>> \in R
  <2>1. s[1] \in S /\ Rank(R, S, s[1]) = 0
    BY <1>1, <1>2, <1>4
  <2>2. ~(<<b, s[1]>> \in R)
    BY <2>1, RankGrows, RankTyped
  <2> QED  BY <2>1, <2>2 DEF Orders
<1>5. ASSUME m > 0, NEW b \in S PROVE b = s[m] \/ <<b, s[m]>> \in R
  <2>1. s[m] \in S /\ Rank(R, S, s[m]) = m - 1
    BY <1>1, <1>2, <1>5
  <2>2. ~(<<s[m], b>> \in R)
    <3> SUFFICES ASSUME <<s[m], b>> \in R PROVE FALSE
      OBVIOUS
    <3>1. Rank(R, S, b) > m - 1
      BY <2>1, RankGrows
    <3>2. Rank(R, S, b) \in 0..(m - 1)
      BY RankTyped
    <3> QED  BY <1>1, <3>1, <3>2
  <2> QED  BY <2>1, <2>2 DEF Orders
<1> QED  BY <1>1, <1>3, <1>4, <1>5

FirstInFront(entries, S, s) ==
  /\ Len(s) \in Nat /\ s \in [1..Len(s) -> S]
  /\ Len(s) = 0 => S = {}
  /\ Len(s) > 0 => \A b \in S :
       \/ entries[s[1]].prio < entries[b].prio
       \/ entries[s[1]].prio = entries[b].prio /\ s[1] <= b

\* The backgrounds: the first is in front of the others.
LEMMA BgOrder ==
  ASSUME NEW bgcnt, \A bg \in Bgs : bgcnt[bg].prio \in 0..3, NEW bgs \in SUBSET Bgs
  PROVE  FirstInFront(bgcnt, bgs, SortedBgOrder(bgcnt, bgs))
<1>0. PICK s : s = SortedBgOrder(bgcnt, bgs)
  OBVIOUS
<1> DEFINE R == {ab \in bgs \X bgs :
                   \/ bgcnt[ab[1]].prio < bgcnt[ab[2]].prio
                   \/ bgcnt[ab[1]].prio = bgcnt[ab[2]].prio /\ ab[1] < ab[2]}
<1>1. IsFiniteSet(bgs)
  <2>1. IsFiniteSet(Bgs)
    <3>1. 0 \in Int /\ 3 \in Int
      OBVIOUS
    <3> QED  BY <3>1, FS_Interval DEF Bgs
  <2> QED  BY <2>1, FS_Subset
<1>2. \A a, b \in bgs : <<a, b>> \in R <=>
        bgcnt[a].prio < bgcnt[b].prio \/ (bgcnt[a].prio = bgcnt[b].prio /\ a < b)
  <2> TAKE a, b \in bgs
  <2>1. <<a, b>> \in bgs \X bgs /\ <<a, b>>[1] = a /\ <<a, b>>[2] = b
    OBVIOUS
  <2> QED  BY <2>1, Zenon
<1>3. \A a \in bgs : a \in Int /\ bgcnt[a].prio \in Int
  BY DEF Bgs
<1>4. s = Sorted(bgs, R)
  BY <1>0 DEF SortedBgOrder
<1> HIDE DEF R
<1>5. Orders(R, bgs)
  BY <1>2, <1>3 DEF Orders
<1>6. /\ Cardinality(bgs) \in Nat /\ s \in [1..Cardinality(bgs) -> bgs]
      /\ Cardinality(bgs) = 0 => bgs = {}
      /\ Cardinality(bgs) > 0 => \A b \in bgs : b = s[1] \/ <<s[1], b>> \in R
  BY <1>1, <1>4, <1>5, SortedElements
<1>7. Len(s) = Cardinality(bgs)
  BY <1>6
<1>8. ASSUME Len(s) > 0, NEW b \in bgs
      PROVE  \/ bgcnt[s[1]].prio < bgcnt[b].prio
             \/ bgcnt[s[1]].prio = bgcnt[b].prio /\ s[1] <= b
  <2>1. s[1] \in bgs
    BY <1>6, <1>7, <1>8
  <2>2. CASE b = s[1]
    BY <1>3, <2>1, <2>2
  <2>3. CASE <<s[1], b>> \in R
    BY <1>2, <1>3, <2>1, <2>3
  <2> QED  BY <1>6, <1>7, <1>8, <2>2, <2>3
<1>9. FirstInFront(bgcnt, bgs, s)
  BY <1>6, <1>7, <1>8 DEF FirstInFront
<1> QED  BY <1>0, <1>9

LastInFront(entries, S, s) ==
  /\ Len(s) \in Nat /\ s \in [1..Len(s) -> S]
  /\ Len(s) = 0 => S = {}
  /\ Len(s) > 0 => \A b \in S :
       \/ entries[s[Len(s)]].prio < entries[b].prio
       \/ entries[s[Len(s)]].prio = entries[b].prio /\ s[Len(s)] <= b

\* The objects: the last is in front of the others.
LEMMA ObjectOrder ==
  ASSUME NEW oam, NEW objs, IsFiniteSet(objs), objs \subseteq Int,
         \A i \in objs : oam[i].prio \in 0..3
  PROVE  LastInFront(oam, objs, ObjOrder(oam, objs))
<1>0. PICK s : s = ObjOrder(oam, objs)
  OBVIOUS
<1> DEFINE R == {ab \in objs \X objs :
                   \/ oam[ab[1]].prio > oam[ab[2]].prio
                   \/ oam[ab[1]].prio = oam[ab[2]].prio /\ ab[1] > ab[2]}
<1>2. \A a, b \in objs : <<a, b>> \in R <=>
        oam[a].prio > oam[b].prio \/ (oam[a].prio = oam[b].prio /\ a > b)
  <2> TAKE a, b \in objs
  <2>1. <<a, b>> \in objs \X objs /\ <<a, b>>[1] = a /\ <<a, b>>[2] = b
    OBVIOUS
  <2> QED  BY <2>1, Zenon
<1>4. s = Sorted(objs, R)
  BY <1>0 DEF ObjOrder
<1> HIDE DEF R
<1>3. \A a \in objs : a \in Int /\ oam[a].prio \in Int
  <2>1. 0..3 \subseteq Int
    OBVIOUS
  <2> QED  BY <2>1
<1>5. Orders(R, objs)
  BY <1>2, <1>3 DEF Orders
<1>6. /\ Cardinality(objs) \in Nat /\ s \in [1..Cardinality(objs) -> objs]
      /\ Cardinality(objs) = 0 => objs = {}
      /\ Cardinality(objs) > 0 =>
           \A b \in objs : b = s[Cardinality(objs)] \/ <<b, s[Cardinality(objs)]>> \in R
  BY <1>4, <1>5, SortedElements
<1>7. Len(s) = Cardinality(objs)
  BY <1>6
<1>8. ASSUME Len(s) > 0, NEW b \in objs
      PROVE  \/ oam[s[Len(s)]].prio < oam[b].prio
             \/ oam[s[Len(s)]].prio = oam[b].prio /\ s[Len(s)] <= b
  <2>1. PICK e : e = s[Len(s)]
    OBVIOUS
  <2>2. e \in objs
    BY <1>6, <1>7, <1>8, <2>1
  <2>3. e \in Int /\ b \in Int /\ oam[e].prio \in Int /\ oam[b].prio \in Int
    BY <1>3, <2>2
  <2>4. CASE b = e
    BY <2>1, <2>3, <2>4
  <2>5. CASE <<b, e>> \in R
    <3>1. oam[b].prio > oam[e].prio \/ (oam[b].prio = oam[e].prio /\ b > e)
      BY <1>2, <2>2, <2>5
    <3> QED  BY <2>1, <2>3, <3>1
  <2> QED  BY <1>6, <1>7, <1>8, <2>1, <2>4, <2>5
<1>9. LastInFront(oam, objs, s)
  BY <1>6, <1>7, <1>8 DEF LastInFront
<1> QED  BY <1>0, <1>9

-----------------------------------------------------------------------------
(* The layers of a pixel.                                                  *)

AllColors(layers) ==
  /\ Len(layers) \in Nat \ {0}
  /\ \A i \in 1..Len(layers) : layers[i].color \in Colors

\* The layers of a pixel: the first is the foremost background that shows, or else
\* the backdrop.
FrontOnTop(bgcnt, bgs, pixel, backdrop, layers) ==
  LET shown == {bg \in bgs : pixel[bg] # <<>>}
  IN  /\ AllColors(layers)
      /\ shown = {} => layers[1].color = backdrop
      /\ \A a \in shown :
           (\A b \in shown : \/ bgcnt[a].prio < bgcnt[b].prio
                             \/ bgcnt[a].prio = bgcnt[b].prio /\ a <= b)
           => layers[1].color = pixel[a][1]

LEMMA LayersFacts ==
  ASSUME NEW bgcnt, \A bg \in Bgs : bgcnt[bg].prio \in 0..3, NEW bgs \in SUBSET Bgs,
         NEW pixel, \A bg \in bgs : pixel[bg] # <<>> => pixel[bg][1] \in Colors,
         NEW backdrop \in Colors
  PROVE  FrontOnTop(bgcnt, bgs, pixel, backdrop, LayersOf(bgcnt, bgs, pixel, backdrop))
<1>0. PICK layers, shown : /\ layers = LayersOf(bgcnt, bgs, pixel, backdrop)
                           /\ shown = {bg \in bgs : pixel[bg] # <<>>}
  OBVIOUS
<1>1. PICK s : s = SortedBgOrder(bgcnt, shown)
  OBVIOUS
<1>2. shown \in SUBSET Bgs
  BY <1>0
<1>3. FirstInFront(bgcnt, shown, s)
  BY <1>1, <1>2, BgOrder
<1>3a. Len(s) \in Nat /\ s \in [1..Len(s) -> shown] /\ (Len(s) = 0 => shown = {})
  BY <1>3 DEF FirstInFront
<1> DEFINE Layer == [layer: Bgs \cup {BlendBackdrop}, color: Colors]
<1>4. PICK front : front = [i \in 1..Len(s) |-> [layer |-> s[i], color |-> pixel[s[i]][1]]]
  OBVIOUS
<1>5. PICK back : back = [layer |-> BlendBackdrop, color |-> backdrop]
  OBVIOUS
<1>6. layers = front \o <<back>>
  BY <1>0, <1>1, <1>4, <1>5 DEF LayersOf
<1>7. back \in Layer
  BY <1>5
<1>8. \A i \in 1..Len(s) : front[i] \in Layer
  <2> TAKE i \in 1..Len(s)
  <2>1. s[i] \in shown
    BY <1>3a
  <2>2. s[i] \in Bgs /\ pixel[s[i]][1] \in Colors
    BY <1>0, <2>1
  <2> QED  BY <1>4, <2>2
<1>9. front \in Seq(Layer) /\ Len(front) = Len(s)
  <2>1. front \in [1..Len(s) -> Layer]
    BY <1>4, <1>8
  <2>2. front \in Seq(Layer)
    <3>1. Seq(Layer) = UNION {[1..n -> Layer] : n \in Nat}
      BY SeqDef, Zenon
    <3>2. PICK n \in Nat : front \in [1..n -> Layer]
      BY <1>3a, <2>1, Zenon
    <3> QED  BY <3>1, <3>2, Zenon
  <2>3. DOMAIN front = 1..Len(s)
    BY <1>4
  <2> QED  BY <1>3a, <2>2, <2>3
<1>10. /\ Len(layers) = Len(s) + 1
       /\ \A i \in 1..Len(layers) : layers[i] = IF i <= Len(s) THEN front[i] ELSE back
  BY <1>3a, <1>6, <1>7, <1>9
<1>11. AllColors(layers)
  <2>1. ASSUME NEW i \in 1..Len(layers) PROVE layers[i].color \in Colors
    <3>1. CASE i <= Len(s)
      BY <1>3a, <1>8, <1>10, <3>1
    <3>2. CASE ~(i <= Len(s))
      BY <1>3a, <1>7, <1>10, <3>2
    <3> QED  BY <3>1, <3>2
  <2> QED  BY <1>3a, <1>10, <2>1 DEF AllColors
<1>12. ASSUME shown = {} PROVE layers[1].color = backdrop
  <2>1. Len(s) = 0
    <3>1. Len(s) > 0 => 1 \in 1..Len(s)
      BY <1>3a
    <3>2. Len(s) > 0 => s[1] \in shown
      BY <1>3a, <3>1
    <3> QED  BY <1>3a, <1>12, <3>2
  <2> QED  BY <1>5, <1>10, <2>1
<1>13. ASSUME NEW a \in shown,
              \A b \in shown : \/ bgcnt[a].prio < bgcnt[b].prio
                               \/ bgcnt[a].prio = bgcnt[b].prio /\ a <= b
       PROVE  layers[1].color = pixel[a][1]
  <2>1. Len(s) > 0
    BY <1>3a, <1>13
  <2>2. PICK e : e = s[1]
    OBVIOUS
  <2>3. e \in shown
    BY <1>3a, <2>1, <2>2
  <2>4. \A b \in shown : b \in Int /\ bgcnt[b].prio \in Int
    BY <1>2 DEF Bgs
  <2>5. e = a
    <3>1. \/ bgcnt[e].prio < bgcnt[a].prio
          \/ bgcnt[e].prio = bgcnt[a].prio /\ e <= a
      BY <1>3, <2>1, <2>2 DEF FirstInFront
    <3>2. \/ bgcnt[a].prio < bgcnt[e].prio
          \/ bgcnt[a].prio = bgcnt[e].prio /\ a <= e
      BY <1>13, <2>3
    <3> QED  BY <2>3, <2>4, <3>1, <3>2
  <2>6. layers[1] = front[1]
    BY <1>3a, <1>10, <2>1
  <2>7. 1 \in 1..Len(s)
    BY <1>3a, <2>1
  <2>8. front[1].color = pixel[s[1]][1]
    BY <1>4, <2>7
  <2> QED  BY <2>2, <2>5, <2>6, <2>8
<1> QED  BY <1>0, <1>11, <1>12, <1>13 DEF FrontOnTop

-----------------------------------------------------------------------------
(* No effect carries a channel beyond its levels.                          *)

LEMMA BlendLevel ==
  ASSUME NEW a \in Levels, NEW b \in Levels, NEW eva \in Nat, NEW evb \in Nat
  PROVE  AtMost((a * eva + b * evb) \div 16, 31) \in Levels
<1>1. a * eva \in Nat /\ b * evb \in Nat
  BY DEF Levels
<1>2. PICK n \in Nat : n = a * eva + b * evb
  BY <1>1
<1>3. n \div 16 \in Nat
  OBVIOUS
<1> QED  BY <1>2, <1>3 DEF AtMost, Levels

\* A part of a distance.
Part(k, e) == (k * e) \div 16

LEMMA PartOf ==
  ASSUME NEW k \in Levels, NEW e \in 0..16
  PROVE  Part(k, e) \in 0..k
<1>1. k * e \in Nat /\ k * e <= k * 16
  BY DEF Levels
<1>2. PICK n \in Nat : n = k * e /\ n <= k * 16
  BY <1>1
<1>3. n \div 16 \in 0..k
  BY <1>2 DEF Levels
<1> QED  BY <1>2, <1>3 DEF Part

LEMMA BlendsTyped ==
  ASSUME NEW top \in Colors, NEW lower \in Colors, NEW eva \in Nat, NEW evb \in Nat,
         NEW evy \in Nat, NEW lighten \in BOOLEAN
  PROVE  AlphaBlend(top, lower, eva, evb) \in Colors
         /\ BrightnessBlend(top, evy, lighten) \in Colors
<1>1. \A c \in Channels : top[c] \in Levels /\ lower[c] \in Levels
  BY DEF Colors
<1>2. AlphaBlend(top, lower, eva, evb) \in Colors
  BY <1>1, BlendLevel DEF AlphaBlend, Colors
<1>3. PICK e \in 0..16 : e = AtMost(evy, 16)
  BY DEF AtMost
<1>4. ASSUME NEW c \in Channels
      PROVE  top[c] + Part(31 - top[c], e) \in Levels /\ top[c] - Part(top[c], e) \in Levels
  <2>1. PICK t \in 0..31 : t = top[c]
    BY <1>1 DEF Levels
  <2>2. Part(31 - t, e) \in 0..(31 - t) /\ Part(t, e) \in 0..t
    <3>1. t \in Levels /\ 31 - t \in Levels
      BY DEF Levels
    <3> QED  BY <3>1, PartOf
  <2>3. t + Part(31 - t, e) \in 0..31 /\ t - Part(t, e) \in 0..31
    BY <2>2
  <2> QED  BY <2>1, <2>3 DEF Levels
<1>5. BrightnessBlend(top, evy, lighten) \in Colors
  <2>1. BrightnessBlend(top, evy, lighten)
          = [c \in Channels |-> IF lighten THEN top[c] + Part(31 - top[c], e)
                                ELSE top[c] - Part(top[c], e)]
    BY <1>3 DEF BrightnessBlend, Part
  <2> QED  BY <1>4, <2>1 DEF Colors
<1> QED  BY <1>2, <1>5

LEMMA ApplyBlendTyped ==
  ASSUME NEW ppu, {ppu.eva, ppu.evb, ppu.evy} \subseteq Nat, NEW layers, AllColors(layers)
  PROVE  /\ ApplyBlend(ppu, layers) \in Colors
         /\ ppu.bld.mode = 0 => ApplyBlend(ppu, layers) = layers[1].color
<1>1. layers[1].color \in Colors /\ (Len(layers) > 1 => layers[2].color \in Colors)
  BY DEF AllColors
<1>2. AtMost(ppu.eva, 16) \in Nat /\ AtMost(ppu.evb, 16) \in Nat /\ ppu.evy \in Nat
  BY DEF AtMost
<1>3. Len(layers) > 1 =>
        AlphaBlend(layers[1].color, layers[2].color, AtMost(ppu.eva, 16), AtMost(ppu.evb, 16))
          \in Colors
  BY <1>1, <1>2, BlendsTyped
<1>4. \A lighten \in BOOLEAN : BrightnessBlend(layers[1].color, ppu.evy, lighten) \in Colors
  BY <1>1, <1>2, BlendsTyped
<1> DEFINE blend == AlphaBlend(layers[1].color, layers[2].color, AtMost(ppu.eva, 16),
                               AtMost(ppu.evb, 16))
           lighter == BrightnessBlend(layers[1].color, ppu.evy, TRUE)
           darker == BrightnessBlend(layers[1].color, ppu.evy, FALSE)
<1>5. ApplyBlend(ppu, layers) =
        IF layers[1].layer \notin ppu.bld.top THEN layers[1].color
        ELSE CASE ppu.bld.mode = 1 ->
                    IF Len(layers) > 1 /\ layers[2].layer \in ppu.bld.lower
                    THEN blend ELSE layers[1].color
               [] ppu.bld.mode = 2 -> lighter
               [] ppu.bld.mode = 3 -> darker
               [] OTHER -> layers[1].color
  BY DEF ApplyBlend
<1>6. lighter \in Colors /\ darker \in Colors
  BY <1>4
<1>7. Len(layers) > 1 => blend \in Colors
  BY <1>3
<1> HIDE DEF blend, lighter, darker
<1>8. CASE ppu.bld.mode = 1
  BY <1>1, <1>5, <1>7, <1>8
<1>9. CASE ppu.bld.mode = 2
  BY <1>1, <1>5, <1>6, <1>9
<1>10. CASE ppu.bld.mode = 3
  BY <1>1, <1>5, <1>6, <1>10
<1>11. CASE ppu.bld.mode \notin {1, 2, 3}
  BY <1>1, <1>5, <1>11
<1> QED  BY <1>5, <1>8, <1>9, <1>10, <1>11

-----------------------------------------------------------------------------
(* What a background shows is a colour of the palette.                     *)

LEMMA Remainder ==
  ASSUME NEW a \in Nat, NEW n \in Nat \ {0}
  PROVE  a % n \in 0..(n - 1)
OBVIOUS

LEMMA Quotient ==
  ASSUME NEW a \in Nat, NEW n \in Nat \ {0}
  PROVE  a \div n \in Nat
OBVIOUS

\* Twice a block is two blocks wide.
LEMMA TwoBlocks ==
  ASSUME NEW n \in Nat \ {0}, NEW a \in 0..(2 * n - 1)
  PROVE  a \div n \in 0..1
<1>1. PICK q \in Nat : q = a \div n
  BY Quotient
<1>2. PICK m \in 0..(n - 1) : m = a % n
  BY Remainder
<1>3. a = n * q + m
  BY <1>1, <1>2
<1>4. q < 2
  <2> SUFFICES ASSUME q >= 2 PROVE FALSE
    BY <1>1
  <2>1. PICK k \in Nat : q = k + 2
    <3>1. q - 2 \in Nat
      OBVIOUS
    <3> QED  BY <3>1
  <2>2. n * q = n * k + 2 * n /\ n * k \in Nat
    BY <2>1
  <2> QED  BY <1>2, <1>3, <2>2
<1> QED  BY <1>1, <1>4

LEMMA Sizes ==
  /\ TileSize \in Nat \ {0} /\ BlockTiles \in Nat \ {0} /\ BlockSize \in Nat \ {0}
  /\ OffsetRange \in Nat \ {0}
<1>1. TileSize \in Nat \ {0} /\ BlockTiles \in Nat \ {0}
  BY ScreenAssumption
<1>2. BlockSize \in Nat \ {0}
  BY <1>1 DEF BlockSize
<1> QED  BY <1>1, <1>2 DEF OffsetRange

\* A background has four screen blocks at most.
LEMMA ScreenBlockTyped ==
  ASSUME NEW w \in Nat, NEW x \in 0..(2 * BlockSize - 1), NEW y \in Nat
  PROVE  ScreenBlock(w > BlockSize, x, y) \in 0..3
<1>1. PICK column \in 0..1 : column = x \div BlockSize
  BY Sizes, TwoBlocks
<1>2. PICK lower \in BOOLEAN, wide \in BOOLEAN :
        (lower <=> y >= BlockSize) /\ (wide <=> w > BlockSize)
  OBVIOUS
<1>3. ScreenBlock(w > BlockSize, x, y) = CASE ~wide /\ ~lower -> 0
                                           [] wide /\ ~lower -> column
                                           [] ~wide /\ lower -> 1
                                           [] OTHER -> 2 + column
  BY <1>1, <1>2 DEF ScreenBlock
<1> QED  BY <1>1, <1>3

LEMMA TextBgSizeTyped ==
  ASSUME NEW size
  PROVE  /\ TextBgSize(size).w \in Nat \ {0} /\ TextBgSize(size).w <= 2 * BlockSize
         /\ TextBgSize(size).h \in Nat \ {0} /\ TextBgSize(size).h <= 2 * BlockSize
BY Sizes DEF TextBgSize

LEMMA FlippedTyped ==
  ASSUME NEW flip, NEW a \in 0..(TileSize - 1)
  PROVE  Flipped(flip, a) \in 0..(TileSize - 1)
BY Sizes DEF Flipped

\* The cell of a pixel, and the pixel in the cell.
CellOf(a) == (a \div TileSize) % BlockTiles
InCell(a) == a % TileSize

LEMMA CellTyped ==
  ASSUME NEW a \in Nat
  PROVE  CellOf(a) \in 0..(BlockTiles - 1) /\ InCell(a) \in 0..(TileSize - 1)
<1>1. PICK q \in Nat : q = a \div TileSize
  BY Sizes, Quotient
<1>2. CellOf(a) \in 0..(BlockTiles - 1)
  BY <1>1, Sizes, Remainder DEF CellOf
<1>3. InCell(a) \in 0..(TileSize - 1)
  BY Sizes, Remainder DEF InCell
<1> QED  BY <1>2, <1>3

\* What a background shows is a colour of the palette.
LEMMA ColorIndexTyped ==
  ASSUME NEW d \in Displays, NEW bg \in Bgs, NEW x \in 0..(2 * BlockSize - 1), NEW y \in Nat,
         NEW index, index = TextBgColorIndex(Memory.vram, d.bgcnt[bg], x, y), index # <<>>
  PROVE  index[1] \in 0..255
<1> DEFINE cnt == d.bgcnt[bg]
<1>1. PICK n \in 0..3 :
        n = ScreenBlock(TextBgSize(cnt.size).w > BlockSize, x, y)
  BY ScreenBlockTyped, TextBgSizeTyped
<1>2. PICK cell \in Cells :
        cell = <<CellOf(x), CellOf(y)>>
  <2>1. x \in Nat
    BY Sizes
  <2> QED  BY <2>1, CellTyped DEF Cells
<1>3. PICK entry : entry = Memory.vram.map[cnt.screen + n][cell]
  OBVIOUS
<1>4. PICK at \in TilePixels : at = <<Flipped(entry.hflip, InCell(x)),
                                      Flipped(entry.vflip, InCell(y))>>
  <2>1. x \in Nat
    BY Sizes
  <2>2. InCell(x) \in 0..(TileSize - 1) /\ InCell(y) \in 0..(TileSize - 1)
    BY <2>1, CellTyped
  <2>3. /\ Flipped(entry.hflip, InCell(x)) \in 0..(TileSize - 1)
        /\ Flipped(entry.vflip, InCell(y)) \in 0..(TileSize - 1)
    BY <2>2, FlippedTyped
  <2> QED  BY <2>3 DEF TilePixels
<1>5. PICK tile : tile = <<cnt.char, cnt.is8bpp, entry.tile>>
  BY Zenon
<1>6. PICK color : color = IF tile \in DOMAIN Memory.vram.tiles
                           THEN Memory.vram.tiles[tile][at] ELSE 0
  OBVIOUS
<1>7. index = IF color = 0 THEN <<>>
              ELSE <<IF cnt.is8bpp THEN color ELSE entry.bank * 16 + color>>
  BY <1>1, <1>2, <1>3, <1>4, <1>5, <1>6, Zenon DEF TextBgColorIndex, CellOf, InCell
<1>8. entry.bank \in 0..15
  BY <1>3, MemoryAssumption, Zenon
<1>9. cnt.is8bpp \in BOOLEAN
  BY DisplayAssumption
<1>10. color \in 0..(IF cnt.is8bpp THEN 255 ELSE 15)
  <2>1. tile[2] = cnt.is8bpp
    BY <1>5
  <2>2. CASE tile \in DOMAIN Memory.vram.tiles
    <3>1. Memory.vram.tiles[tile][at] \in 0..(IF tile[2] THEN 255 ELSE 15)
      BY <2>2, MemoryAssumption, Zenon
    <3> QED  BY <1>6, <2>1, <2>2, <3>1
  <2>3. CASE tile \notin DOMAIN Memory.vram.tiles
    BY <1>6, <1>9, <2>3
  <2> QED  BY <2>2, <2>3
<1>11. index[1] = IF cnt.is8bpp THEN color ELSE entry.bank * 16 + color
  BY <1>7
<1>12. CASE cnt.is8bpp
  BY <1>10, <1>11, <1>12
<1>13. CASE ~cnt.is8bpp
  <2>1. color \in 0..15
    BY <1>10, <1>13
  <2>2. PICK bank \in 0..15 : bank = entry.bank
    BY <1>8
  <2>3. bank * 16 + color \in 0..255
    BY <2>1
  <2> QED  BY <1>11, <1>13, <2>2, <2>3
<1> QED  BY <1>12, <1>13

LEMMA TexelTyped ==
  ASSUME NEW d \in Displays, NEW bg \in Bgs, NEW x \in Nat, NEW y \in Nat,
         NEW hofs \in Nat, NEW vofs \in Nat, NEW texel,
         texel = Texel(d.bgcnt[bg], x, y, hofs, vofs), texel # <<>>
  PROVE  texel[1] \in Colors /\ texel = <<texel[1]>>
<1> DEFINE size == TextBgSize(d.bgcnt[bg].size)
<1>1. PICK w \in Nat \ {0}, h \in Nat \ {0} :
        w = size.w /\ h = size.h /\ w <= 2 * BlockSize /\ h <= 2 * BlockSize
  BY TextBgSizeTyped
<1>2. PICK a \in 0..(w - 1) : a = (x + hofs) % w
  <2>1. x + hofs \in Nat
    OBVIOUS
  <2> QED  BY <2>1, Remainder
<1>3. PICK b \in 0..(h - 1) : b = (y + vofs) % h
  <2>1. y + vofs \in Nat
    OBVIOUS
  <2> QED  BY <2>1, Remainder
<1>4. a \in 0..(2 * BlockSize - 1) /\ b \in Nat
  <2>1. PICK n \in Nat : n = 2 * BlockSize
    BY Sizes
  <2>2. w <= n
    BY <1>1, <2>1
  <2>3. a \in 0..(n - 1) /\ b \in Nat
    BY <2>2
  <2> QED  BY <2>1, <2>3
<1>5. PICK index : index = TextBgColorIndex(Memory.vram, d.bgcnt[bg], a, b)
  OBVIOUS
<1>6. texel = IF index = <<>> THEN <<>> ELSE <<Memory.palette[index[1]]>>
  BY <1>1, <1>2, <1>3, <1>5, Zenon DEF Texel
<1>7. index # <<>>
  BY <1>6
<1>8. index[1] \in 0..255
  BY <1>4, <1>5, <1>7, ColorIndexTyped, Zenon
<1>9. Memory.palette \in [0..255 -> Colors]
  BY MemoryAssumption, Zenon
<1>10. PICK c \in Colors : c = Memory.palette[index[1]]
  BY <1>8, <1>9
<1>11. texel = <<c>>
  BY <1>6, <1>7, <1>10
<1> QED  BY <1>11

LEMMA PaletteTyped ==
  /\ Memory.palette[0] \in Colors
  /\ \A n \in 0..255 : Memory.palette[n] \in Colors /\ Memory.objPalette[n] \in Colors
<1>1. Memory.palette \in [0..255 -> Colors] /\ Memory.objPalette \in [0..255 -> Colors]
  BY MemoryAssumption, Zenon
<1> QED  BY <1>1

LEMMA DisplayTyped ==
  ASSUME NEW d \in Displays
  PROVE  /\ \A bg \in Bgs : d.bgcnt[bg].prio \in 0..3
         /\ d.bgOn \subseteq Bgs /\ d.backbuffer \in BOOLEAN
         /\ {d.eva, d.evb, d.evy} \subseteq Nat
BY DisplayAssumption

\* What the backgrounds show at a pixel, with given offsets.
Texels(d, x, y, offsets) ==
  [bg \in Bgs |-> Texel(d.bgcnt[bg], x, y, offsets[<<"hofs", bg>>], offsets[<<"vofs", bg>>])]

LEMMA TexelsTyped ==
  ASSUME NEW d \in Displays, NEW x \in Nat, NEW y \in Nat, NEW offsets \in OffsetValues,
         NEW bg \in Bgs, Texels(d, x, y, offsets)[bg] # <<>>
  PROVE  /\ Texels(d, x, y, offsets)[bg][1] \in Colors
         /\ Texels(d, x, y, offsets)[bg] = <<Texels(d, x, y, offsets)[bg][1]>>
<1>1. <<"hofs", bg>> \in Registers /\ <<"vofs", bg>> \in Registers
  BY DEF Registers, Axes
<1>2. Offsets \subseteq Nat
  BY Sizes, RasterAssumption
<1>3. PICK hofs \in Nat, vofs \in Nat :
        hofs = offsets[<<"hofs", bg>>] /\ vofs = offsets[<<"vofs", bg>>]
  BY <1>1, <1>2 DEF OffsetValues
<1>4. PICK texel : texel = Texel(d.bgcnt[bg], x, y, hofs, vofs)
  OBVIOUS
<1>5. Texels(d, x, y, offsets)[bg] = texel
  BY <1>3, <1>4 DEF Texels
<1> QED  BY <1>4, <1>5, TexelTyped

\* The topmost layer is the foremost background that shows, else the backdrop.
TopLayer(d, mask, x, y, offsets) ==
  FrontOnTop(d.bgcnt, d.bgOn \cap mask, Texels(d, x, y, offsets), Memory.palette[0],
             LayersWith(d, mask, x, y, offsets))

LEMMA TopLayerShown ==
  ASSUME NEW d \in Displays, NEW x \in Nat, NEW y \in Nat, NEW offsets \in OffsetValues,
         NEW mask
  PROVE  TopLayer(d, mask, x, y, offsets)
<1>1. PICK layers : layers = LayersWith(d, mask, x, y, offsets)
  OBVIOUS
<1>2. PICK pixel : pixel = Texels(d, x, y, offsets)
  OBVIOUS
<1>3. PICK bgcnt : bgcnt = d.bgcnt
  OBVIOUS
<1>4. PICK bgs \in SUBSET Bgs : bgs = d.bgOn \cap mask
  BY DisplayTyped
<1>6. \A bg \in Bgs : bgcnt[bg].prio \in 0..3
  BY <1>3, DisplayTyped
<1>7. \A bg \in bgs : pixel[bg] # <<>> => pixel[bg][1] \in Colors
  BY <1>2, TexelsTyped
<1>8. layers = LayersOf(bgcnt, bgs, pixel, Memory.palette[0])
  BY <1>1, <1>2, <1>3, <1>4 DEF LayersWith, Texels
<1>9. FrontOnTop(bgcnt, bgs, pixel, Memory.palette[0], layers)
  BY <1>6, <1>7, <1>8, PaletteTyped, LayersFacts
<1> QED  BY <1>1, <1>2, <1>3, <1>4, <1>9 DEF TopLayer

-----------------------------------------------------------------------------
(* The pictures' types.                                                    *)

LEMMA LineTyped ==
  ASSUME display \in Displays, NEW y \in Lines, NEW offsets \in OffsetValues
  PROVE  LineWith(y, offsets) \in [0..(Width - 1) -> Colors]
<1>1. ASSUME NEW x \in 0..(Width - 1)
      PROVE  LayersWith(display, WinMaskAll, x, y, offsets)[1].color \in Colors
  <2>1. x \in Nat /\ y \in Nat
    BY ScreenAssumption DEF Lines
  <2>2. PICK layers : layers = LayersWith(display, WinMaskAll, x, y, offsets)
    OBVIOUS
  <2>3. AllColors(layers)
    BY <2>1, <2>2, TopLayerShown DEF TopLayer, FrontOnTop
  <2> QED  BY <2>2, <2>3 DEF AllColors
<1> QED  BY <1>1 DEF LineWith

\* The offsets that the registers stand for under the flags.
OffsetsAt(offsets, y) ==
  [r \in Registers |-> IF r \in active THEN offsets[r][y] ELSE registers[r]]

LEMMA OffsetsAtTyped ==
  ASSUME OffsetTypes, NEW offsets \in [Registers -> [Lines -> Offsets]], NEW y \in Lines
  PROVE  OffsetsAt(offsets, y) \in OffsetValues /\ Resolved(offsets, y, OffsetsAt(offsets, y))
BY DEF OffsetTypes, OffsetsAt, OffsetValues, Resolved

LEMMA DrawnLineTyped ==
  ASSUME OffsetTypes, NEW y \in Lines
  PROVE  RenderMode0Scanline(PpuOfLine(raster, y), y, Memory) \in [0..(Width - 1) -> Colors]
<1>1. display \in Displays
  BY RasterAssumption DEF OffsetTypes
<1>2. CASE display.mode = 0
  <2>1. PICK offsets \in OffsetValues : Resolved(raster, y, offsets)
    BY OffsetsAtTyped DEF OffsetTypes
  <2>2. RenderMode0Scanline(PpuOfLine(raster, y), y, Memory) = LineWith(y, offsets)
    BY <1>2, <2>1, LineShown DEF OffsetTypes
  <2> QED  BY <1>1, <2>2, LineTyped
<1>3. CASE display.mode # 0
  <2>1. StartsFrom(Ppu0(display), display)
    BY Ppu0Starts
  <2>2. PpuOfLine(raster, y).mode # 0
    BY <1>3, <2>1 DEF PpuOfLine, PpuWith, StartsFrom
  <2> QED  BY <2>2, PaletteTyped DEF RenderMode0Scanline
<1> QED  BY <1>2, <1>3

\* Every variable keeps its type: no colour of the lines that are drawn and published
\* leaves a channel's range.
THEOREM TypeCorrect == Spec => []TypeOK
<1>1. Init => PictureTypes
  <2>1. Black \in Colors
    BY DEF Black, Colors, Levels
  <2> QED  BY <2>1 DEF Init, PictureTypes, Blank
<1>2. OffsetTypes /\ PictureTypes /\ [Next]_vars => PictureTypes'
  <2> SUFFICES ASSUME OffsetTypes, PictureTypes, [Next]_vars PROVE PictureTypes'
    OBVIOUS
  <2>1. CASE Draw
    <3>1. CASE clock.vcount \in Lines
      <4>1. PICK line \in [0..(Width - 1) -> Colors] :
              line = RenderMode0Scanline(PpuOfLine(raster, clock.vcount), clock.vcount, Memory)
        BY <3>1, DrawnLineTyped
      <4>2. work' = (IF clock.needs THEN [work EXCEPT ![clock.vcount] = line] ELSE work)
            /\ published' = published
        BY <2>1, <3>1, <4>1 DEF Draw
      <4> QED  BY <3>1, <4>2 DEF PictureTypes
    <3>2. CASE clock.vcount \notin Lines
      BY <2>1, <3>2 DEF Draw, PictureTypes
    <3> QED  BY <3>1, <3>2
  <2>2. CASE NextLine
    BY <2>2 DEF NextLine, PictureTypes
  <2>3. CASE UNCHANGED <<work, published>>
    BY <2>3 DEF PictureTypes
  <2> QED
    BY <2>1, <2>2, <2>3 DEF Next, vars, ChooseRenderer, StartLine, EnterHblank, Answer, Miss,
      LateExit, AckHblank, ToggleHblank, WriteOffset, Complete
<1> QED  BY <1>1, <1>2, OffsetsTyped, PTL DEF Spec, TypeOK

-----------------------------------------------------------------------------
(* The bitmaps.                                                            *)

LEMMA PixelIndex ==
  ASSUME NEW w \in Nat \ {0}, NEW h \in Nat \ {0}, NEW x \in 0..(w - 1), NEW y \in 0..(h - 1)
  PROVE  y * w + x \in Cover(w, h)
<1>1. PICK k \in Nat : h = y + 1 + k
  <2>1. h - 1 - y \in Nat
    OBVIOUS
  <2> QED  BY <2>1
<1>2. w * h = y * w + w + k * w /\ k * w \in Nat /\ y * w \in Nat
  BY <1>1
<1> QED  BY <1>2 DEF Cover

LEMMA BlackTyped == Black \in Colors
BY DEF Black, Colors, Levels

LEMMA BitmapTyped ==
  ASSUME NEW ppu, NEW w \in Nat \ {0}, NEW h \in Nat \ {0},
         NEW color \in [Cover(w, h) -> Colors]
  PROVE  RenderBitmap(ppu, Memory, w, h, color) \in [Pixels -> Colors]
<1>1. ASSUME NEW p \in Pixels
      PROVE  RenderBitmap(ppu, Memory, w, h, color)[p] \in Colors
  <2>1. PICK source : source = BitmapSource(ppu, p[1], p[2], w, h)
    OBVIOUS
  <2>2. RenderBitmap(ppu, Memory, w, h, color)[p]
          = IF 2 \in ppu.bgOn /\ p[1] < w /\ p[2] < h /\ source # <<>>
            THEN color[source[2] * w + source[1]] ELSE Black
    BY <2>1 DEF RenderBitmap
  <2>3. source # <<>> => source[1] \in 0..(w - 1) /\ source[2] \in 0..(h - 1)
    BY <2>1 DEF BitmapSource
  <2>4. source # <<>> => source[2] * w + source[1] \in Cover(w, h)
    BY <2>3, PixelIndex, Zenon
  <2> QED  BY <2>2, <2>4, BlackTyped
<1> QED  BY <1>1 DEF RenderBitmap

LEMMA BitmapsTyped ==
  ASSUME NEW ppu, ppu.backbuffer \in BOOLEAN
  PROVE  /\ RenderMode3(ppu, Memory) \in [Pixels -> Colors]
         /\ RenderMode4(ppu, Memory) \in [Pixels -> Colors]
         /\ RenderMode5(ppu, Memory) \in [Pixels -> Colors]
<1>1. Width \in Nat \ {0} /\ Height \in Nat \ {0}
      /\ Mode5Width \in Nat \ {0} /\ Mode5Height \in Nat \ {0}
  BY ScreenAssumption
<1>2. RenderMode3(ppu, Memory) \in [Pixels -> Colors]
  BY <1>1, BitmapTyped, MemoryAssumption, Zenon DEF RenderMode3
<1>3. RenderMode5(ppu, Memory) \in [Pixels -> Colors]
  <2>1. Memory.vram.pages[ppu.backbuffer] \in [Cover(Mode5Width, Mode5Height) -> Colors]
    BY MemoryAssumption, Zenon
  <2> QED  BY <1>1, <2>1, BitmapTyped DEF RenderMode5
<1>4. RenderMode4(ppu, Memory) \in [Pixels -> Colors]
  <2>1. PICK indices \in [Cover(Width, Height) -> 0..255] :
          indices = Memory.vram.indices[ppu.backbuffer]
    BY MemoryAssumption, Zenon
  <2>2. PICK color : color = [cell \in DOMAIN indices |-> Memory.palette[indices[cell]]]
    OBVIOUS
  <2>3. color \in [Cover(Width, Height) -> Colors]
    BY <2>1, <2>2, PaletteTyped
  <2> QED  BY <1>1, <2>1, <2>2, <2>3, BitmapTyped, Zenon DEF RenderMode4
<1> QED  BY <1>2, <1>3, <1>4

-----------------------------------------------------------------------------
(* The objects.                                                            *)

LEMMA ObjSourceTyped ==
  ASSUME NEW obj, NEW size, NEW draw, NEW x \in Int, NEW y \in Int, NEW affine,
         NEW source, source = ObjSource(obj, size, draw, x, y, affine), source # <<>>
  PROVE  source[1] \in Int /\ source[2] \in Int
BY DEF ObjSource

\* What an object shows is a colour of the objects' palette.
ColorIfAny(pixel) == pixel # <<>> => pixel[1] \in Colors /\ pixel = <<pixel[1]>>

LEMMA ObjPixelTyped ==
  ASSUME NEW obj1d, NEW i \in DOMAIN Memory.oam, NEW x, NEW y
  PROVE  ColorIfAny(ObjPixel(obj1d, Memory, Memory.oam[i], x, y))
<1>0. SUFFICES ASSUME NEW pixel, pixel = ObjPixel(obj1d, Memory, Memory.oam[i], x, y),
                      pixel # <<>>
               PROVE  pixel[1] \in Colors /\ pixel = <<pixel[1]>>
  BY DEF ColorIfAny
<1> DEFINE obj == Memory.oam[i]
           size == ObjSize(obj)
           scale == IF obj.affine /\ obj.double THEN 2 ELSE 1
           draw == [w |-> scale * size.w, h |-> scale * size.h]
           dx == x - SignExtend(obj.x, 9)
           dy == y - SignExtend(obj.y, 8)
           source == IF dx \in 0..(draw.w - 1) /\ dy \in 0..(draw.h - 1)
                     THEN ObjSource(obj, size, draw, dx, dy, Memory.affine) ELSE <<>>
           stride == IF obj1d THEN size.w \div TileSize ELSE 32
           tile == obj.tile + (source[2] \div TileSize) * stride + (source[1] \div TileSize)
           at == <<source[1] % TileSize, source[2] % TileSize>>
           color == IF tile \in DOMAIN Memory.vram.objTiles
                    THEN Memory.vram.objTiles[tile][at] ELSE 0
<1>1. pixel = IF source = <<>> \/ color = 0 THEN <<>>
              ELSE <<Memory.objPalette[obj.bank * 16 + color]>>
  BY <1>0, Zenon DEF ObjPixel
<1> HIDE DEF size, draw, dx, dy, tile, source, at, color
<1>2. source # <<>> /\ pixel = <<Memory.objPalette[obj.bank * 16 + color]>>
  BY <1>0, <1>1
<1>3. PICK a \in Int, b \in Int : a = source[1] /\ b = source[2]
  <2>1. /\ dx \in Int /\ dy \in Int
        /\ source = ObjSource(obj, size, draw, dx, dy, Memory.affine)
    BY <1>2 DEF source
  <2> QED  BY <1>2, <2>1, ObjSourceTyped
<1>4. at \in TilePixels
  <2>1. ASSUME NEW n \in Int PROVE n % TileSize \in 0..(TileSize - 1)
    BY Sizes
  <2>2. a % TileSize \in 0..(TileSize - 1) /\ b % TileSize \in 0..(TileSize - 1)
    BY <2>1
  <2>3. at = <<a % TileSize, b % TileSize>>
    BY <1>3 DEF at
  <2> QED  BY <2>2, <2>3 DEF TilePixels
<1>5. color \in 0..15
  <2>1. \A t \in DOMAIN Memory.vram.objTiles : \A p \in TilePixels :
          Memory.vram.objTiles[t][p] \in 0..15
    BY MemoryAssumption, Zenon
  <2>2. 0 \in 0..15
    OBVIOUS
  <2> QED  BY <1>4, <2>1, <2>2 DEF color
<1>6. PICK bank \in 0..15 : bank = obj.bank
  BY MemoryAssumption, Zenon
<1>7. bank * 16 + color \in 0..255
  BY <1>5
<1>8. PICK c \in Colors : c = Memory.objPalette[bank * 16 + color]
  BY <1>7, PaletteTyped
<1>9. pixel = <<c>>
  BY <1>2, <1>6, <1>8
<1> QED  BY <1>9

\* The objects that a frame is drawn with at a pixel.
DrawnAt(ppu, p) ==
  {i \in DOMAIN Memory.oam : /\ Renderable(Memory.oam[i])
                             /\ ObjPixel(ppu.obj1d, Memory, Memory.oam[i], p[1], p[2]) # <<>>}

\* The foremost object is drawn last, over the frame.
LEMMA ObjectsShown ==
  ASSUME NEW ppu, NEW frame, NEW p \in Pixels, frame[p] \in Colors,
         NEW objs, objs = DrawnAt(ppu, p), NEW color, color = RenderObjs(ppu, Memory, frame)[p]
  PROVE  /\ color \in Colors
         /\ objs = {} => color = frame[p]
         /\ \A i \in objs :
              (\A j \in objs : \/ Memory.oam[i].prio < Memory.oam[j].prio
                               \/ Memory.oam[i].prio = Memory.oam[j].prio /\ i <= j)
              => <<color>> = ObjPixel(ppu.obj1d, Memory, Memory.oam[i], p[1], p[2])
<1> DEFINE shown(i) == ObjPixel(ppu.obj1d, Memory, Memory.oam[i], p[1], p[2])
<1>1. objs \subseteq DOMAIN Memory.oam /\ \A i \in objs : shown(i) # <<>>
  BY DEF DrawnAt
<1>2. \A i \in objs : shown(i)[1] \in Colors /\ shown(i) = <<shown(i)[1]>>
  <2> TAKE i \in objs
  <2>1. PICK pixel : pixel = ObjPixel(ppu.obj1d, Memory, Memory.oam[i], p[1], p[2])
    OBVIOUS
  <2>2. i \in DOMAIN Memory.oam /\ pixel # <<>>
    BY <1>1, <2>1
  <2>3. ColorIfAny(pixel)
    BY <2>1, <2>2, ObjPixelTyped, Zenon
  <2> QED  BY <2>1, <2>2, <2>3 DEF ColorIfAny
<1>3. /\ IsFiniteSet(objs) /\ objs \subseteq Int
      /\ \A i \in objs : Memory.oam[i].prio \in 0..3
  <2>1. PICK n \in Nat : DOMAIN Memory.oam = 1..n
    BY MemoryAssumption, Zenon
  <2>2. IsFiniteSet(1..n)
    <3>1. 1 \in Int /\ n \in Int
      OBVIOUS
    <3> QED  BY <3>1, FS_Interval
  <2>3. \A i \in DOMAIN Memory.oam : Memory.oam[i].prio \in 0..3
    BY MemoryAssumption, Zenon
  <2> QED  BY <1>1, <2>1, <2>2, <2>3, FS_Subset
<1>4. PICK s : s = ObjOrder(Memory.oam, objs)
  OBVIOUS
<1>5. LastInFront(Memory.oam, objs, s)
  BY <1>3, <1>4, ObjectOrder
<1>6. Len(s) \in Nat /\ s \in [1..Len(s) -> objs] /\ (Len(s) = 0 => objs = {})
  BY <1>5 DEF LastInFront
<1>7. color = IF s = <<>> THEN frame[p] ELSE shown(s[Len(s)])[1]
  BY <1>4 DEF RenderObjs, DrawnAt
<1> HIDE DEF shown
<1>8. CASE s = <<>>
  BY <1>6, <1>7, <1>8
<1>9. CASE s # <<>>
  <2>1. Len(s) > 0
    <3>1. Len(s) = 0 => s = <<>>
      BY <1>6
    <3> QED  BY <1>6, <1>9, <3>1
  <2>2. PICK e \in objs : e = s[Len(s)]
    BY <1>6, <2>1
  <2>3. color = shown(e)[1]
    BY <1>7, <1>9, <2>2
  <2>4. ASSUME NEW i \in objs,
               \A j \in objs : \/ Memory.oam[i].prio < Memory.oam[j].prio
                               \/ Memory.oam[i].prio = Memory.oam[j].prio /\ i <= j
        PROVE  i = e
    <3>1. \/ Memory.oam[e].prio < Memory.oam[i].prio
          \/ Memory.oam[e].prio = Memory.oam[i].prio /\ e <= i
      BY <1>5, <2>1, <2>2 DEF LastInFront
    <3>2. \/ Memory.oam[i].prio < Memory.oam[e].prio
          \/ Memory.oam[i].prio = Memory.oam[e].prio /\ i <= e
      BY <2>2, <2>4
    <3>3. /\ i \in Int /\ e \in Int
          /\ Memory.oam[i].prio \in Int /\ Memory.oam[e].prio \in Int
      BY <1>3, <2>2
    <3> QED  BY <3>1, <3>2, <3>3
  <2>5. color \in Colors /\ <<color>> = shown(e)
    BY <1>2, <2>2, <2>3
  <2> QED  BY <2>2, <2>4, <2>5 DEF shown
<1> QED  BY <1>8, <1>9

-----------------------------------------------------------------------------
(* The whole frame.                                                        *)

LEMMA WholeStarts ==
  ASSUME NEW d \in Displays, NEW ppu, ppu = WholePpu(d)
  PROVE  /\ ppu.mode = d.mode /\ ppu.bgcnt = d.bgcnt /\ ppu.bgOn = d.bgOn
         /\ ppu.objOn = d.objOn /\ ppu.bld = d.bld /\ ppu.obj1d = d.obj1d
         /\ ppu.backbuffer \in BOOLEAN /\ {ppu.eva, ppu.evb, ppu.evy} \subseteq Nat
<1>1. StartsFrom(Ppu0(d), d)
  BY Ppu0Starts
<1>2. {d.eva, d.evb, d.evy} \subseteq Nat /\ d.backbuffer \in BOOLEAN
  BY DisplayTyped
<1> QED  BY <1>1, <1>2 DEF WholePpu, PpuWith, StartsFrom

MaskAt(ppu, p) ==
  IF WindowsEnabled(ppu) THEN WindowMask(ppu, p[1], p[2]) ELSE WinMaskAll

\* The backgrounds and effects.
BgsShown(d, ppu, p, color) ==
  LET bgPrio == [bg \in Bgs |-> d.bgcnt[bg].prio]
      bgs == BgsAt(ppu, p)
  IN  /\ bgs = {} => color = Memory.palette[0]
      /\ \A a \in bgs : (\A b \in bgs : InFront(bgPrio, a, b)) =>
           <<color>> = TextBgPixel(ppu, a, p[1], p[2], Memory)

LEMMA Mode0Shown ==
  ASSUME OffsetTypes, NEW d \in Displays, NEW p \in Pixels, NEW ppu, ppu = WholePpu(d),
         NEW color, color = RenderMode0(ppu, Memory)[p]
  PROVE  /\ color \in Colors
         /\ d.bld.mode = 0 => BgsShown(d, ppu, p, color)
<1>1. PICK x \in Nat, y \in Lines : p = <<x, y>>
  BY ScreenAssumption DEF Pixels, Lines
<1>2. y \in Nat /\ x = p[1] /\ y = p[2]
  BY <1>1, ScreenAssumption DEF Lines
<1>3. PICK offsets \in OffsetValues : Resolved(whole, y, offsets)
  BY OffsetsAtTyped DEF OffsetTypes
<1>4. PICK mask : mask = MaskAt(ppu, p)
  OBVIOUS
<1>5. PICK layers : layers = LayersWith(d, mask, x, y, offsets)
  OBVIOUS
<1>6. TopLayer(d, mask, x, y, offsets)
  BY <1>2, TopLayerShown
<1>7. AllColors(layers)
  BY <1>5, <1>6 DEF TopLayer, FrontOnTop
<1>8. Layers(ppu, Memory, x, y, mask) = layers
  BY <1>3, <1>5, LayersShown DEF WholePpu, OffsetTypes
<1>9. color = IF WinLayerEffect \in mask THEN ApplyBlend(ppu, layers) ELSE layers[1].color
  BY <1>2, <1>4, <1>8 DEF RenderMode0, MaskAt
<1>10. layers[1].color \in Colors
  BY <1>7 DEF AllColors
<1>11. /\ ApplyBlend(ppu, layers) \in Colors
       /\ d.bld.mode = 0 => ApplyBlend(ppu, layers) = layers[1].color
  BY <1>7, ApplyBlendTyped, WholeStarts
<1>12. color \in Colors /\ (d.bld.mode = 0 => color = layers[1].color)
  BY <1>9, <1>10, <1>11
<1>13. ASSUME d.bld.mode = 0 PROVE BgsShown(d, ppu, p, color)
  <2>1. Shows(ppu, d, x, y, offsets)
    BY <1>3, TexelsShown DEF WholePpu, OffsetTypes
  <2>2. \A bg \in Bgs : TextBgPixel(ppu, bg, x, y, Memory) = Texels(d, x, y, offsets)[bg]
    BY <2>1, Zenon DEF Shows, Texels
  <2>3. PICK pixel : pixel = Texels(d, x, y, offsets)
    OBVIOUS
  <2>4. d.bgOn \subseteq Bgs /\ ppu.bgOn = d.bgOn
    BY DisplayTyped, WholeStarts
  <2>5. PICK bgs : bgs = BgsAt(ppu, p)
    OBVIOUS
  <2>6. bgs = {bg \in d.bgOn \cap mask : pixel[bg] # <<>>}
    <3>1. Bgs \subseteq WinMaskAll
      BY DEF Bgs, WinMaskAll
    <3>2. d.bgOn \cap mask = {bg \in ppu.bgOn :
            WindowsEnabled(ppu) => bg \in WindowMask(ppu, p[1], p[2])}
      BY <1>4, <2>4, <3>1 DEF MaskAt
    <3> QED  BY <1>2, <2>2, <2>3, <2>4, <2>5, <3>2 DEF BgsAt
  <2>7. /\ bgs = {} => color = Memory.palette[0]
        /\ \A a \in bgs :
             (\A b \in bgs : \/ d.bgcnt[a].prio < d.bgcnt[b].prio
                             \/ d.bgcnt[a].prio = d.bgcnt[b].prio /\ a <= b)
             => color = pixel[a][1]
    BY <1>5, <1>6, <1>12, <1>13, <2>3, <2>6 DEF TopLayer, FrontOnTop
  <2>8. bgs \subseteq Bgs
    BY <2>4, <2>6
  <2>9. ASSUME NEW a \in bgs,
               \A b \in bgs : InFront([bg \in Bgs |-> d.bgcnt[bg].prio], a, b)
        PROVE  <<color>> = TextBgPixel(ppu, a, p[1], p[2], Memory)
    <3>1. color = pixel[a][1]
      BY <2>7, <2>8, <2>9 DEF InFront
    <3>2. pixel[a] = <<pixel[a][1]>>
      BY <1>2, <2>3, <2>6, <2>8, TexelsTyped
    <3>3. TextBgPixel(ppu, a, p[1], p[2], Memory) = pixel[a]
      BY <1>2, <2>2, <2>3, <2>8
    <3> QED  BY <3>1, <3>2, <3>3
  <2> QED  BY <2>5, <2>7, <2>9 DEF BgsShown
<1> QED  BY <1>12, <1>13

\* The frame without its objects.
Behind(ppu) ==
  CASE ppu.mode = 0 -> RenderMode0(ppu, Memory)
    [] ppu.mode = 3 -> RenderMode3(ppu, Memory)
    [] ppu.mode = 4 -> RenderMode4(ppu, Memory)
    [] ppu.mode = 5 -> RenderMode5(ppu, Memory)
    [] OTHER -> [p \in Pixels |-> Black]

LEMMA BehindTyped ==
  ASSUME OffsetTypes, NEW d \in Displays, NEW p \in Pixels, NEW ppu, ppu = WholePpu(d)
  PROVE  Behind(ppu)[p] \in Colors
<1>1. RenderMode0(ppu, Memory)[p] \in Colors
  BY Mode0Shown
<1>2. /\ RenderMode3(ppu, Memory)[p] \in Colors /\ RenderMode4(ppu, Memory)[p] \in Colors
      /\ RenderMode5(ppu, Memory)[p] \in Colors
  <2>1. ppu.backbuffer \in BOOLEAN
    BY WholeStarts
  <2> QED  BY <2>1, BitmapsTyped
<1>3. [q \in Pixels |-> Black][p] \in Colors
  BY BlackTyped
<1>4. CASE ppu.mode = 0
  BY <1>1, <1>4 DEF Behind
<1>5. CASE ppu.mode = 3
  BY <1>2, <1>5 DEF Behind
<1>6. CASE ppu.mode = 4
  BY <1>2, <1>6 DEF Behind
<1>7. CASE ppu.mode = 5
  BY <1>2, <1>7 DEF Behind
<1>8. CASE ppu.mode \notin {0, 3, 4, 5}
  BY <1>3, <1>8 DEF Behind
<1> QED  BY <1>4, <1>5, <1>6, <1>7, <1>8

\* When the line renderer is not needed, render_frame draws the picture: whatever the
\* other registers are, it shows the foremost object at every pixel, else, where no
\* effect applies, the foremost background, else the backdrop, and no channel leaves
\* its five bits.
THEOREM FramesShowFront == Spec => []FrameShowsFront
<1>1. OffsetTypes => FrameShowsFront
  <2> SUFFICES ASSUME OffsetTypes, NEW d \in Displays, NEW p \in Pixels,
                      NEW ppu, ppu = WholePpu(d), NEW color, color = WholeFrame(d)[p],
                      NEW objs, objs = ObjsAt(d, p)
               PROVE  /\ color \in Colors
                      /\ \A i \in objs :
                           (\A j \in objs :
                              InFront([n \in DOMAIN Memory.oam |-> Memory.oam[n].prio], i, j))
                           => <<color>> = ObjPixel(d.obj1d, Memory, Memory.oam[i], p[1], p[2])
                      /\ d.mode = 0 /\ d.bld.mode = 0 /\ objs = {} => BgsShown(d, ppu, p, color)
    BY DEF FrameShowsFront, BgsShown
  <2>1. PICK behind : behind = Behind(ppu)
    OBVIOUS
  <2>2. color = IF ppu.objOn THEN RenderObjs(ppu, Memory, behind)[p] ELSE behind[p]
    BY <2>1 DEF WholeFrame, RenderFrame, Behind
  <2>3. behind[p] \in Colors
    BY <2>1, BehindTyped
  <2>4. d.mode = 0 /\ d.bld.mode = 0 => BgsShown(d, ppu, p, behind[p])
    <3>1. d.mode = 0 => behind = RenderMode0(ppu, Memory)
      BY <2>1, WholeStarts DEF Behind
    <3> QED  BY <3>1, Mode0Shown
  <2>5. ppu.objOn = d.objOn /\ ppu.obj1d = d.obj1d
    BY WholeStarts
  <2>6. CASE d.objOn
    <3>1. \A i \in DOMAIN Memory.oam :
            ObjPixel(ppu.obj1d, Memory, Memory.oam[i], p[1], p[2])
              = ObjPixel(d.obj1d, Memory, Memory.oam[i], p[1], p[2])
      BY <2>5
    <3>2. objs = DrawnAt(ppu, p)
      BY <2>6, <3>1 DEF DrawnAt, ObjsAt
    <3>3. color = RenderObjs(ppu, Memory, behind)[p]
      BY <2>2, <2>5, <2>6
    <3>4. /\ color \in Colors
          /\ objs = {} => color = behind[p]
          /\ \A i \in objs :
               (\A j \in objs : \/ Memory.oam[i].prio < Memory.oam[j].prio
                                \/ Memory.oam[i].prio = Memory.oam[j].prio /\ i <= j)
               => <<color>> = ObjPixel(ppu.obj1d, Memory, Memory.oam[i], p[1], p[2])
      BY <2>3, <3>2, <3>3, ObjectsShown
    <3>5. objs \subseteq DOMAIN Memory.oam
      BY DEF ObjsAt
    <3> QED  BY <2>4, <3>1, <3>4, <3>5 DEF InFront
  <2>7. CASE ~d.objOn
    <3>1. objs = {} /\ color = behind[p]
      BY <2>2, <2>5, <2>7 DEF ObjsAt
    <3> QED  BY <2>3, <2>4, <3>1
  <2> QED  BY <2>6, <2>7
<1> QED  BY <1>1, OffsetsTyped, PTL
=============================================================================
