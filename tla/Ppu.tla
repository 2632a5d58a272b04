--------------------------------- MODULE Ppu ---------------------------------
(***************************************************************************)
(* The picture that a set of display registers and the video memories      *)
(* stand for (gba/ppu/registers.rs and renderer.rs), as operators without  *)
(* state.  A register is the record or the number it is decoded to; a      *)
(* layer mask is a set of layer numbers, the bits of the code.  Memories   *)
(* are looked up by what they hold: map entries by screen block and cell,  *)
(* tiles by number, row and column, bitmaps by pixel.  None is <<>> and    *)
(* Some(x) is <<x>>.                                                       *)
(***************************************************************************)
EXTENDS Integers, Sequences, FiniteSets

CONSTANTS
  Width, Height,              \* the screen (240 by 160)
  Mode5Width, Mode5Height,    \* the bitmap of mode 5 (160 by 128)
  TileSize,                   \* pixels on a side of a tile (8)
  BlockTiles,                 \* tiles on a side of a screen block (32)
  Channels                    \* the channels of a colour

ASSUME ScreenAssumption ==
  /\ {Width, Height, TileSize, BlockTiles} \subseteq Nat \ {0}
  /\ Mode5Width \in 1..Width /\ Mode5Height \in 1..Height
  /\ Channels # {}

Bgs == 0..3
WinLayerObj == 4
WinLayerEffect == 5
BlendBackdrop == 5
WinMaskAll == 0..5
BlockSize == TileSize * BlockTiles
OffsetRange == 2 * BlockSize        \* offsets have one bit more than a block
Levels == 0..31
Pixels == (0..(Width - 1)) \X (0..(Height - 1))

AtMost(a, b) == IF a < b THEN a ELSE b
SignExtend(value, bits) ==
  IF value >= 2 ^ (bits - 1) THEN value - 2 ^ bits ELSE value

\* A set in the order of a relation: each element after as many as are before it.
Sorted(S, before) ==
  [n \in 1..Cardinality(S) |->
     CHOOSE a \in S : Cardinality({b \in S : <<b, a>> \in before}) = n - 1]

-----------------------------------------------------------------------------
(* Registers.                                                              *)

\* Ppu::default.
NewPpu ==
  [mode |-> 0, backbuffer |-> FALSE, obj1d |-> FALSE, bgOn |-> {},
   objOn |-> FALSE, windows |-> {}, objWindow |-> FALSE,
   bgcnt |-> [bg \in Bgs |-> [prio |-> 0, screen |-> 0, char |-> 0,
                              is8bpp |-> FALSE, size |-> 0, mosaic |-> FALSE]],
   bghofs |-> [bg \in Bgs |-> 0], bgvofs |-> [bg \in Bgs |-> 0],
   hofsLine |-> [bg \in Bgs |-> <<>>], vofsLine |-> [bg \in Bgs |-> <<>>],
   pa |-> 256, pb |-> 0, pc |-> 0, pd |-> 256, x |-> 0, y |-> 0,
   win |-> [w \in {0, 1} |-> [left |-> 0, right |-> 0, top |-> 0, bottom |-> 0]],
   winin |-> [w \in {0, 1} |-> {}], winout |-> {},
   mosaic |-> [w |-> 0, h |-> 0],
   bld |-> [mode |-> 0, top |-> {}, lower |-> {}],
   eva |-> 0, evb |-> 0, evy |-> 0]

\* The writes that keep fewer bits than they are given.
WriteWinin(ppu, masks) ==
  [ppu EXCEPT !.winin = [w \in {0, 1} |-> masks[w] \cap WinMaskAll]]
WriteWinout(ppu, mask) == [ppu EXCEPT !.winout = mask \cap WinMaskAll]
WriteBldalpha(ppu, eva, evb) ==
  [ppu EXCEPT !.eva = eva % 32, !.evb = evb % 32]
WriteBldy(ppu, evy) == [ppu EXCEPT !.evy = evy % 32]

\* write_bghofs_scanline and write_bgvofs_scanline, called for some lines: these
\* have offsets of their own, and the offset of the BG is no longer looked at.
OwnLines(offsets, lines) ==
  [y \in 0..(Height - 1) |-> IF y \in lines THEN offsets[y] % OffsetRange ELSE 0]

\* ppu_from_registers: io holds the registers as the guest wrote them, but for the
\* offsets.
PpuFromRegisters(io, hofs, vofs) ==
  LET plain == [NewPpu EXCEPT
        !.mode = io.mode, !.backbuffer = io.backbuffer, !.obj1d = io.obj1d,
        !.bgOn = io.bgOn, !.objOn = io.objOn, !.windows = io.windows,
        !.objWindow = io.objWindow, !.bgcnt = io.bgcnt,
        !.bghofs = [bg \in Bgs |-> hofs[bg] % OffsetRange],
        !.bgvofs = [bg \in Bgs |-> vofs[bg] % OffsetRange],
        !.pa = io.pa, !.pb = io.pb, !.pc = io.pc, !.pd = io.pd,
        !.x = io.x % (2 ^ 28), !.y = io.y % (2 ^ 28),
        !.win = io.win, !.mosaic = io.mosaic, !.bld = io.bld]
  IN  WriteBldy(WriteBldalpha(WriteWinout(WriteWinin(plain, io.winin),
        io.winout), io.eva, io.evb), io.evy)

-----------------------------------------------------------------------------
(* Text backgrounds.                                                       *)

TextBgSize(size) ==
  [w |-> BlockSize * (IF size \in {1, 3} THEN 2 ELSE 1),
   h |-> BlockSize * (IF size \in {2, 3} THEN 2 ELSE 1)]

\* The screen block of a pixel, counted from the background's first.
ScreenBlock(wide, bgX, bgY) ==
  LET column == bgX \div BlockSize
      lower == bgY >= BlockSize
  IN  CASE ~wide /\ ~lower -> 0
        [] wide /\ ~lower -> column
        [] ~wide /\ lower -> 1
        [] OTHER -> 2 + column

Flipped(flip, pixel) == IF flip THEN (TileSize - 1) - pixel ELSE pixel

\* text_bg_color_index: map entry, flips, tile, and with 16 colours the bank;
\* colour 0 is transparent, tiles beyond VRAM are too.
TextBgColorIndex(vram, cnt, bgX, bgY) ==
  LET block == cnt.screen + ScreenBlock(TextBgSize(cnt.size).w > BlockSize, bgX, bgY)
      entry == vram.map[block][<<(bgX \div TileSize) % BlockTiles,
                                 (bgY \div TileSize) % BlockTiles>>]
      column == Flipped(entry.hflip, bgX % TileSize)
      row == Flipped(entry.vflip, bgY % TileSize)
      tile == <<cnt.char, cnt.is8bpp, entry.tile>>
      color == IF tile \in DOMAIN vram.tiles THEN vram.tiles[tile][<<column, row>>] ELSE 0
  IN  IF color = 0 THEN <<>>
      ELSE <<IF cnt.is8bpp THEN color ELSE entry.bank * 16 + color>>

\* text_bg_pixel_raw.
TextBgPixel(ppu, bg, x, y, mem) ==
  LET cnt == ppu.bgcnt[bg]
      size == TextBgSize(cnt.size)
      hofs == IF ppu.hofsLine[bg] = <<>> THEN ppu.bghofs[bg] ELSE ppu.hofsLine[bg][y]
      vofs == IF ppu.vofsLine[bg] = <<>> THEN ppu.bgvofs[bg] ELSE ppu.vofsLine[bg][y]
      index == TextBgColorIndex(mem.vram, cnt, (x + hofs) % size.w, (y + vofs) % size.h)
  IN  IF index = <<>> THEN <<>> ELSE <<mem.palette[index[1]]>>

SortedBgOrder(bgcnt, bgs) ==
  Sorted(bgs, {ab \in bgs \X bgs :
    \/ bgcnt[ab[1]].prio < bgcnt[ab[2]].prio
    \/ bgcnt[ab[1]].prio = bgcnt[ab[2]].prio /\ ab[1] < ab[2]})

-----------------------------------------------------------------------------
(* Windows and colour effects.                                             *)

WindowsEnabled(ppu) == ppu.windows # {} \/ ppu.objWindow

\* window_contains: bounds beyond the screen end at its edge, and a window whose
\* right is left of its left contains nothing.
WindowContains(win, x, y) ==
  /\ x >= AtMost(win.left, Width) /\ x < AtMost(win.right, Width)
  /\ y >= AtMost(win.top, Height) /\ y < AtMost(win.bottom, Height)

WindowMask(ppu, x, y) ==
  IF 0 \in ppu.windows /\ WindowContains(ppu.win[0], x, y) THEN ppu.winin[0]
  ELSE IF 1 \in ppu.windows /\ WindowContains(ppu.win[1], x, y) THEN ppu.winin[1]
  ELSE ppu.winout

AlphaBlend(top, lower, eva, evb) ==
  [c \in Channels |-> AtMost((top[c] * eva + lower[c] * evb) \div 16, 31)]

BrightnessBlend(color, evy, lighten) ==
  LET e == AtMost(evy, 16)
  IN  [c \in Channels |-> IF lighten THEN color[c] + ((31 - color[c]) * e) \div 16
                          ELSE color[c] - (color[c] * e) \div 16]

\* apply_blend: layers are those of one pixel, the topmost first.
ApplyBlend(ppu, layers) ==
  LET top == layers[1]
  IN  IF top.layer \notin ppu.bld.top THEN top.color
      ELSE CASE ppu.bld.mode = 1 ->
                  IF Len(layers) > 1 /\ layers[2].layer \in ppu.bld.lower
                  THEN AlphaBlend(top.color, layers[2].color,
                                  AtMost(ppu.eva, 16), AtMost(ppu.evb, 16))
                  ELSE top.color
             [] ppu.bld.mode = 2 -> BrightnessBlend(top.color, ppu.evy, TRUE)
             [] ppu.bld.mode = 3 -> BrightnessBlend(top.color, ppu.evy, FALSE)
             [] OTHER -> top.color

-----------------------------------------------------------------------------
(* The modes.                                                              *)

\* The layers of a pixel in mode 0: the opaque backgrounds in their order, then
\* the backdrop.
LayersOf(bgcnt, bgs, pixel, backdrop) ==
  LET shown == SortedBgOrder(bgcnt, {bg \in bgs : pixel[bg] # <<>>})
  IN  [i \in 1..Len(shown) |-> [layer |-> shown[i], color |-> pixel[shown[i]][1]]]
        \o <<[layer |-> BlendBackdrop, color |-> backdrop]>>

Layers(ppu, mem, x, y, mask) ==
  LayersOf(ppu.bgcnt, ppu.bgOn \cap mask,
           [bg \in Bgs |-> TextBgPixel(ppu, bg, x, y, mem)], mem.palette[0])

RenderMode0(ppu, mem) ==
  [p \in Pixels |->
     LET mask == IF WindowsEnabled(ppu) THEN WindowMask(ppu, p[1], p[2])
                 ELSE WinMaskAll
         layers == Layers(ppu, mem, p[1], p[2], mask)
     IN  IF WinLayerEffect \in mask THEN ApplyBlend(ppu, layers)
         ELSE layers[1].color]

\* render_mode0_scanline: no windows, effects or objects.
RenderMode0Scanline(ppu, y, mem) ==
  [x \in 0..(Width - 1) |->
     IF ppu.mode # 0 THEN mem.palette[0]
     ELSE Layers(ppu, mem, x, y, WinMaskAll)[1].color]

AffineSourceCoord(reference, xStep, yStep, x, y) ==
  (SignExtend(reference % (2 ^ 28), 28) + SignExtend(xStep, 16) * x
     + SignExtend(yStep, 16) * y) \div 256

\* bg2_bitmap_source_pixel.
BitmapSource(ppu, x, y, w, h) ==
  LET mw == IF ppu.bgcnt[2].mosaic THEN ppu.mosaic.w + 1 ELSE 1
      mh == IF ppu.bgcnt[2].mosaic THEN ppu.mosaic.h + 1 ELSE 1
      screenX == (x \div mw) * mw
      screenY == (y \div mh) * mh
      sx == AffineSourceCoord(ppu.x, ppu.pa, ppu.pb, screenX, screenY)
      sy == AffineSourceCoord(ppu.y, ppu.pc, ppu.pd, screenX, screenY)
  IN  IF sx \in 0..(w - 1) /\ sy \in 0..(h - 1) THEN <<sx, sy>> ELSE <<>>

Black == [c \in Channels |-> 0]

\* render_mode3, 4 and 5: one bitmap, or one of two, in the memory's own order.
RenderBitmap(ppu, mem, w, h, color) ==
  [p \in Pixels |->
     LET source == BitmapSource(ppu, p[1], p[2], w, h)
     IN  IF 2 \in ppu.bgOn /\ p[1] < w /\ p[2] < h /\ source # <<>>
         THEN color[source[2] * w + source[1]]
         ELSE Black]

RenderMode3(ppu, mem) ==
  RenderBitmap(ppu, mem, Width, Height, mem.vram.pixels)
RenderMode4(ppu, mem) ==
  LET indices == mem.vram.indices[ppu.backbuffer]
  IN  RenderBitmap(ppu, mem, Width, Height,
                   [cell \in DOMAIN indices |-> mem.palette[indices[cell]]])
RenderMode5(ppu, mem) ==
  RenderBitmap(ppu, mem, Mode5Width, Mode5Height, mem.vram.pages[ppu.backbuffer])

-----------------------------------------------------------------------------
(* Objects.  An entry of OAM is decoded: double is also the bit that hides *)
(* an object that is not affine; special is the mode field being non-zero. *)

\* obj_size, in tiles of 8 pixels, by shape and size.
ObjTiles ==
  << <<<<1, 1>>, <<2, 2>>, <<4, 4>>, <<8, 8>>>>,
     <<<<2, 1>>, <<4, 1>>, <<4, 2>>, <<8, 4>>>>,
     <<<<1, 2>>, <<1, 4>>, <<2, 4>>, <<4, 8>>>>,
     <<<<1, 1>>, <<1, 1>>, <<1, 1>>, <<1, 1>>>> >>
ObjSize(obj) ==
  [w |-> TileSize * ObjTiles[obj.shape + 1][obj.size + 1][1],
   h |-> TileSize * ObjTiles[obj.shape + 1][obj.size + 1][2]]

Renderable(obj) == (obj.affine \/ ~obj.double) /\ ~obj.special /\ ~obj.is8bpp

\* Mutant: of two objects of one priority the later is in front.
ObjOrderLaterInFront(oam, objs) ==
  Sorted(objs, {ab \in objs \X objs :
    \/ oam[ab[1]].prio > oam[ab[2]].prio
    \/ oam[ab[1]].prio = oam[ab[2]].prio /\ ab[1] < ab[2]})

\* The order they are drawn in: the frontmost last.
ObjOrder(oam, objs) ==
  Sorted(objs, {ab \in objs \X objs :
    \/ oam[ab[1]].prio > oam[ab[2]].prio
    \/ oam[ab[1]].prio = oam[ab[2]].prio /\ ab[1] > ab[2]})

\* obj_source_pixel: the drawn pixel, or around the middle, through the matrix.
ObjSource(obj, size, draw, x, y, affine) ==
  LET dx == x - draw.w \div 2
      dy == y - draw.h \div 2
      m == affine[obj.param]
      sx == (SignExtend(m.pa, 16) * dx + SignExtend(m.pb, 16) * dy) \div 256
              + size.w \div 2
      sy == (SignExtend(m.pc, 16) * dx + SignExtend(m.pd, 16) * dy) \div 256
              + size.h \div 2
  IN  IF ~obj.affine THEN <<x, y>>
      ELSE IF sx \in 0..(size.w - 1) /\ sy \in 0..(size.h - 1) THEN <<sx, sy>>
      ELSE <<>>

\* What an object shows at a pixel of the screen, if anything.  x has 9 bits and
\* y has 8; both are signed here, so that an object whose y is 128 or more is
\* above the screen.
ObjPixel(obj1d, mem, obj, screenX, screenY) ==
  LET size == ObjSize(obj)
      scale == IF obj.affine /\ obj.double THEN 2 ELSE 1
      draw == [w |-> scale * size.w, h |-> scale * size.h]
      x == screenX - SignExtend(obj.x, 9)
      y == screenY - SignExtend(obj.y, 8)
      source == IF x \in 0..(draw.w - 1) /\ y \in 0..(draw.h - 1)
                THEN ObjSource(obj, size, draw, x, y, mem.affine) ELSE <<>>
      stride == IF obj1d THEN size.w \div TileSize ELSE 32
      tile == obj.tile + (source[2] \div TileSize) * stride + (source[1] \div TileSize)
      color == IF tile \in DOMAIN mem.vram.objTiles
               THEN mem.vram.objTiles[tile][<<source[1] % TileSize, source[2] % TileSize>>]
               ELSE 0
  IN  IF source = <<>> \/ color = 0 THEN <<>>
      ELSE <<mem.objPalette[obj.bank * 16 + color]>>

\* render_objs: each object that has a pixel is drawn over the frame's.
RenderObjs(ppu, mem, frame) ==
  [p \in Pixels |->
     LET drawn == ObjOrder(mem.oam, {i \in DOMAIN mem.oam :
                    /\ Renderable(mem.oam[i])
                    /\ ObjPixel(ppu.obj1d, mem, mem.oam[i], p[1], p[2]) # <<>>})
     IN  IF drawn = <<>> THEN frame[p]
         ELSE ObjPixel(ppu.obj1d, mem, mem.oam[drawn[Len(drawn)]], p[1], p[2])[1]]

RenderFrame(ppu, mem) ==
  LET frame == CASE ppu.mode = 0 -> RenderMode0(ppu, mem)
                 [] ppu.mode = 3 -> RenderMode3(ppu, mem)
                 [] ppu.mode = 4 -> RenderMode4(ppu, mem)
                 [] ppu.mode = 5 -> RenderMode5(ppu, mem)
                 [] OTHER -> [p \in Pixels |-> Black]
  IN  IF ppu.objOn THEN RenderObjs(ppu, mem, frame) ELSE frame

\* supports_scanline_renderer: what the line renderer leaves out is not in use.
SupportsScanlineRenderer(io, oam) ==
  /\ io.mode = 0 /\ io.windows = {} /\ ~io.objWindow
  /\ io.objOn => \A i \in DOMAIN oam : ~Renderable(oam[i])
  /\ io.bld = [mode |-> 0, top |-> {}, lower |-> {}]
  /\ \A bg \in io.bgOn : ~io.bgcnt[bg].mosaic
=============================================================================
