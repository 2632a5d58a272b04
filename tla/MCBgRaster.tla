----------------------------- MODULE MCBgRaster -----------------------------
EXTENDS BgRaster

Color(n) == [c \in Channels |-> n]
Blocks == 0..4

\* Map entries vary with block and cell; tile 2 lies beyond VRAM.
Entry(block, cell) ==
  [tile |-> (block + cell[1]) % 3, hflip |-> cell[1] = 1, vflip |-> cell[2] = 1,
   bank |-> block % 2]
MCObj(x, y, prio, affine, double, size) ==
  [x |-> x, y |-> y, prio |-> prio, affine |-> affine, double |-> double,
   special |-> FALSE, is8bpp |-> FALSE, shape |-> 0, size |-> size, tile |-> size,
   param |-> size + 1, bank |-> size]
MCMemory ==
  [palette |-> [i \in 0..255 |-> Color((255 - i) % 32)],
   objPalette |-> [i \in 0..255 |-> Color(i % 32)],
   vram |->
     [map |-> [b \in Blocks |-> [cell \in Cells |-> Entry(b, cell)]],
      tiles |-> [t \in {0} \X BOOLEAN \X {0, 1} |->
                  [p \in TilePixels |-> (t[3] + p[1] + 2 * p[2]) % 4]],
      pixels |-> [i \in Cover(Width, Height) |-> Color(i + 1)],
      indices |-> [page \in BOOLEAN |-> [i \in Cover(Width, Height) |->
                    IF page THEN 2 * i ELSE i]],
      pages |-> [page \in BOOLEAN |-> [i \in Cover(Mode5Width, Mode5Height) |->
                    Color(IF page THEN 30 ELSE i)]],
      objTiles |-> [tile \in 0..33 |-> [p \in TilePixels |-> (tile + p[1]) % 3]]],
   affine |-> << [pa |-> 256, pb |-> 0, pc |-> 0, pd |-> 65536 - 256],
                 [pa |-> 128, pb |-> 0, pc |-> 0, pd |-> 128] >>,
   oam |-> << MCObj(0, 0, 1, FALSE, FALSE, 0), MCObj(1, 0, 1, FALSE, FALSE, 1),
              MCObj(511, 255, 2, TRUE, TRUE, 0), MCObj(1, 1, 0, TRUE, FALSE, 1),
              MCObj(0, 0, 0, FALSE, TRUE, 0) >>]

MCBgcnt(prios, size, is8bpp) ==
  [bg \in Bgs |-> [prio |-> prios[bg + 1], screen |-> bg % 2, char |-> 0,
                   is8bpp |-> is8bpp, size |-> size, mosaic |-> FALSE]]
Plain ==
  [mode |-> 0, backbuffer |-> FALSE, obj1d |-> FALSE, bgOn |-> {0, 1},
   objOn |-> FALSE, windows |-> {}, objWindow |-> FALSE,
   bgcnt |-> MCBgcnt(<<1, 1, 0, 3>>, 3, FALSE),
   pa |-> 256, pb |-> 0, pc |-> 0, pd |-> 256, x |-> 0, y |-> 0,
   win |-> [w \in {0, 1} |-> [left |-> w, right |-> w + 1, top |-> 0, bottom |-> 9]],
   winin |-> [w \in {0, 1} |-> {w}], winout |-> {0, 1, 5, 7},
   mosaic |-> [w |-> 1, h |-> 0], bld |-> [mode |-> 0, top |-> {}, lower |-> {}],
   eva |-> 0, evb |-> 0, evy |-> 0]
Effect(mode) == [mode |-> mode, top |-> {0, 1, 2}, lower |-> {0, 1, 5}]
Bitmap(mode) ==
  [Plain EXCEPT !.mode = mode, !.bgOn = {2}, !.backbuffer = TRUE, !.objOn = TRUE]
MCDisplays ==
  { Plain,
    [Plain EXCEPT !.bgOn = Bgs, !.bgcnt = MCBgcnt(<<2, 0, 2, 1>>, 1, TRUE),
                  !.windows = {0, 1}],
    [Plain EXCEPT !.bld = Effect(1), !.eva = 16, !.evb = 12, !.objWindow = TRUE,
                  !.bgcnt = MCBgcnt(<<1, 1, 0, 3>>, 2, FALSE)],
    [Plain EXCEPT !.bld = Effect(2), !.evy = 20],
    [Plain EXCEPT !.bld = Effect(3), !.evy = 7, !.objOn = TRUE, !.obj1d = TRUE],
    [Bitmap(3) EXCEPT !.x = 2 ^ 28 - 256, !.bgcnt[2].mosaic = TRUE],
    [Bitmap(4) EXCEPT !.pb = 128], Bitmap(5), Bitmap(1) }
MCLineDisplays == {Plain, Bitmap(5)}
MCHandlerWrites == {<<"hofs", 0>>}
=============================================================================
