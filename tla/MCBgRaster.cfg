SPECIFICATION Spec
CONSTANTS
  Width = 3
  Height = 2
  Mode5Width = 2
  Mode5Height = 1
  TileSize = 2
  BlockTiles = 2
  Channels = {"r"}
  TotalLines = 4
  Offsets = {0, 5}
  Memory <- MCMemory
  Displays <- MCDisplays
  LineDisplays <- MCLineDisplays
  HandlerWrites <- MCHandlerWrites
INVARIANTS
  TypeOK
  FrameAgreesWithLines
  FrameShowsFront
PROPERTY
  ServedLinesShown
