SPECIFICATION Spec
CONSTANTS
  FbW = 5
  FbH = 4
  Slots = 2
  B = 2
  WordBits = 9
  PosBits = 2
  ColorBits = 1
  MaxRun = 2
  DcTab <- MCDcTab
  AcTab <- MCAcTab
  Streams <- MCStreams
INVARIANTS TypeOK HuffmanSound PaintExact RasterInTile
PROPERTIES WritesForward DecodeEnds
CHECK_DEADLOCK FALSE
