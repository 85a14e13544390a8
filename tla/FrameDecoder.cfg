SPECIFICATION Spec
CONSTANTS
  HeaderSize = 2
  MaxFrame = 2
  RecvChunk = 5
  MaxFrames = 3
INVARIANTS
  StreamIntact
PROPERTIES
  FramesDecided
CHECK_DEADLOCK FALSE
