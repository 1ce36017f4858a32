CONSTANTS
  Modes = {"lines", "bytes"}
  LinesPerChunk = 2
  BytesPerChunk = 4
  Buffers <- AllBuffers
  MaxInput = 10
SPECIFICATION Spec
INVARIANTS NothingLost ChunksWithinLimit
PROPERTY ImplementsOutput
CHECK_DEADLOCK FALSE
