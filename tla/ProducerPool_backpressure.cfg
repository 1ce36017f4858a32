CONSTANTS
  N = 2
  PoolThreads = 5
  RawCap = 1
  ChanCap = 1
  MaxBatches = 2
  MayDrop = TRUE
SPECIFICATION MCSpec
PROPERTIES ImplementsStreams StageEnds
