CONSTANTS
  N = 3
  PoolThreads = 4
  ChanCap = 1
  Orders <- QueueOrder
  Batches <- ThreeEach
  Forking <- Nobody
  MayFail = FALSE
SPECIFICATION FairSpec
PROPERTY NeverExhausted
CHECK_DEADLOCK FALSE
