CONSTANTS
  N = 2
  PoolThreads = 4
  ChanCap = 1
  Orders <- EitherOrder
  Batches <- FourAndTwo
  Forking <- First
  MayFail = TRUE
SPECIFICATION FairSpec
INVARIANT NothingMissing
PROPERTY PoolIsFreed
CHECK_DEADLOCK FALSE
