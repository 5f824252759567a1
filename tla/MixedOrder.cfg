\* Each process ends epochs that are open together in an order of its own.
SPECIFICATION Spec
CONSTANTS
  p0 = p0
  p1 = p1
  v = v
  w = w
  Procs <- TwoProcs
  Wins <- TwoWins
  Calls <- AllCalls
  RMA_ANALYZER_BASE_MPI_TAG = 5
  RMA_ANALYZER_MAX_EPOCH_NUMBER = 2
  RMA_ANALYZER_MAX_WIN = 2
  hashv <- Hashes
  HASH_INITIAL_NUM_BUCKETS = 1
  HASH_BKT_CAPACITY_THRESH = 2
  MaxEpochs = 2
  MaxOps = 5
  Disciplined = FALSE
  InOrder = FALSE
  Targets <- Other
  MaxSend = 1
INVARIANT ExpectedCounted
CHECK_DEADLOCK FALSE
