\* Windows created, freed and created again, with epochs that overlap.
SPECIFICATION Spec
CONSTANTS
  p0 = p0
  p1 = p1
  v = v
  w = w
  Procs <- TwoProcs
  Wins <- TwoWins
  Calls <- AllCalls
  RMA_ANALYZER_BASE_MPI_TAG = 5
  RMA_ANALYZER_MAX_EPOCH_NUMBER = 3
  RMA_ANALYZER_MAX_WIN = 2
  hashv <- Hashes
  HASH_INITIAL_NUM_BUCKETS = 1
  HASH_BKT_CAPACITY_THRESH = 2
  MaxEpochs = 3
  MaxOps = 6
  Disciplined = FALSE
  InOrder = TRUE
  Targets <- Other
  MaxSend = 1
SYMMETRY Alike
INVARIANTS WindowsTypeOK RangesAccounted TagsApart TagsAgree
  TablesSound TablesFind TablesAgree ReceivesOwn NoIntervalLeft ExpectedCounted EpochsProfiled
