SPECIFICATION Spec
CONSTANTS
  N = 2
  AddrSpace = 16
  win_base = 4
  win_size = 2
  FilterWindow = TRUE
  UseList = FALSE
  Buffered = TRUE
  Comms <- OnePut
  Touches = {}
  Ops <- SyncCalls
  Disciplined = TRUE
  MaxCalls = 3
  MaxSend = 1
INVARIANTS
  TypeOK
  NoStragglers
  EpochComplete
  OneEpochPerTree
  ThreadsOwned
  AbortJustified
  FreeIsClean
PROPERTY ImplementsService
