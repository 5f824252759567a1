\* As strict as MPI allows: sends and reductions return only on a match.
SPECIFICATION FairSpec
CONSTANTS
  N = 2
  AddrSpace = 16
  win_base = 4
  win_size = 2
  FilterWindow = TRUE
  UseList = TRUE
  Buffered = FALSE
  Comms <- OneGet
  Touches <- StoreOne
  Ops <- SyncCalls
  Disciplined = TRUE
  MaxCalls = 3
  MaxSend = 1
INVARIANTS RacesCaught AbortJustified IInv
PROPERTY HandlersReturn
CHECK_DEADLOCK FALSE
