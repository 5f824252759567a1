SPECIFICATION NotifSpec
CONSTANTS
  AddrSpace = 32
  Itvs <- Reaching
INVARIANT SearchFindsOverlap
CHECK_DEADLOCK FALSE
