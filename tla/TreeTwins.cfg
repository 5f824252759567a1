\* Low bounds that repeat.
SPECIFICATION NotifSpec
CONSTANTS
  AddrSpace = 32
  Itvs <- Twins
PROPERTY ClearsNoOther
CHECK_DEADLOCK FALSE
