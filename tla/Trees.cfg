\* Low bounds of their own: the two trees stay in step.
SPECIFICATION NotifSpec
CONSTANTS
  AddrSpace = 32
  Itvs <- Crossed
INVARIANTS TreeTypeOK AvlShape HoldsSaved SameNotified FoundById
  ListReportsAll
PROPERTIES ImplementsStore ClearsNoOther
CHECK_DEADLOCK FALSE
