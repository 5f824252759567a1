SPECIFICATION FairSpec
CONSTANTS
  Calls = 2
  Acked = TRUE
  Locals = 0
PROPERTY WaitReturns
CHECK_DEADLOCK FALSE
