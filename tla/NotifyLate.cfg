SPECIFICATION Spec
CONSTANTS
  Calls = 2
  Acked = TRUE
  Locals = 0
INVARIANT WaitPurges
CHECK_DEADLOCK FALSE
