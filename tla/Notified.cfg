SPECIFICATION FairSpec
CONSTANTS
  Calls = 3
  Acked = FALSE
  Locals = 2
INVARIANTS NotifiedTypeOK TreesAgree EarlyIntervalsPurged EpochLeavesNothing
PROPERTY EpochEnds
CHECK_DEADLOCK FALSE
