SPECIFICATION Spec
CONSTANTS
  N = 2
  AddrSpace = 16
  win_base = 4
  win_size = 2
  FilterWindow = TRUE
  UseList = FALSE
  Buffered = TRUE
  Comms = {}
  Touches = {}
  Ops <- PassCalls
  Disciplined = FALSE
  MaxCalls = 4
  MaxSend = 1
INVARIANTS
 RestartOnlyInEpoch
