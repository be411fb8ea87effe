CONSTANTS
  LastSignal = 2
  Virtual = {}
  Dying = {}
  ClearsLater = TRUE
  DieCount = 3
  MaxSent = 2
  MaxFrames = 3
  NoSignal = NoSignal
SPECIFICATION Spec
INVARIANTS HandlerFound
CHECK_DEADLOCK FALSE
