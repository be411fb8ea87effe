CONSTANTS
  LastSignal = 2
  Virtual = {}
  Dying = {1}
  ClearsLater = FALSE
  DieCount = 3
  MaxSent = 2
  MaxFrames = 3
  NoSignal = NoSignal
SPECIFICATION FairSpec
CHECK_DEADLOCK FALSE
PROPERTIES HandlerRuns
