CONSTANTS
  LastSignal = 3
  Virtual = {2}
  Dying = {3}
  ClearsLater = FALSE
  DieCount = 3
  MaxSent = 3
  MaxFrames = 3
  NoSignal = NoSignal
SPECIFICATION FairSpec
INVARIANTS TypeOK NoneStranded HandlerFound MaskOwed OneAtATime
CHECK_DEADLOCK FALSE
PROPERTIES HandlerRuns
