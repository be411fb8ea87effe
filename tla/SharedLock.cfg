SPECIFICATION FairSpec
CONSTANTS
  x = x
  y = y
  Threads = {t1, t2, t3}
  Vars = {x, y}
  Conds = {x}
  NoThread = NoThread
  NoVar = NoVar
  MaxDepth <- TwiceX
  AbsTimes = {"valid", "invalid"}
INVARIANTS TypeOK MutualExclusion DepthKept NoSleeperForgotten
PROPERTIES MonitorSpec LockHandedOver
