SPECIFICATION FairSpec
CONSTANTS
  Threads = {t1, t2, t3}
  Batches = {1, 2}
  Counts = {1}
  Indices <- AroundTheHead
  Limits = {1}
  MaxItems = 3
  Idle = Idle

PROPERTIES EndUnblocks
