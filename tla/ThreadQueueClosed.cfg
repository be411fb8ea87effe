SPECIFICATION FairSpec
CONSTANTS
  Threads = {t1, t2, t3}
  Batches = {0, 1, 2}
  Counts = {1, 2}
  Indices <- AroundTheHead
  Limits = {0, 1}
  MaxItems = 3
  Idle = Idle

PROPERTIES EndedStaysClosed
