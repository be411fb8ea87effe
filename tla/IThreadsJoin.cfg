SPECIFICATION FairSpec
CONSTANTS
  Main = Main
  NumThreads = 1
  MaxObjects = 1
  FailsInCompany = FALSE
  Nobody = Nobody
PROPERTIES JoinEnds
CHECK_DEADLOCK FALSE
