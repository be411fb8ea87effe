SPECIFICATION LifetimesSpec
CONSTANTS
  Main = Main
  NumThreads = 2
  MaxObjects = 1
  FailsInCompany = FALSE
  Nobody = Nobody
  s1 = s1
  s2 = s2
  s3 = s3
  P1 = P1
  P2 = P2
  Svs = {s1, s2, s3}
  Packages = {P1, P2}
  Into <- Blessings
  NoSv = NoSv
  NoPackage = NoPackage
SYMMETRY Symmetry
INVARIANTS TypeOK RefsCounted NoUseAfterFree InterpreterLives CountersAgree PoolOutlives SvCounted SvWeakCoherent SvFreedOnce
CHECK_DEADLOCK FALSE
