SPECIFICATION PartsSpec
CONSTANTS
  k1 = k1
  k2 = k2
  k3 = k3
  Keys = {k1, k2, k3}
  HashOf <- HashValues
  ReadOnly = {k1}
  Cells = {m1, m2}
  NoEntry = NoEntry
  FirstSize = 2
  MaxSize = 4
  StudySize = 4
  Holes = {}
  MaxContexts = 2
  MaxSaved = 2
  MaxTmps = 1
  MaxCalls = 2
  Bytes = {b1, b2}
  Fine = Fine
  Failed = Failed
  Eof = Eof
  Junk = Junk
  BufSize = 2
  MaxFile = 3
  Slips = {}
  t1 = t1
  t2 = t2
  t3 = t3
  Threads = {t1, t2, t3}
  Vars = {sem}
  Conds = {sem}
  Sem = sem
  NoThread = NoThread
  NoVar = NoVar
  MaxDepth <- OneDeep
  AbsTimes = {"valid"}
  Calls <- Requested
  NoRequest = NoRequest
  Starts <- OneBelow
  Fewest = 0
  Most = 2
SYMMETRY Symmetry
INVARIANTS HashCoherent HashIterSafe CallersLive SemInvariant NoDownForgotten
PROPERTIES HashEachOnce StreamKept LocalsUndone FreedInTime TokensConserved
