SPECIFICATION FairSpec
CONSTANTS
  x = x
  y = y
  Threads = {t1, t2}
  Vars = {x}
  Conds = {x}
  NoThread = NoThread
  NoVar = NoVar
  MaxDepth <- OnceEach
  AbsTimes = {"valid", "invalid"}
PROPERTIES ScopesEnd
