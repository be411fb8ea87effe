SPECIFICATION BothSpec
CONSTANTS
  Threads = {t1, t2, t3}
  Batches = {0, 1, 2}
  Counts = {1, 2}
  Indices <- AroundTheHead
  Limits = {0, 1}
  MaxItems = 3
  Idle = Idle
  A = A
  B = B
  C = C
  U = U
  Classes = {A, B, C, U}
  Universal = U
  Objects = {C}
  Parents <- Lists
  Bodies <- Subs
  NoSub = NoSub
  Unset = Unset
INVARIANTS TypeOK ItemsConserved MethodFound LinearCurrent HeirsKnown
PROPERTIES OrderKept NoOvershoot EndUnblocksUnlimited SingleTakersServed
