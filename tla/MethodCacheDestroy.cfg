SPECIFICATION MethodSpec
CONSTANTS
  A = A
  B = B
  C = C
  U = U
  Classes = {A, B, C, U}
  Universal = U
  Objects = {A, B, C, U}
  Parents <- Chain
  Bodies <- Subs
  NoSub = NoSub
  Unset = Unset
INVARIANT DestroyFound
