\* Input that is never quite read empty.
CONSTANTS
  BUF_SIZE = 2
  CR = CR
  LF = LF
  X = X
  Chars <- Characters
  u1 = u1
  u2 = u2
  Procs <- Users
  None = None
SPECIFICATION Spec
INVARIANTS
  NoInputOverrun
CHECK_DEADLOCK FALSE
