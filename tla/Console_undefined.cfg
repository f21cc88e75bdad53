\* A key without a character on the scan code table, with and without Ctrl.
CONSTANTS
  BUF_SIZE = 2
  CR = CR
  LF = LF
  X = X
  Chars <- Characters
  u1 = u1
  u2 = u2
  Procs <- Users
  None = None
  SCREEN_X_SIZE = 3
  SCREEN_Y_SIZE = 3
  C_BUFSIZE = 3
  Uses <- ConsoleUses
SPECIFICATION DSpec
PROPERTIES
  UndefinedIgnored
CHECK_DEADLOCK FALSE
