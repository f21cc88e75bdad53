\* Serial line: two processes, three characters, buffers of two.  Console: a
\* screen of three by three, and a ring for two keystrokes.
CONSTANTS
  BUF_SIZE = 2
  CR = CR
  LF = LF
  X = X
  Chars <- Characters
  u1 = u1
  u2 = u2
  Procs <- Users
  None = None
  SCREEN_X_SIZE = 3
  SCREEN_Y_SIZE = 3
  C_BUFSIZE = 3
  Uses <- ConsoleUses
SPECIFICATION DFairSpec
INVARIANTS
  PumpPrimed
  CrBeforeLf
  WindowShowsText
  FieldsAsDocumented
PROPERTIES
  ImplementsSio
  BurstEnds
  InputAsTyped
  RegionsSeparate
CHECK_DEADLOCK FALSE
