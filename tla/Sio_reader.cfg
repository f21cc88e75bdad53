\* One user process that waits for a character.
CONSTANTS
  BUF_SIZE = 2
  CR = CR
  LF = LF
  X = X
  Chars <- Characters
  u1 = u1
  u2 = u2
  Procs <- Users
  None = None
SPECIFICATION Spec
PROPERTIES
  WokenReaderGetsCharacter
CHECK_DEADLOCK FALSE
