\* The idle process and two others, the first process among them until it
\* exits and its PCB is used again; segments for both and one to exec into,
\* and just as many slots as SlotAssumption asks for.  Yielding and reading
\* change the current process, so the clock may stand still.
CONSTANTS
  N_PROCESSES = 3
  N_QNODES = 6
  N_SEGMENTS = 3
  TOP_ALIGNED = FALSE
  BUF_SIZE = 1
  TIME_MOD = 4
  SleepTicks = {}
  MAX_TIME = 0
  GDT_MAX = 13
  Values = {"old", "new"}
  Programs = {"new"}
SPECIFICATION ASpec
INVARIANTS
  EachRunsInItsSegment
  SlotsConserved
  NoSlotPanic
PROPERTIES
  ImplementsProcesses
CHECK_DEADLOCK FALSE
