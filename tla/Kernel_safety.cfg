\* Two user processes beside the first and the idle one; no clock wrap,
\* and a last segment at the top of memory.
CONSTANTS
  N_PROCESSES = 4
  N_QNODES = 8
  N_SEGMENTS = 4
  TOP_ALIGNED = TRUE
  BUF_SIZE = 2
  TIME_MOD = 16
  SleepTicks <- ShortSleeps
  MAX_TIME = 5
SPECIFICATION Spec
INVARIANTS
  TypeOK
  OneQueuePerPcb
  KernelProcesses
  NoQueuePanic
  NoReaderMissesInput
  EachSegmentHasOneOwner
PROPERTIES
  WakesOnTime
  NoOvertaking
  ChildRunsFirst
  DispatchesBest
CHECK_DEADLOCK FALSE
