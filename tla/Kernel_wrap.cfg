\* System time wraps around at eight ticks, and goes on.
CONSTANTS
  N_PROCESSES = 4
  N_QNODES = 8
  N_SEGMENTS = 3
  TOP_ALIGNED = FALSE
  BUF_SIZE = 1
  TIME_MOD = 8
  SleepTicks <- ShortSleeps
  MAX_TIME = 8
SPECIFICATION Spec
PROPERTIES
  NoEarlyWakeup
CHECK_DEADLOCK FALSE
