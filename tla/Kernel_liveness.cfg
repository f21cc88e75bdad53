\* The clock never stops and wraps every four ticks; memory runs out.
CONSTANTS
  N_PROCESSES = 4
  N_QNODES = 8
  N_SEGMENTS = 2
  TOP_ALIGNED = FALSE
  BUF_SIZE = 1
  TIME_MOD = 4
  SleepTicks <- ShortSleeps
  MAX_TIME = 4
SPECIFICATION FairSpec
PROPERTIES
  ReadyRuns
  SleeperWakes
CHECK_DEADLOCK FALSE
