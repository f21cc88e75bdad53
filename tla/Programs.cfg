\* Workloads of the user programs, each loop run twice, on four PCBs; the clock never
\* stops and wraps every four ticks.
CONSTANTS
  N_PROCESSES = 4
  N_QNODES = 8
  N_SEGMENTS = 4
  TOP_ALIGNED = FALSE
  BUF_SIZE = 1
  TIME_MOD = 4
  SleepTicks <- ShortSleeps
  MAX_TIME = 4
  ROUNDS = 2
  FORKS = 2
  PID_MOD = 16
  Workloads <- Mixed
SPECIFICATION PFairSpec
INVARIANTS
  CallsTakenForGranted
  OutputComplete
PROPERTIES
  WorkloadEnds
CHECK_DEADLOCK FALSE
