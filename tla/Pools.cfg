\* Every sequence of calls on two queues that share four nodes; and eight
\* units of memory above the kernel, with blocks of one, two and three.
CONSTANTS
  N_QNODES = 4
  ready = ready
  sleeping = sleeping
  QueueNames <- Names
  Ordered <- Sorted
  Data = {1, 2, 3}
  compare <- cmp
  g_kernel_start = 1
  g_kernel_length = 1
  g_physical_memory = 10
  MAX_BLOCKS = 3
  Sizes = {1, 2, 3}
SPECIFICATION PSpec
INVARIANTS
  NoNodeLost
  WellLinked
  SleepersSorted
  SortedAndMerged
  NodesKept
  NodesSuffice
  NoneLostNoneShared
PROPERTIES
  ImplementsQueues
  ImplementsMemory
CHECK_DEADLOCK FALSE
