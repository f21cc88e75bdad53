\* Memory ends where a block ends, as it does with whole megabytes.
CONSTANTS
  g_kernel_start = 1
  g_kernel_length = 1
  g_physical_memory = 8
  MAX_BLOCKS = 4
  Sizes = {2}
SPECIFICATION Spec
INVARIANTS
  AllocatedIsInRange
CHECK_DEADLOCK FALSE
