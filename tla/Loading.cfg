\* Two sectors to a track, two heads, two tracks: the boot file and two
\* programs of three sectors fill the disk.  64K are two sectors.  The table has
\* room for two programs, info for three.  Execve: words of two bytes, a stack
\* of 16, segments that differ in all fields of a descriptor's base.
CONSTANTS
  SECTOR = 2
  OFFSETS = 4
  SEGMENTS = 32
  MEM_TOP = 12
  SPARE = 8
  N_INFO = 11
  Sizes = {1, 2, 3}
  Addresses <- MCAddresses
  MAX_FILES = 4
  max_sec = 3
  max_head = 2
  TRACKS = 2
  BOOT = 0
  WORD = 2
  STACK = 16
  CONTEXT = 2
  N_OFFSETS = 2
  SEGMENT_SIZE = 24
  Segments = {9, 38}
  MEMORY = 62
  Images <- MCImages
  Calls <- MCCalls
  LOW = 4
  MID = 4
  PAGE = 8
  EXIT = 99
SPECIFICATION LSpec
INVARIANTS
  ProgramStarts
  ArgumentsReachMain
PROPERTIES
  ImplementsBoot
  BootEnds
CHECK_DEADLOCK FALSE
