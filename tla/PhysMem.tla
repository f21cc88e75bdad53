------------------------------ MODULE PhysMem -------------------------------
(***************************************************************************)
(* segment.c: the first-fit allocator of physical memory, its sorted list  *)
(* of free blocks and its pool of list nodes.                              *)
(*                                                                         *)
(* A list of nodes is the sequence of its blocks; the pool is the number   *)
(* of its nodes.  Memory counts in units, so that one unit is the greatest *)
(* common divisor of all sizes.  The callers keep what they allocate in a  *)
(* PCB and free only that: owned has the blocks they hold.                 *)
(***************************************************************************)
EXTENDS Integers, FiniteSets, SequencesExt

CONSTANTS
  g_kernel_start,       \* where the kernel image begins ...
  g_kernel_length,      \* ... and how long it is
  g_physical_memory,    \* where memory ends
  MAX_BLOCKS,           \* list nodes
  Sizes                 \* arguments of _phys_alloc

ASSUME MemoryAssumption ==
  /\ g_kernel_start \in Nat /\ g_kernel_length \in Nat \ {0}
  /\ g_physical_memory \in Nat
  /\ g_physical_memory > g_kernel_start + g_kernel_length
  /\ MAX_BLOCKS \in Nat \ {0}
  /\ Sizes \subseteq Nat \ {0}

VARIABLES
  g_freemem,    \* the free blocks, lowest first
  g_nodepool,   \* how many list nodes are unused
  owned,        \* the blocks the callers hold
  mstat         \* running or panicked (why)

vars == <<g_freemem, g_nodepool, owned, mstat>>

Block(offset, length) == [offset |-> offset, length |-> length]
End(b) == b.offset + b.length
Bottom == g_kernel_start + g_kernel_length

\* _init_memory
Init ==
  /\ g_freemem = <<Block(Bottom, g_physical_memory - Bottom)>>
  /\ g_nodepool = MAX_BLOCKS - 1
  /\ owned = {}
  /\ mstat = "running"

\* A panic halts the kernel with the handler half done.
Panic(why) ==
  /\ mstat' = why
  /\ UNCHANGED <<g_freemem, g_nodepool, owned>>

\* The first free block that is large enough, taken from the list (low end
\* first); its node goes back to the pool when all of it is taken.
Fault_FirstFit(size) ==
  {i \in DOMAIN g_freemem : /\ g_freemem[i].length >= size - 1
                            /\ \A j \in 1 .. i - 1 : g_freemem[j].length < size}
FirstFit(size) ==
  {i \in DOMAIN g_freemem : /\ g_freemem[i].length >= size
                            /\ \A j \in 1 .. i - 1 : g_freemem[j].length < size}

Fault_TakeNothing(i, size) ==
  LET b == g_freemem[i]
  IN  IF b.length = size
      THEN /\ g_freemem' = RemoveAt(g_freemem, i)
           /\ g_nodepool' = g_nodepool + 1
      ELSE /\ g_freemem' = [g_freemem EXCEPT
                              ![i] = Block(b.offset, b.length - size)]
           /\ UNCHANGED g_nodepool
TakeLow(i, size) ==
  LET b == g_freemem[i]
  IN  IF b.length = size
      THEN /\ g_freemem' = RemoveAt(g_freemem, i)
           /\ g_nodepool' = g_nodepool + 1
      ELSE /\ g_freemem' = [g_freemem EXCEPT
                              ![i] = Block(b.offset + size, b.length - size)]
           /\ UNCHANGED g_nodepool

\* _phys_alloc; when nothing fits it returns 0 and changes nothing.
_phys_alloc(size) ==
  /\ mstat = "running"
  /\ \E i \in FirstFit(size) :
       /\ TakeLow(i, size)
       /\ owned' = owned \cup {Block(g_freemem[i].offset, size)}
  /\ UNCHANGED mstat

\* The range check of _phys_free.
InRange(mem) == mem.offset >= g_kernel_start /\ End(mem) < g_physical_memory

\* mem is freed between block n and block n + 1 of the list (either may be
\* missing): the blocks it touches are merged into one.
Fault_GiveBack(mem, n) ==
  LET below == n > 0 /\ End(g_freemem[n]) = mem.offset
      above == ~below /\ n < Len(g_freemem)
                 /\ g_freemem[n + 1].offset = End(mem)
      lo == IF below THEN g_freemem[n].offset ELSE mem.offset
      hi == IF above THEN End(g_freemem[n + 1]) ELSE End(mem)
  IN  /\ g_freemem' = SubSeq(g_freemem, 1, IF below THEN n - 1 ELSE n)
                        \o <<Block(lo, hi - lo)>>
                        \o SubSeq(g_freemem, IF above THEN n + 2 ELSE n + 1,
                                  Len(g_freemem))
      /\ g_nodepool' = g_nodepool - (IF below \/ above THEN 0 ELSE 1)
Fault_GiveBackLeak(mem, n) ==
  LET below == n > 0 /\ End(g_freemem[n]) = mem.offset
      above == n < Len(g_freemem) /\ g_freemem[n + 1].offset = End(mem)
      lo == IF below THEN g_freemem[n].offset ELSE mem.offset
      hi == IF above THEN End(g_freemem[n + 1]) ELSE End(mem)
  IN  /\ g_freemem' = SubSeq(g_freemem, 1, IF below THEN n - 1 ELSE n)
                        \o <<Block(lo, hi - lo)>>
                        \o SubSeq(g_freemem, IF above THEN n + 2 ELSE n + 1,
                                  Len(g_freemem))
      /\ g_nodepool' = g_nodepool - (IF below \/ above THEN 0 ELSE 1)
GiveBack(mem, n) ==
  LET below == n > 0 /\ End(g_freemem[n]) = mem.offset
      above == n < Len(g_freemem) /\ g_freemem[n + 1].offset = End(mem)
      lo == IF below THEN g_freemem[n].offset ELSE mem.offset
      hi == IF above THEN End(g_freemem[n + 1]) ELSE End(mem)
  IN  /\ g_freemem' = SubSeq(g_freemem, 1, IF below THEN n - 1 ELSE n)
                        \o <<Block(lo, hi - lo)>>
                        \o SubSeq(g_freemem, IF above THEN n + 2 ELSE n + 1,
                                  Len(g_freemem))
      /\ g_nodepool' = g_nodepool + (IF below THEN 1 ELSE 0)
                                  + (IF above THEN 1 ELSE 0) - 1

\* How many blocks of the list are in front of mem.
InFront(mem) == Cardinality({i \in DOMAIN g_freemem :
                               g_freemem[i].offset <= mem.offset})

\* A block of its own needs a node.
NeedsNode(mem) == \A i \in DOMAIN g_freemem : /\ End(g_freemem[i]) # mem.offset
                                              /\ g_freemem[i].offset # End(mem)

_phys_free(mem) ==
  /\ mstat = "running"
  /\ IF ~InRange(mem) THEN Panic("panic_range")
     ELSE IF NeedsNode(mem) /\ g_nodepool = 0 THEN Panic("panic_nodes")
     ELSE /\ GiveBack(mem, InFront(mem))
          /\ owned' = owned \ {mem}
          /\ UNCHANGED mstat

Next == \/ \E size \in Sizes : _phys_alloc(size)
        \/ \E mem \in owned : _phys_free(mem)

Spec == Init /\ [][Next]_vars
-----------------------------------------------------------------------------

TypeOK ==
  /\ \A i \in DOMAIN g_freemem :
       g_freemem[i] \in [offset : Nat, length : Nat \ {0}]
  /\ g_nodepool \in 0 .. MAX_BLOCKS
  /\ mstat \in {"running", "panic_range", "panic_nodes"}

\* The free list is sorted, and two free blocks never touch: _phys_free
\* leaves no fragmentation behind.
SortedAndMerged ==
  \A i \in 1 .. Len(g_freemem) - 1 :
    End(g_freemem[i]) < g_freemem[i + 1].offset

\* Every list node is in the free list or in the pool.
NodesKept == Len(g_freemem) + g_nodepool = MAX_BLOCKS

\* One node more than blocks allocated is enough: the panic "free block node
\* pool exhausted" needs MAX_BLOCKS or more allocated blocks.
NodesSuffice == Len(g_freemem) <= Cardinality(owned) + 1

\* The allocator hands out memory that is in nobody's use and forgets none.
FreeUnits == UNION {g_freemem[i].offset .. End(g_freemem[i]) - 1 :
                      i \in DOMAIN g_freemem}
Abstract == INSTANCE MemorySpec
  WITH Units <- Bottom .. g_physical_memory - 1, free <- FreeUnits
ImplementsMemory == Abstract!Spec
NoneLostNoneShared == Abstract!NoneLostNoneShared

\* What was allocated can be freed: the panic "block exists out of allocatable
\* range" is for blocks that _phys_alloc did not hand out.
AllocatedIsInRange == mstat # "panic_range"
=============================================================================
