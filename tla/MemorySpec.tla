----------------------------- MODULE MemorySpec -----------------------------
(***************************************************************************)
(* What segment.c promises of physical memory: an allocated block is a run *)
(* of units nobody else has, and a freed one can be allocated again.       *)
(***************************************************************************)
EXTENDS Integers

CONSTANTS
  Units,        \* the allocatable units of memory
  Sizes         \* the sizes that are asked for

VARIABLES
  free,         \* the units that are free
  owned         \* the blocks that are allocated

Run(offset, length) == offset .. offset + length - 1

Init ==
  /\ free = Units
  /\ owned = {}

Alloc(length) ==
  \E offset \in free :
    /\ Run(offset, length) \subseteq free
    /\ free' = free \ Run(offset, length)
    /\ owned' = owned \cup {[offset |-> offset, length |-> length]}

Free(b) ==
  /\ free' = free \cup Run(b.offset, b.length)
  /\ owned' = owned \ {b}

Next == \/ \E length \in Sizes : Alloc(length)
        \/ \E b \in owned : Free(b)

Spec == Init /\ [][Next]_<<free, owned>>
-----------------------------------------------------------------------------

\* Every unit is free or in one allocated block.
NoneLostNoneShared ==
  \A u \in Units :
    /\ u \in free <=> \A b \in owned : u \notin Run(b.offset, b.length)
    /\ \A a, b \in owned :
         u \in Run(a.offset, a.length) \cap Run(b.offset, b.length) => a = b
=============================================================================
