----------------------------- MODULE QueueSpec ------------------------------
(***************************************************************************)
(* What queues.c promises its callers: each queue is a sequence of data,   *)
(* first in, first out, or kept in the order of a comparison, and all      *)
(* queues share one pool of nodes.                                         *)
(***************************************************************************)
EXTENDS Integers, FiniteSets, Sequences

CONSTANTS
  Queues,       \* the queues
  Ordered,      \* those that have a comparison function
  Data,         \* what is queued
  compare(_, _) \* the comparison: negative, zero or positive

VARIABLES
  q,            \* the contents of each queue
  nodes         \* how many nodes are free

\* Where d goes in s: behind all that do not compare greater (and behind
\* everything, in a queue without an order).
Place(s, d, ordered) ==
  {n \in 0 .. Len(s) :
     /\ ordered => \A i \in 1 .. n : compare(s[i], d) <= 0
     /\ n < Len(s) => ordered /\ compare(s[n + 1], d) > 0}

InsertAfter(s, n, d) == SubSeq(s, 1, n) \o <<d>> \o SubSeq(s, n + 1, Len(s))

\* _init_queues gives the pool its nodes.
Init ==
  /\ q = [k \in Queues |-> <<>>]
  /\ nodes \in Nat

Enque(k, d) ==
  /\ nodes > 0
  /\ \E n \in Place(q[k], d, k \in Ordered) :
       q' = [q EXCEPT ![k] = InsertAfter(@, n, d)]
  /\ nodes' = nodes - 1

Deque(k) ==
  /\ q[k] # <<>>
  /\ q' = [q EXCEPT ![k] = Tail(@)]
  /\ nodes' = nodes + 1

Next == \E k \in Queues : Deque(k) \/ \E d \in Data : Enque(k, d)

Spec == Init /\ [][Next]_<<q, nodes>>
-----------------------------------------------------------------------------

\* An ordered queue is sorted by its comparison.
Sorted ==
  \A k \in Ordered : \A i, j \in 1 .. Len(q[k]) :
    i < j => compare(q[k][i], q[k][j]) <= 0
=============================================================================
