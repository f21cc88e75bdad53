------------------------------- MODULE Queues -------------------------------
(***************************************************************************)
(* queues.c: doubly linked lists of nodes taken from one pool.             *)
(*                                                                         *)
(* A node is a number; 0 is the null pointer.  A queue without comparison  *)
(* appends; one with a comparison walks to the first node that compares    *)
(* greater.  Each call is one step: the kernel calls with interrupts off.  *)
(***************************************************************************)
EXTENDS Integers, FiniteSets, Sequences

CONSTANTS
  N_QNODES,     \* nodes in the pool
  QueueNames,   \* the queues
  Ordered,      \* those that have a comparison function
  Data,         \* what is queued
  compare(_, _) \* the comparison: negative, zero or positive

Nodes == 1 .. N_QNODES
NULL == 0

ASSUME QueuesAssumption ==
  /\ N_QNODES \in Nat
  /\ Ordered \subseteq QueueNames /\ NULL \notin QueueNames
  /\ \A a, b \in Data : compare(a, b) \in Int

VARIABLES
  data, next, prev,     \* the fields of each node (type is never read back)
  front, back,          \* the two ends of each queue
  g_free_qnodes         \* the first free node; free nodes are linked by next

qvars == <<data, next, prev, front, back, g_free_qnodes>>

\* The sequence of the nodes reached from n by links, at most fuel of them.
Links == Nodes \cup {NULL}
Walk(links) ==
  LET walk[fuel \in 0 .. N_QNODES] ==
        [n \in Links |-> IF n = NULL \/ fuel = 0 THEN <<>>
                         ELSE <<n>> \o walk[fuel - 1][links[n]]]
  IN  walk
Chain(links, n) == Walk(links)[N_QNODES][n]

\* The contents of queue k, front first.
Contents(k) == LET c == Chain(next, front[k]) IN [i \in DOMAIN c |-> data[c[i]]]

\* _init_queues frees the nodes one by one, so the last is the first free.
QInit ==
  /\ next = [n \in Nodes |-> n - 1]
  /\ prev = [n \in Nodes |-> NULL]
  /\ data = [n \in Nodes |-> NULL]
  /\ front = [k \in QueueNames |-> NULL]
  /\ back = [k \in QueueNames |-> NULL]
  /\ g_free_qnodes = N_QNODES

\* Where the new node for d goes in queue k: in front of the first node that
\* compares greater, at the end (NULL) if there is none or no comparison.
Fault_FirstGreater(k, d) ==
  LET c == Chain(next, front[k])
      less == {i \in DOMAIN c : k \in Ordered /\ compare(data[c[i]], d) < 0}
  IN  IF less = {} THEN NULL
      ELSE c[CHOOSE i \in less : \A j \in less : i <= j]
FirstGreater(k, d) ==
  LET c == Chain(next, front[k])
      greater == {i \in DOMAIN c : k \in Ordered /\ compare(data[c[i]], d) > 0}
  IN  IF greater = {} THEN NULL
      ELSE c[CHOOSE i \in greater : \A j \in greater : i <= j]

\* A new last node.
Fault_AppendNode(k, qn) ==
  /\ prev' = [prev EXCEPT ![qn] = back[k]]
  /\ front' = IF back[k] = NULL THEN [front EXCEPT ![k] = qn] ELSE front
  /\ next' = [n \in Nodes |-> IF n = qn THEN NULL
                              ELSE IF n = front[k] THEN qn
                              ELSE next[n]]
  /\ back' = [back EXCEPT ![k] = qn]
AppendNode(k, qn) ==
  /\ prev' = [prev EXCEPT ![qn] = back[k]]
  /\ front' = IF back[k] = NULL THEN [front EXCEPT ![k] = qn] ELSE front
  /\ next' = [n \in Nodes |-> IF n = qn THEN NULL
                              ELSE IF n = back[k] THEN qn
                              ELSE next[n]]
  /\ back' = [back EXCEPT ![k] = qn]

\* A new first or middle node, in front of current.
Fault_InsertNode(k, qn, current) ==
  /\ next' = [n \in Nodes |-> IF n = qn THEN current
                              ELSE IF n = prev[current] THEN qn
                              ELSE next[n]]
  /\ prev' = [prev EXCEPT ![qn] = prev[current]]
  /\ front' = IF prev[current] = NULL THEN [front EXCEPT ![k] = qn] ELSE front
  /\ back' = back
InsertNode(k, qn, current) ==
  /\ next' = [n \in Nodes |-> IF n = qn THEN current
                              ELSE IF n = prev[current] THEN qn
                              ELSE next[n]]
  /\ prev' = [prev EXCEPT ![qn] = prev[current], ![current] = qn]
  /\ front' = IF prev[current] = NULL THEN [front EXCEPT ![k] = qn] ELSE front
  /\ back' = back

\* _enque; with no free node it returns ERR_QNODE and changes nothing.
_enque(k, d) ==
  /\ g_free_qnodes # NULL
  /\ LET qn == g_free_qnodes
         current == FirstGreater(k, d)
     IN  /\ g_free_qnodes' = next[qn]
         /\ data' = [data EXCEPT ![qn] = d]
         /\ IF current = NULL THEN AppendNode(k, qn)
                              ELSE InsertNode(k, qn, current)

\* _deque; from an empty queue it returns ERR_EMPTYQ and changes nothing.
Fault_deque(k) ==
  /\ front[k] # NULL
  /\ LET qn == front[k]
         f == next[qn]
     IN  /\ front' = [front EXCEPT ![k] = f]
         /\ back' = back
         /\ prev' = [n \in Nodes |-> IF n \in {qn, f} THEN NULL ELSE prev[n]]
         /\ next' = [next EXCEPT ![qn] = g_free_qnodes]
         /\ g_free_qnodes' = qn
  /\ UNCHANGED data
_deque(k) ==
  /\ front[k] # NULL
  /\ LET qn == front[k]
         f == next[qn]
     IN  /\ front' = [front EXCEPT ![k] = f]
         /\ back' = IF f = NULL THEN [back EXCEPT ![k] = NULL] ELSE back
         /\ prev' = [n \in Nodes |-> IF n \in {qn, f} THEN NULL ELSE prev[n]]
         /\ next' = [next EXCEPT ![qn] = g_free_qnodes]
         /\ g_free_qnodes' = qn
  /\ UNCHANGED data

QNext == \E k \in QueueNames : _deque(k) \/ \E d \in Data : _enque(k, d)

QSpec == QInit /\ [][QNext]_qvars
-----------------------------------------------------------------------------

\* The free list and the queues.
Lists == [h \in QueueNames \cup {NULL} |->
            Chain(next, IF h = NULL THEN g_free_qnodes ELSE front[h])]

\* Every node is on the free list or in one queue, and there only once:
\* _enque and _deque never lose a node and never share one.
NoNodeLost ==
  \A n \in Nodes :
    Cardinality({p \in (DOMAIN Lists) \X Nodes :
                   p[2] <= Len(Lists[p[1]]) /\ Lists[p[1]][p[2]] = n}) = 1

\* prev undoes next in every queue, and back is the last node.
WellLinked ==
  \A k \in QueueNames :
    LET c == Chain(next, front[k])
    IN  /\ back[k] = IF c = <<>> THEN NULL ELSE c[Len(c)]
        /\ \A i \in DOMAIN c : prev[c[i]] = IF i = 1 THEN NULL ELSE c[i - 1]

\* The lists implement the queues that the kernel relies on: first in, first
\* out, or sorted with equals in the order they came.
AbstractQueues == INSTANCE QueueSpec
  WITH Queues <- QueueNames,
       q <- [k \in QueueNames |-> Contents(k)],
       nodes <- Len(Chain(next, g_free_qnodes))
ImplementsQueues == AbstractQueues!Spec
SleepersSorted == AbstractQueues!Sorted
=============================================================================
