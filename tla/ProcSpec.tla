------------------------------ MODULE ProcSpec ------------------------------
(***************************************************************************)
(* What processes may rely on: each has a memory of its own, a fork copies *)
(* it, exec keeps or replaces it, and nobody else's stores reach it.  The  *)
(* processes that run inside the kernel share the kernel's memory.         *)
(***************************************************************************)
CONSTANTS Procs, Values, Programs, KernelProcs

VARIABLES live, kernel, current, memory
vars == <<live, kernel, current, memory>>

Init ==
  /\ live = KernelProcs
  /\ kernel = KernelProcs
  /\ current \in live
  /\ \E v \in Values : memory = [p \in live |-> v]

Shares(p, q) == p = q \/ (p \in kernel /\ q \in kernel)

Store(v) ==
  /\ memory' = [p \in live |-> IF Shares(p, current) THEN v ELSE memory[p]]
  /\ UNCHANGED <<live, kernel, current>>

\* The caller goes on with a new memory, or with a copy of its old one.
Exec(v) ==
  /\ current \notin kernel
  /\ v \in Programs \cup {memory[current]}
  /\ memory' = [memory EXCEPT ![current] = v]
  /\ UNCHANGED <<live, kernel, current>>

Fork(child) ==
  /\ child \notin live
  /\ live' = live \cup {child}
  /\ memory' = [p \in live' |-> IF p = child THEN memory[current]
                                             ELSE memory[p]]
  /\ current' \in live'
  /\ UNCHANGED kernel

Exit ==
  /\ live' = live \ {current}
  /\ kernel' = kernel \ {current}
  /\ memory' = [p \in live' |-> memory[p]]
  /\ current' \in live'

Switch ==
  /\ current' \in live
  /\ UNCHANGED <<live, kernel, memory>>

Next ==
  \/ \E v \in Values : Store(v) \/ Exec(v)
  \/ \E child \in Procs : Fork(child)
  \/ Exit
  \/ Switch

Spec == Init /\ [][Next]_vars
=============================================================================
