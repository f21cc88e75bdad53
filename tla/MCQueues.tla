------------------------------ MODULE MCQueues ------------------------------
(***************************************************************************)
(* Four nodes, a first-in-first-out queue and an ordered one, and three    *)
(* data of which two compare equal.                                        *)
(***************************************************************************)
EXTENDS Queues

CONSTANTS ready, sleeping

key == <<1, 1, 2>>
Names == {ready, sleeping}
Sorted == {sleeping}
cmp(a, b) == key[a] - key[b]
=============================================================================
