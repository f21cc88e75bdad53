------------------------------ MODULE MCPools -------------------------------
(***************************************************************************)
(* The two lists that the kernel builds from pools of nodes, the queues    *)
(* and the free memory, one at a time: they share no state, so that no     *)
(* behaviour of one depends on what the other does.                        *)
(***************************************************************************)
EXTENDS MCQueues, PhysMem

VARIABLE pool

PInit ==
  /\ pool \in {"queues", "memory"}
  /\ QInit
  /\ Init

PNext ==
  \/ pool = "queues" /\ QNext /\ UNCHANGED <<vars, pool>>
  \/ pool = "memory" /\ Next /\ UNCHANGED <<qvars, pool>>

PSpec == PInit /\ [][PNext]_<<qvars, vars, pool>>
=============================================================================
