------------------------------ MODULE BootSpec ------------------------------
(***************************************************************************)
(* What the boot loader promises: memory gets the sectors of the image,    *)
(* each where the maker of the image asked for it, in their order, and     *)
(* nothing else is written; the system is started when all are in memory,  *)
(* and a boot over a running system loads all of them again.               *)
(***************************************************************************)
EXTENDS Integers, SequencesExt

CONSTANTS SECTOR,      \* the length of a sector in memory
          Addresses

VARIABLES
  pieces,      \* the image: sequence of [at: an address, what: a sector]
  loaded,      \* how many of them are in memory
  memory,      \* what is at each address
  phase        \* "off", "loading", "running", "stopped"

vars == <<pieces, loaded, memory, phase>>

\* What no sector was read to holds something old.
Old == <<>>

\* m with sector s at address a.
With(m, a, s) == [b \in Addresses |->
                    IF b - a \in 0 .. SECTOR - 1 THEN <<s, b - a>> ELSE m[b]]

Init ==
  /\ pieces \in Seq([at : Addresses, what : Nat \X Nat])
  /\ loaded = 0
  /\ memory \in [Addresses -> {Old}]
  /\ phase = "off"

Edit ==
  /\ phase = "off"
  /\ IsPrefix(pieces, pieces')
  /\ UNCHANGED <<loaded, memory, phase>>

Load ==
  /\ phase \in {"off", "loading"}
  /\ loaded < Len(pieces)
  /\ loaded' = loaded + 1
  /\ memory' = With(memory, pieces[loaded'].at, pieces[loaded'].what)
  /\ phase' \in {"loading", "stopped"}
  /\ UNCHANGED pieces

Run ==
  /\ phase = "loading"
  /\ loaded = Len(pieces)
  /\ phase' = "running"
  /\ UNCHANGED <<pieces, loaded, memory>>

Stop ==
  /\ phase' = "stopped"
  /\ UNCHANGED <<pieces, loaded, memory>>

\* The running system has left its own data in memory.
BootAgain ==
  /\ phase = "running"
  /\ loaded' = 0
  /\ memory' = [a \in Addresses |-> Old]
  /\ phase' = "loading"
  /\ UNCHANGED pieces

Next ==
  \/ Edit
  \/ Load
  \/ Run
  \/ Stop
  \/ BootAgain

Spec == Init /\ [][Next]_vars
=============================================================================
