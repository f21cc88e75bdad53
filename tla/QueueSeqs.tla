----------------------------- MODULE QueueSeqs ------------------------------
(***************************************************************************)
(* What is said of a queue that is modelled as a sequence of its data.     *)
(***************************************************************************)
EXTENDS Naturals, Sequences

\* p is in s.
Holds(s, p) == \E i \in 1 .. Len(s) : s[i] = p

\* Nothing is in s twice.
Distinct(s) == \A i, j \in 1 .. Len(s) : s[i] = s[j] => i = j

\* p is ahead of q in s.
Before(s, p, q) == \E i, j \in 1 .. Len(s) : i < j /\ s[i] = p /\ s[j] = q
=============================================================================
