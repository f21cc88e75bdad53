------------------------------- MODULE MCSio --------------------------------
(***************************************************************************)
(* Two user processes, and one character beside the two special ones.      *)
(***************************************************************************)
EXTENDS Sio

CONSTANTS X, u1, u2

Characters == {CR, LF, X}
Users == {u1, u2}
=============================================================================
