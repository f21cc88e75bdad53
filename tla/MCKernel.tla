------------------------------ MODULE MCKernel ------------------------------
(***************************************************************************)
(* Small instances of Kernel for TLC: the first and the idle process and   *)
(* two more PCBs.                                                          *)
(***************************************************************************)
EXTENDS Kernel

ShortSleeps == {1, 2}
=============================================================================
