----------------------------- MODULE MCPrograms -----------------------------
(***************************************************************************)
(* Small instances of Programs for TLC: every program runs in some         *)
(* workload, and programs that sleep, fork and print at the same time are  *)
(* put together.                                                           *)
(***************************************************************************)
EXTENDS Programs

ShortSleeps == {1, 2}

Mixed ==
  {{"A", "P"}, {"B", "E"}, {"C", "H"}, {"D"}, {"F", "Q"}, {"G"}, {"J"}, {"K"},
   {"L"}, {"M"}, {"N"}, {"R", "S"}, {"EXT_USER1"}, {"EXT_USER2"},
   {"SWAP", "A"}}
=============================================================================
