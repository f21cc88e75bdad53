----------------------------- MODULE BuildImage -----------------------------
(***************************************************************************)
(* The tool that makes the boot image: it copies the boot file and the     *)
(* programs, sector by sector, and writes at the end of the boot file the  *)
(* table from which the boot loader learns how long each program is and    *)
(* where it goes.  Addresses are in paragraphs, the 16 bytes by which a    *)
(* segment is counted; a sector is named by its file (0 is the boot file)  *)
(* and its place therein.                                                  *)
(***************************************************************************)
EXTENDS Integers, Sequences

CONSTANTS
  SECTOR,        \* 512 bytes in paragraphs
  OFFSETS,       \* what a 16-bit offset reaches, 64K, in paragraphs
  SEGMENTS,      \* values of a 16-bit segment
  MEM_TOP,       \* where programs must end
  SPARE,         \* zero words at the end of the boot file
  N_INFO,        \* words of the table info
  Sizes,         \* program files by their sectors
  Addresses,     \* load addresses: [segment, offset, linear]
  MAX_FILES      \* bound on the number of files

\* The code of the boot file leaves 188 words, two more than a multiple of
\* three.
ASSUME BuildAssumption ==
  /\ SECTOR \in Nat \ {0} /\ OFFSETS % SECTOR = 0 /\ OFFSETS > SECTOR
  /\ {OFFSETS, MEM_TOP, SPARE, N_INFO, MAX_FILES} \subseteq Nat
  /\ SPARE % 3 = 2

\* What the boot loader can deal with: no empty file, offsets in whole sectors.
ASSUME LoadableFiles ==
  /\ Sizes \subseteq Nat \ {0}
  /\ \A a \in Addresses : /\ a.segment \in Nat /\ a.offset \in Nat
                           /\ a.offset % SECTOR = 0

VARIABLES
  programs,      \* the arguments processed: sequence of [size, addr]
  out,           \* the sectors of the image
  info,          \* the table, [offset, segment, sectors] of the last one first
  build          \* "open", "built" or "quit"

buildvars == <<programs, out, info, build>>

BInit ==
  /\ programs = <<>>
  /\ out = << <<0, 1>>, <<0, 2>> >>
  /\ info = <<>>
  /\ build = "open"

\* segment and offset are short; an address written seg:off is computed from
\* them, one written as a number is not.
Short(w, n) == IF w < n \div 2 THEN w ELSE w - n
Address(a) ==
  IF a.linear THEN a.segment + a.offset
              ELSE Short(a.segment, SEGMENTS) + Short(a.offset, OFFSETS)

process_file(size, a) ==
  /\ build = "open"
  /\ Len(programs) < MAX_FILES
  /\ out' = out \o [k \in 1 .. size |-> <<Len(programs) + 1, k>>]
  /\ IF Address(a) + size * SECTOR <= MEM_TOP /\ N_INFO - Len(info) >= 3
     THEN /\ info' = <<a.offset, a.segment, size>> \o info
          /\ programs' = Append(programs, [size |-> size, addr |-> a])
          /\ UNCHANGED build
     ELSE build' = "quit" /\ UNCHANGED <<programs, info>>

\* The table must fit in the zeros at the end of the boot file.
Finish ==
  /\ build = "open"
  /\ programs # <<>>
  /\ build' = IF Len(info) <= SPARE THEN "built" ELSE "quit"
  /\ UNCHANGED <<programs, out, info>>

\* The word that is di words before firstcount in the boot file.
TableWord(di) == IF di < Len(info) THEN info[Len(info) - di] ELSE 0
=============================================================================
