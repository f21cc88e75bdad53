----------------------------- MODULE Bootstrap ------------------------------
(***************************************************************************)
(* The boot loader: its first sector, which the BIOS or the hot-swap code  *)
(* reads, reads its second one and then every program of the table, one    *)
(* sector at a time, with retries.  The variables are its registers and    *)
(* its data words; each read of a sector is one action.  The disk and the  *)
(* running system are the environment.                                     *)
(***************************************************************************)
EXTENDS BuildImage, SequencesExt

CONSTANTS
  max_sec,       \* sectors per track, plus one
  max_head,      \* heads
  TRACKS,        \* 80
  BOOT           \* BOOT_ADDRESS

TRIES == 3
Memory == 0 .. MEM_TOP - 1
Old == <<>>             \* not from this boot

ASSUME DiskAssumption ==
  /\ max_sec \in Nat \ {0, 1, 2} /\ max_head \in Nat \ {0}
  /\ TRACKS \in Nat \ {0}
  /\ BOOT \in Memory /\ BOOT + 2 * SECTOR \in Memory

VARIABLES
  phase,         \* where the loader is, or why it stopped
  di,            \* place in the table, in words before firstcount
  ax,            \* sectors left of this program
  es, bx,        \* where the next sector goes
  cx,            \* tries left for it
  chs,           \* data words sec and head: [cyl, head, sec] to read next
  memory         \* what is at each address

regs == <<di, ax, es, bx, cx>>
bootvars == <<phase, regs, chs, memory>>
allvars == <<buildvars, bootvars>>

Init ==
  /\ BInit
  /\ phase = "off"
  /\ di = 0 /\ ax = 0 /\ es = 0 /\ bx = 0 /\ cx = 0
  /\ chs = [cyl |-> 0, head |-> 0, sec |-> 2]
  /\ memory = [a \in Memory |-> Old]

\* The sectors of the disk before a place, the sector at it (not of the image
\* when behind its end), and memory with a sector in it.
SectorsBefore(p) == (p.cyl * max_head + p.head) * (max_sec - 1) + p.sec - 1
OnDisk(p) == IF SectorsBefore(p) < Len(out) THEN out[SectorsBefore(p) + 1]
                                            ELSE <<0, 0>>
WithSector(s, a) ==
  [b \in Memory |-> IF b - a \in 0 .. SECTOR - 1 THEN <<s, b - a>>
                                                 ELSE memory[b]]
Reading == phase = "read"

\* The boot sector goes to its place, its data words in it.
BootSector ==
  /\ memory' = WithSector(OnDisk([cyl |-> 0, head |-> 0, sec |-> 1]), BOOT)
  /\ chs' = [cyl |-> 0, head |-> 0, sec |-> 2]
  /\ phase' = "boot"
  /\ UNCHANGED regs

PowerOn == build = "built" /\ phase = "off" /\ BootSector

\* The disk is not ready, or the second sector is next.
begtext ==
  /\ phase = "boot"
  /\ \/ phase' = "not ready" /\ UNCHANGED regs
     \/ /\ phase' = "read"
        /\ ax' = 1 /\ cx' = TRIES
        /\ es' = 0 /\ bx' = BOOT + SECTOR
        /\ di' = 0
  /\ UNCHANGED <<chs, memory>>

nextblock ==
  /\ phase = "next"
  /\ IF TableWord(di) = 0
     THEN phase' = "running" /\ UNCHANGED regs
     ELSE /\ ax' = TableWord(di)
          /\ es' = TableWord(di + 1)
          /\ bx' = TableWord(di + 2)
          /\ di' = di + 3
          /\ cx' = TRIES
          /\ phase' = "read"
  /\ UNCHANGED <<chs, memory>>

\* The next sector in memory: at the end of 64K the segment moves on.
Fault_Adjust ==
  /\ bx' = (bx + SECTOR) % OFFSETS
  /\ UNCHANGED es
Adjust ==
  IF bx = OFFSETS - SECTOR
  THEN bx' = 0 /\ es' = es + OFFSETS
  ELSE bx' = bx + SECTOR /\ UNCHANGED es

\* The next sector on the disk, then the next head, then the next track.
NextOnDisk ==
  IF chs.sec + 1 # max_sec THEN [chs EXCEPT !.sec = @ + 1]
  ELSE IF chs.head + 1 # max_head
       THEN [chs EXCEPT !.sec = 1, !.head = @ + 1]
       ELSE [cyl |-> chs.cyl + 1, head |-> 0, sec |-> 1]

ReadSector ==
  /\ Reading
  /\ memory' = WithSector(OnDisk(chs), es + bx)
  /\ Adjust
  /\ chs' = NextOnDisk
  /\ IF chs'.cyl = TRACKS
     THEN phase' = "too big" /\ UNCHANGED <<ax, cx>>
     ELSE /\ ax' = ax - 1
          /\ phase' = IF ax' > 0 THEN "read" ELSE "next"
          /\ cx' = TRIES
  /\ UNCHANGED di

\* Three failures in a row end the boot.
Fault_ReadFails ==
  /\ Reading
  /\ cx' = cx - 1
  /\ phase' = IF cx' = 0 THEN "boot" ELSE "read"
  /\ UNCHANGED <<di, ax, es, bx, chs, memory>>
ReadFails ==
  /\ Reading
  /\ cx' = cx - 1
  /\ phase' = IF cx' = 0 THEN "failed" ELSE "read"
  /\ UNCHANGED <<di, ax, es, bx, chs, memory>>

-----------------------------------------------------------------------------
\* hswap: _sys_hotswap jumps to code that asks for a disk, until one is named
\* whose boot sector can be read.  Memory is as the system has left it.  (The
\* disk named is taken to be the one the system was loaded from.)
Hotswap ==
  /\ phase = "running"
  /\ phase' = "prompt"
  /\ memory' = [a \in Memory |-> Old]
  /\ UNCHANGED <<regs, chs>>

disk_reset ==
  /\ phase = "prompt"
  /\ phase' = "disk_read"
  /\ cx' = TRIES
  /\ UNCHANGED <<di, ax, es, bx, chs, memory>>

disk_done == phase = "disk_read" /\ BootSector

disk_fail ==
  /\ phase = "disk_read"
  /\ cx' = cx - 1
  /\ phase' = IF cx' = 0 THEN "prompt" ELSE "disk_read"
  /\ UNCHANGED <<di, ax, es, bx, chs, memory>>

LoaderStep == begtext \/ nextblock \/ ReadSector \/ ReadFails

Next ==
  \/ /\ \/ \E size \in Sizes, a \in Addresses : process_file(size, a)
        \/ Finish
     /\ UNCHANGED bootvars
  \/ /\ \/ PowerOn \/ LoaderStep
        \/ Hotswap \/ disk_reset \/ disk_done \/ disk_fail
     /\ UNCHANGED buildvars

\* A BIOS call returns, with or without an error.
Spec == Init /\ [][Next]_allvars /\ WF_bootvars(LoaderStep)
-----------------------------------------------------------------------------
(* Correctness *)

\* Where the boot file and the i-th program want their sectors, and all of them.
BootFile == [k \in 1 .. 2 |-> [at |-> BOOT + (k - 1) * SECTOR, what |-> <<0, k>>]]
ProgramFile(i, program) ==
  [k \in 1 .. program.size |->
     [at |-> program.addr.segment + program.addr.offset + (k - 1) * SECTOR,
      what |-> <<i, k>>]]
Pieces ==
  FlattenSeq(<<BootFile>>
             \o [i \in DOMAIN programs |-> ProgramFile(i, programs[i])])

\* How many of them are in memory, and how far the boot is.
Loaded == IF phase \in {"off", "prompt", "disk_read"} THEN 0 ELSE SectorsBefore(chs)
Stage ==
  CASE phase \in {"off", "running"} -> phase
    [] phase \in {"not ready", "failed", "too big"} -> "stopped"
    [] OTHER -> "loading"

\* Every program is in memory in full where BuildImage was told to put it, and
\* the system runs only then: through retries, the end of 64K, of a track and
\* of a head, and when the system boots again over a running one.
Boot == INSTANCE BootSpec WITH
  Addresses <- Memory, pieces <- Pieces, loaded <- Loaded, phase <- Stage

ImplementsBoot == Boot!Spec

\* A boot comes to an end, however many reads fail: the system runs or the
\* loader says why not, and "too big" is true.
BootEnds ==
  phase = "boot" ~>
    \/ phase \in {"running", "not ready", "failed"}
    \/ /\ phase = "too big"
       /\ Len(out) >= TRACKS * max_head * (max_sec - 1)
=============================================================================
