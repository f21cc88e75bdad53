---------------------------- MODULE AddressSpace ----------------------------
(***************************************************************************)
(* The address spaces of the processes of module Kernel.  A process runs   *)
(* in the segment that the descriptors of its LDT name; the LDT is found   *)
(* through a slot of the GDT whose selector the PCB holds and every        *)
(* context restore loads.  fork, exec and exit allocate, fill and free     *)
(* segments, LDTs and slots; each is the step of Kernel and what it does   *)
(* to the address spaces, in one.                                          *)
(*                                                                         *)
(* The contents of a segment is one value: what the process last stored,   *)
(* or the program loaded.  Both descriptors of an LDT always get the same  *)
(* base, so an LDT is the number of a segment here.                        *)
(***************************************************************************)
EXTENDS Kernel

CONSTANTS
  GDT_MAX,       \* descriptors in the GDT
  Values,        \* contents of a segment
  Programs       \* contents of a segment after an ELF image is loaded

GDT_RESERVED == 7      \* NULL, LINEAR, CODE, DATA, STACK, CODE16, DATA16

ASSUME SlotAssumption ==
  /\ GDT_MAX \in Nat
  /\ GDT_MAX >= GDT_RESERVED + 3 + N_PROCESSES
  /\ Programs \subseteq Values

Slots == 0 .. GDT_MAX - 1
NoPcb == N_PROCESSES

VARIABLES
  ldt,           \* the segment that the LDT inside each PCB describes
  ldtr,          \* the slot that each PCB names as its LDT's
  gdt,           \* the PCB whose LDT each slot describes
  g_gdtpool,     \* slots not in use, the next one first
  image          \* contents of each segment

spaces == <<ldt, ldtr, gdt, g_gdtpool, image>>
allvars == <<vars, spaces>>

-----------------------------------------------------------------------------
\* What _init leaves: one slot for the TSS, one for the temporary PCB of
\* _init_processes (PCB 0), and one each for the first and the idle process.
AInit ==
  /\ Init
  /\ ldt = [p \in Pcbs |-> 0]
  /\ ldtr = [p \in Pcbs |-> CASE p = First -> GDT_RESERVED + 2
                              [] p = Idle  -> GDT_RESERVED + 3
                              [] OTHER     -> 0]
  /\ gdt = [s \in Slots |-> CASE s = GDT_RESERVED + 1 -> First
                              [] s = GDT_RESERVED + 2 -> First
                              [] s = GDT_RESERVED + 3 -> Idle
                              [] OTHER -> NoPcb]
  /\ g_gdtpool = [i \in 1 .. GDT_MAX - GDT_RESERVED - 4 |->
                    GDT_RESERVED + 3 + i]
  /\ image \in [0 .. N_SEGMENTS -> Values]
  /\ \A s, t \in 0 .. N_SEGMENTS : image[s] = image[t]

\* The segment in which p runs once the context restore has loaded its LDTR.
RunsIn(p) == ldt[gdt[ldtr[p]]]

\* The current process stores into its own memory.
Store(v) ==
  /\ Running
  /\ image' = [image EXCEPT ![RunsIn(g_current)] = v]
  /\ UNCHANGED <<vars, ldt, ldtr, gdt, g_gdtpool>>

\* The LDT of p, in slot s, describes the segment that p now has.
Fault_SetUpLdt(p, s) ==
  /\ ldt' = ldt
  /\ gdt' = [gdt EXCEPT ![s] = p]
SetUpLdt(p, s) ==
  /\ ldt' = [ldt EXCEPT ![p] = seg'[p]]
  /\ gdt' = [gdt EXCEPT ![s] = p]

Fault_ForkSpace(child) ==
  /\ ldtr' = [ldtr EXCEPT ![child] = ldtr[g_current]]
  /\ g_gdtpool' = Tail(g_gdtpool)
  /\ SetUpLdt(child, Head(g_gdtpool))
  /\ image' = [image EXCEPT ![seg'[child]] = image[seg[g_current]]]
ForkSpace(child) ==
  /\ ldtr' = [ldtr EXCEPT ![child] = Head(g_gdtpool)]
  /\ g_gdtpool' = Tail(g_gdtpool)
  /\ SetUpLdt(child, Head(g_gdtpool))
  /\ image' = [image EXCEPT ![seg'[child]] = image[seg[g_current]]]

\* _sys_fork panics, in the middle, when there is no slot to be had.
AFork ==
  IF MayCall /\ g_free_pcbs # <<>> /\ g_freemem # {} /\ g_gdtpool = <<>>
  THEN StopWith("panic_gdt") /\ UNCHANGED spaces
  ELSE Fork /\ ForkSpace(Head(g_free_pcbs))

\* _sys_exec copies the old segment, _sys_execve loads a program; the slot
\* stays.
AExec(v) ==
  /\ Exec
  /\ SetUpLdt(g_current, ldtr[g_current])
  /\ image' = [image EXCEPT ![seg'[g_current]] = v]
  /\ UNCHANGED <<ldtr, g_gdtpool>>
SysExec == AExec(image[seg[g_current]])
SysExecve == \E v \in Programs : AExec(v)

\* _sys_exit gives back the slot of a process with a segment only.  (A
\* selector is the slot times 8.)
Fault_FreeSlot == UNCHANGED g_gdtpool
FreeSlot == g_gdtpool' = <<ldtr[g_current]>> \o g_gdtpool

AExitUser ==
  /\ ExitUser
  /\ FreeSlot
  /\ UNCHANGED <<ldt, ldtr, gdt, image>>

\* The steps of Kernel that leave every address space as it is.
OtherStep ==
  \/ ClockTick \/ RxInterrupt
  \/ ExitKernel \/ ReadChar \/ ReadBlocks \/ Yield
  \/ \E ticks \in SleepTicks : Sleep(ticks)
  \/ ExitPanics \/ ForkPanics \/ ExecPanics \/ Hotswap

ANext ==
  \/ \E v \in Values : Store(v)
  \/ AFork
  \/ SysExec
  \/ SysExecve
  \/ AExitUser
  \/ OtherStep /\ UNCHANGED spaces

ASpec == AInit /\ [][ANext]_allvars
-----------------------------------------------------------------------------
(* Correctness *)

Live == {p \in Pcbs : state[p] # ST_FREE}
Users == {p \in Live : seg[p] # 0}

SpacesTypeOK ==
  /\ ldt \in [Pcbs -> 0 .. N_SEGMENTS]
  /\ ldtr \in [Pcbs -> Slots]
  /\ gdt \in [Slots -> 0 .. NoPcb]
  /\ g_gdtpool \in Seq(Slots)
  /\ image \in [0 .. N_SEGMENTS -> Values]

\* Whichever process is dispatched, the selector in its PCB leads through the
\* GDT to its own LDT, and that to its own segment, although slots, PCBs and
\* segments pass from one process to another.
EachRunsInItsSegment ==
  Running => \A p \in Live : gdt[ldtr[p]] = p /\ ldt[p] = seg[p]

\* No slot is used by two processes, or used and free; and none is lost but
\* the one the first process leaves behind when it exits.
SlotsConserved ==
  Running =>
    /\ \A p, q \in Live : ldtr[p] = ldtr[q] => p = q
    /\ \A p \in Live : ~Holds(g_gdtpool, ldtr[p])
    /\ Distinct(g_gdtpool)
    /\ Len(g_gdtpool) + Cardinality(Users) = GDT_MAX - GDT_RESERVED - 4

\* fork always finds a slot: exec keeps the caller's, exit gives it back, so
\* _gdt_alloc never panics however long the system runs.
NoSlotPanic == kstat # "panic_gdt"

\* A process sees its own stores and no one else's, fork copies memory and
\* exec keeps or replaces it: what ProcSpec says of whole memories holds of
\* segments found through the LDTR.
Procs == INSTANCE ProcSpec WITH
  Procs <- Pcbs, KernelProcs <- {First, Idle},
  live <- Live, kernel <- {p \in Live : seg[p] = 0}, current <- g_current,
  memory <- [p \in Live |-> image[RunsIn(p)]]

ImplementsProcesses == Procs!Spec
=============================================================================
