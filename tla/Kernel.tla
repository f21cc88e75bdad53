------------------------------- MODULE Kernel -------------------------------
(***************************************************************************)
(* The process core of the kernel: PCBs, the ready, sleeping, blocked and  *)
(* free queues, the dispatcher, the clock and receive interrupts, and the  *)
(* system calls that move processes between queues.                        *)
(*                                                                         *)
(* The machine has one processor, and every handler is entered through an  *)
(* interrupt gate and runs with interrupts disabled, so each handler is    *)
(* one atomic action.  What interleaves is the order in which the clock    *)
(* and the UART interrupt and in which the current process makes its       *)
(* system calls.                                                           *)
(*                                                                         *)
(* Queues are sequences of PCBs here; module Queues has the linked lists.  *)
(* Memory is a set of equal-sized segments, first one first; module        *)
(* PhysMem has the free list.  Calls that change none of this state        *)
(* (write, gettime, getpid, puts, putc, a fork that finds no PCB, an       *)
(* execve that is refused) are stuttering steps.                           *)
(***************************************************************************)
EXTENDS Integers, FiniteSets, QueueSeqs

CONSTANTS
  N_PROCESSES,   \* PCBs, and kernel stacks
  N_QNODES,      \* queue nodes shared by all queues
  N_SEGMENTS,    \* process-sized segments of memory above the kernel's
  TOP_ALIGNED,   \* the last segment ends exactly where memory ends
  BUF_SIZE,      \* input buffer size
  TIME_MOD,      \* system time and wakeup times wrap at this value (2^32)
  SleepTicks,    \* arguments of sleep()
  MAX_TIME       \* bound: the clock stops here (none when >= TIME_MOD)

ASSUME KernelAssumption ==
  /\ N_PROCESSES \in Nat /\ N_PROCESSES >= 2
  /\ N_QNODES \in Nat /\ N_QNODES >= 2 * N_PROCESSES
  /\ N_SEGMENTS \in Nat
  /\ TOP_ALIGNED \in BOOLEAN
  /\ BUF_SIZE \in Nat \ {0}
  /\ TIME_MOD \in Nat \ {0} /\ TIME_MOD % 2 = 0
  /\ SleepTicks \subseteq Nat
  /\ MAX_TIME \in Nat

Pcbs == 0 .. N_PROCESSES - 1
Segments == 1 .. N_SEGMENTS         \* segment 0 is the kernel's own
Times == 0 .. TIME_MOD - 1

ST_FREE == "free"
ST_READY == "ready"
ST_RUNNING == "running"
ST_WAITING == "waiting"
ST_SLEEPING == "sleeping"
States == {ST_FREE, ST_READY, ST_RUNNING, ST_WAITING, ST_SLEEPING}

PRI_NORMAL == 0
PRI_MINIMUM == 2
Priorities == -2 .. 2
Levels == 0 .. 4

\* The two processes _init creates take PCBs and stacks 0 and 1.
First == 0
Idle == 1

VARIABLES
  state, prio, wakeup, seg,         \* fields of g_pcbs[]
  g_ready, g_sleeping, g_sio_blocked, g_free_pcbs, g_free_stacks,
  g_free_qnodes,                    \* how many queue nodes are free
  g_current, g_quantum, g_sys_time,
  g_incount,                        \* characters in the input buffer
  g_freemem,                        \* segments not allocated
  kstat                             \* running, stopped or panicked (why)

pcbs == <<state, prio, wakeup, seg>>
queues == <<g_ready, g_sleeping, g_sio_blocked, g_free_pcbs, g_free_stacks,
            g_free_qnodes>>
vars == <<state, prio, wakeup, seg, g_ready, g_sleeping, g_sio_blocked,
          g_free_pcbs, g_free_stacks, g_free_qnodes, g_current, g_quantum,
          g_sys_time, g_incount, g_freemem, kstat>>

Running == kstat = "running"

-----------------------------------------------------------------------------
(* Queues and the dispatcher *)

PRIO_TO_INDEX(n) == n + 2
INDEX_TO_PRIO(n) == n - 2
Level(p) == PRIO_TO_INDEX(prio[p])

Fault_PRIO_TO_QUANTUM(n) == 2 - n
PRIO_TO_QUANTUM(n) == 3 - n

\* The difference of two unsigned times, read as a signed integer.
Fault_cmp_wakeup(a, b) == (a - b) % TIME_MOD
cmp_wakeup(a, b) ==
  LET d == (a - b) % TIME_MOD
  IN  IF d >= TIME_MOD \div 2 THEN d - TIME_MOD ELSE d

\* The members of s that belong in g_ready[l], in the order of s.  (This is
\* SelectSeq without its recursion, which the proof system cannot unfold.)
AtLevel(s, l) ==
  LET at == {i \in DOMAIN s : Level(s[i]) = l}
  IN  [k \in 1 .. Cardinality(at) |->
         s[CHOOSE i \in at : Cardinality({j \in at : j <= i}) = k]]

\* _enque to an unordered queue, when the pool has a node to give.
Enque(q, p, nodes) == IF nodes > 0 THEN Append(q, p) ELSE q
Left(nodes) == IF nodes > 0 THEN nodes - 1 ELSE 0

\* The ready queues rdy after _schedule(p), whose PCB has priority pr.
Fault_Schedule(rdy, p, pr) ==
  [l \in Levels |-> IF l = PRIO_TO_INDEX(pr) THEN <<p>> \o rdy[l] ELSE rdy[l]]
Schedule(rdy, p, pr) ==
  [l \in Levels |-> IF l = PRIO_TO_INDEX(pr) THEN Append(rdy[l], p) ELSE rdy[l]]

Panic(why) ==
  /\ kstat' = why
  /\ UNCHANGED <<g_current, g_quantum>>

\* An action that finds no queue node for a PCB that must be queued.
QueuePanic(rdy, st) ==
  /\ Panic("panic_queue")
  /\ g_ready' = rdy
  /\ state' = st
  /\ UNCHANGED g_free_qnodes

\* Take the head of rdy[l] and run it; its node goes back to the others.  A
\* PCB in g_ready[l] has priority INDEX_TO_PRIO(l) (OneQueuePerPcb).
Fault_TakeFrom(l, rdy, st, nodes) ==
  /\ g_ready' = [rdy EXCEPT ![l] = Tail(@)]
  /\ state' = [st EXCEPT ![Head(rdy[l])] = ST_RUNNING]
  /\ g_current' = Head(rdy[l])
  /\ g_quantum' = PRIO_TO_QUANTUM(INDEX_TO_PRIO(l))
  /\ g_free_qnodes' = nodes
  /\ kstat' = kstat
TakeFrom(l, rdy, st, nodes) ==
  /\ g_ready' = [rdy EXCEPT ![l] = Tail(@)]
  /\ state' = [st EXCEPT ![Head(rdy[l])] = ST_RUNNING]
  /\ g_current' = Head(rdy[l])
  /\ g_quantum' = PRIO_TO_QUANTUM(INDEX_TO_PRIO(l))
  /\ g_free_qnodes' = nodes + 1
  /\ kstat' = kstat

\* _dispatch with the ready queues rdy, the states st and that many free
\* nodes: the head of the first queue that has one becomes current.
Fault_Dispatch(rdy, st, nodes) ==
  \E l \in Levels : /\ rdy[l] # <<>>
                    /\ \A k \in Levels : k > l => rdy[k] = <<>>
                    /\ TakeFrom(l, rdy, st, nodes)
Dispatch(rdy, st, nodes) ==
  IF \A l \in Levels : rdy[l] = <<>>
  THEN /\ Panic("panic_dispatch")
       /\ g_ready' = rdy /\ state' = st /\ g_free_qnodes' = nodes
  ELSE \E l \in Levels : /\ rdy[l] # <<>>
                         /\ \A k \in Levels : k < l => rdy[k] = <<>>
                         /\ TakeFrom(l, rdy, st, nodes)

\* _schedule(g_current) and _dispatch(), as the clock and sleep(0) do it.
Reschedule(rdy, st) ==
  LET readied == [st EXCEPT ![g_current] = ST_READY]
  IN  IF g_free_qnodes = 0
      THEN QueuePanic(rdy, readied)
      ELSE Dispatch(Schedule(rdy, g_current, prio[g_current]), readied,
                    g_free_qnodes - 1)

-----------------------------------------------------------------------------
(* Memory: first fit over equal segments takes the lowest free one. *)

LowestFree(s) == s \in g_freemem /\ \A t \in g_freemem : s <= t

\* _phys_free refuses a block whose end is not below the top of memory.
Freeable(s) == ~(TOP_ALIGNED /\ s = N_SEGMENTS)

-----------------------------------------------------------------------------
(* What _init leaves: the first process running, the idle one ready. *)

Init ==
  /\ state = [p \in Pcbs |-> CASE p = First -> ST_RUNNING
                               [] p = Idle  -> ST_READY
                               [] OTHER     -> ST_FREE]
  /\ prio = [p \in Pcbs |-> IF p = Idle THEN PRI_MINIMUM ELSE PRI_NORMAL]
  /\ wakeup = [p \in Pcbs |-> 0]
  /\ seg = [p \in Pcbs |-> 0]
  /\ g_ready = [l \in Levels |->
                  IF l = PRIO_TO_INDEX(PRI_MINIMUM) THEN <<Idle>> ELSE <<>>]
  /\ g_sleeping = <<>>
  /\ g_sio_blocked = <<>>
  /\ g_free_pcbs = [i \in 1 .. N_PROCESSES - 2 |-> i + 1]
  /\ g_free_stacks = [i \in 1 .. N_PROCESSES - 2 |-> i + 1]
  /\ g_free_qnodes = N_QNODES - 2 * (N_PROCESSES - 2) - 1
  /\ g_current = First
  /\ g_quantum = PRIO_TO_QUANTUM(PRI_NORMAL)
  /\ g_sys_time = 0
  /\ g_incount = 0
  /\ g_freemem = Segments
  /\ kstat = "running"
-----------------------------------------------------------------------------
(* Interrupts *)

\* The sleepers woken at time now are the longest prefix of g_sleeping that
\* is due: the loop looks only at the front.  Times compare as unsigned.
Fault_Due(p, now) == wakeup[p] < now
Due(p, now) == wakeup[p] <= now

DuePrefix(now) ==
  {n \in 0 .. Len(g_sleeping) :
     /\ \A i \in 1 .. n : Due(g_sleeping[i], now)
     /\ n < Len(g_sleeping) => ~Due(g_sleeping[n + 1], now)}

\* Wakes the first n sleepers, each at the back of its own ready queue; the
\* node of each is given back and taken again.
Woken(n) == [l \in Levels |->
               g_ready[l] \o AtLevel(SubSeq(g_sleeping, 1, n), l)]

Fault_TickQuantum(rdy, st) ==
  /\ g_ready' = rdy
  /\ state' = st
  /\ g_quantum' = IF g_quantum > 1 THEN g_quantum - 1 ELSE g_quantum
  /\ UNCHANGED <<g_current, g_free_qnodes, kstat>>
TickQuantum(rdy, st) ==
  IF g_quantum > 1
  THEN /\ g_ready' = rdy
       /\ state' = st
       /\ g_quantum' = g_quantum - 1
       /\ UNCHANGED <<g_current, g_free_qnodes, kstat>>
  ELSE Reschedule(rdy, st)

\* The code leaves a woken PCB its old wakeup time, which nothing reads until
\* sleep() sets it again; the model clears it to keep such states equal.
ClockTick ==
  /\ Running
  /\ g_sys_time < MAX_TIME
  /\ g_sys_time' = (g_sys_time + 1) % TIME_MOD
  /\ UNCHANGED <<prio, seg, g_sio_blocked, g_free_pcbs, g_free_stacks,
                 g_incount, g_freemem>>
  /\ \E n \in DuePrefix(g_sys_time') :
       LET woken == {g_sleeping[i] : i \in 1 .. n}
       IN  /\ g_sleeping' = SubSeq(g_sleeping, n + 1, Len(g_sleeping))
           /\ wakeup' = [p \in Pcbs |-> IF p \in woken THEN 0 ELSE wakeup[p]]
           /\ TickQuantum(Woken(n),
                          [p \in Pcbs |-> IF p \in woken THEN ST_READY
                                                         ELSE state[p]])

\* A character arrives.  The first blocked reader is made ready; with no
\* reader it is buffered, and dropped (no step) when the buffer is full.
Fault_RxInterrupt ==
  /\ Running
  /\ g_incount < BUF_SIZE
  /\ g_incount' = g_incount + 1
  /\ UNCHANGED <<pcbs, queues, g_current, g_quantum, g_sys_time, g_freemem,
                 kstat>>
RxInterrupt ==
  /\ Running
  /\ \/ /\ g_sio_blocked # <<>>
        /\ LET p == Head(g_sio_blocked)
           IN  /\ state' = [state EXCEPT ![p] = ST_READY]
               /\ g_ready' = Schedule(g_ready, p, prio[p])
        /\ g_sio_blocked' = Tail(g_sio_blocked)
        /\ UNCHANGED g_incount
     \/ /\ g_sio_blocked = <<>>
        /\ g_incount < BUF_SIZE
        /\ g_incount' = g_incount + 1
        /\ UNCHANGED <<state, g_ready, g_sio_blocked>>
  /\ UNCHANGED <<prio, wakeup, seg, g_sleeping, g_free_pcbs, g_free_stacks,
                 g_free_qnodes, g_current, g_quantum, g_sys_time, g_freemem,
                 kstat>>
-----------------------------------------------------------------------------
(* System calls of the current process.  The idle process only writes, and *)
(* the first process only forks, writes and exits.                         *)

MayCall == Running /\ prio[g_current] # PRI_MINIMUM
UserCall == MayCall /\ seg[g_current] # 0

\* A handler that panics before it has changed anything that matters.
StopWith(why) ==
  /\ kstat' = why
  /\ UNCHANGED <<pcbs, queues, g_current, g_quantum, g_sys_time, g_incount,
                 g_freemem>>

\* The state table after the current process has left state RUNNING.
Fault_Leaves(st) == state
Leaves(st) == [state EXCEPT ![g_current] = st]

\* A PCB that is given up keeps its priority, wakeup time and segment until
\* _sys_fork overwrites them.
\* _sys_exit of a process with a segment: the segment and the PCB are freed.
ExitUser ==
  /\ UserCall
  /\ Freeable(seg[g_current])
  /\ g_freemem' = g_freemem \cup {seg[g_current]}
  /\ g_free_pcbs' = Enque(g_free_pcbs, g_current, g_free_qnodes)
  /\ Dispatch(g_ready, Leaves(ST_FREE), Left(g_free_qnodes))
  /\ UNCHANGED <<prio, wakeup, seg, g_sleeping, g_sio_blocked, g_free_stacks,
                 g_sys_time, g_incount>>

\* _sys_exit of a kernel process: its stack and its PCB are freed.  Process
\* p of the two was given stack p.
ExitKernel ==
  /\ MayCall
  /\ seg[g_current] = 0
  /\ g_free_stacks' = Enque(g_free_stacks, g_current, g_free_qnodes)
  /\ g_free_pcbs' = Enque(g_free_pcbs, g_current, Left(g_free_qnodes))
  /\ Dispatch(g_ready, Leaves(ST_FREE), Left(Left(g_free_qnodes)))
  /\ UNCHANGED <<prio, wakeup, seg, g_sleeping, g_sio_blocked, g_sys_time,
                 g_incount, g_freemem>>

ExitPanics ==
  /\ UserCall
  /\ ~Freeable(seg[g_current])
  /\ StopWith("panic_memory")

\* _sys_read: a buffered character, or wait for one.
ReadChar ==
  /\ UserCall
  /\ g_incount > 0
  /\ g_incount' = g_incount - 1
  /\ UNCHANGED <<pcbs, queues, g_current, g_quantum, g_sys_time, g_freemem,
                 kstat>>

ReadBlocks ==
  /\ UserCall
  /\ g_incount = 0
  /\ g_sio_blocked' = Enque(g_sio_blocked, g_current, g_free_qnodes)
  /\ IF g_free_qnodes = 0
     THEN QueuePanic(g_ready, Leaves(ST_WAITING))
     ELSE Dispatch(g_ready, Leaves(ST_WAITING), g_free_qnodes - 1)
  /\ UNCHANGED <<prio, wakeup, seg, g_sleeping, g_free_pcbs, g_free_stacks,
                 g_sys_time, g_incount, g_freemem>>

\* _enque to g_sleeping, before the first sleeper that compares greater.
NotAfter(w) ==
  {n \in 0 .. Len(g_sleeping) :
     /\ \A i \in 1 .. n : cmp_wakeup(wakeup[g_sleeping[i]], w) <= 0
     /\ n < Len(g_sleeping) => cmp_wakeup(wakeup[g_sleeping[n + 1]], w) > 0}
EnqueSleeper(p, w) ==
  \E n \in NotAfter(w) :
    g_sleeping' = SubSeq(g_sleeping, 1, n) \o <<p>>
                    \o SubSeq(g_sleeping, n + 1, Len(g_sleeping))

Sleep(ticks) ==
  /\ UserCall
  /\ ticks > 0
  /\ LET w == (g_sys_time + ticks) % TIME_MOD
     IN  /\ wakeup' = [wakeup EXCEPT ![g_current] = w]
         /\ IF g_free_qnodes = 0
            THEN QueuePanic(g_ready, Leaves(ST_SLEEPING))
                 /\ UNCHANGED g_sleeping
            ELSE /\ EnqueSleeper(g_current, w)
                 /\ Dispatch(g_ready, Leaves(ST_SLEEPING), g_free_qnodes - 1)
  /\ UNCHANGED <<prio, seg, g_sio_blocked, g_free_pcbs, g_free_stacks,
                 g_sys_time, g_incount, g_freemem>>

\* sleep(0)
Yield ==
  /\ UserCall
  /\ Reschedule(g_ready, state)
  /\ UNCHANGED <<prio, wakeup, seg, g_sleeping, g_sio_blocked, g_free_pcbs,
                 g_free_stacks, g_sys_time, g_incount, g_freemem>>

\* _sys_fork: the child is a copy of the parent in a segment of its own; it
\* is made ready first, then the parent, and the dispatcher chooses.
Fault_BothReady(child) ==
  Schedule(Schedule(g_ready, g_current, prio[g_current]),
           child, prio[g_current])
BothReady(child) ==
  Schedule(Schedule(g_ready, child, prio[g_current]),
           g_current, prio[g_current])

Fork ==
  /\ MayCall
  /\ g_free_pcbs # <<>>
  /\ LET child == Head(g_free_pcbs)
         st == [state EXCEPT ![child] = ST_READY, ![g_current] = ST_READY]
     IN  \E s \in g_freemem :
           /\ LowestFree(s)
           /\ g_freemem' = g_freemem \ {s}
           /\ seg' = [seg EXCEPT ![child] = s]
           /\ prio' = [prio EXCEPT ![child] = prio[g_current]]
           /\ wakeup' = [wakeup EXCEPT ![child] = wakeup[g_current]]
           /\ IF g_free_qnodes = 0
              THEN QueuePanic(Schedule(g_ready, child, prio[g_current]), st)
              ELSE Dispatch(BothReady(child), st, g_free_qnodes - 1)
  /\ g_free_pcbs' = Tail(g_free_pcbs)
  /\ UNCHANGED <<g_sleeping, g_sio_blocked, g_free_stacks, g_sys_time,
                 g_incount>>

ForkPanics ==
  /\ MayCall
  /\ g_free_pcbs # <<>>
  /\ g_freemem = {}
  /\ StopWith("panic_memory")

\* _sys_exec and _sys_execve: the new segment is allocated while the old one
\* is still held, and the old one is freed last.
Fault_Exec ==
  /\ UserCall
  /\ \E s \in g_freemem :
       /\ LowestFree(s)
       /\ seg' = [seg EXCEPT ![g_current] = s]
       /\ g_freemem' = g_freemem \ {s}
  /\ UNCHANGED <<state, prio, wakeup, queues, g_current, g_quantum,
                 g_sys_time, g_incount, kstat>>
Exec ==
  /\ UserCall
  /\ Freeable(seg[g_current])
  /\ \E s \in g_freemem :
       /\ LowestFree(s)
       /\ seg' = [seg EXCEPT ![g_current] = s]
       /\ g_freemem' = (g_freemem \ {s}) \cup {seg[g_current]}
  /\ UNCHANGED <<state, prio, wakeup, queues, g_current, g_quantum,
                 g_sys_time, g_incount, kstat>>

ExecPanics ==
  /\ UserCall
  /\ g_freemem = {} \/ ~Freeable(seg[g_current])
  /\ StopWith("panic_memory")

\* _sys_hotswap stops the clock and the UART and never returns.
Hotswap ==
  /\ UserCall
  /\ StopWith("hotswap")

-----------------------------------------------------------------------------

Interrupt == ClockTick \/ RxInterrupt

SysCall ==
  \/ ExitUser \/ ExitKernel \/ ExitPanics
  \/ ReadChar \/ ReadBlocks
  \/ Yield
  \/ \E ticks \in SleepTicks : Sleep(ticks)
  \/ Fork \/ ForkPanics
  \/ Exec \/ ExecPanics
  \/ Hotswap

Next == Interrupt \/ SysCall

Spec == Init /\ [][Next]_vars

\* The interval timer keeps interrupting; nothing is assumed of processes.
FairSpec == Spec /\ WF_vars(ClockTick)
-----------------------------------------------------------------------------
(* Correctness *)

\* Every variable has its type; the quantum of the current process is
\* between one tick and the three that _PRIO_TO_QUANTUM gives PRI_NORMAL.
TypeOK ==
  /\ state \in [Pcbs -> States]
  /\ prio \in [Pcbs -> Priorities]
  /\ wakeup \in [Pcbs -> Times]
  /\ seg \in [Pcbs -> 0 .. N_SEGMENTS]
  /\ g_ready \in [Levels -> Seq(Pcbs)]
  /\ g_sleeping \in Seq(Pcbs)
  /\ g_sio_blocked \in Seq(Pcbs)
  /\ g_free_pcbs \in Seq(Pcbs)
  /\ g_free_stacks \in Seq(Pcbs)
  /\ g_free_qnodes \in 0 .. N_QNODES
  /\ g_current \in Pcbs
  /\ g_quantum \in 1 .. 3
  /\ g_sys_time \in Times
  /\ g_incount \in 0 .. BUF_SIZE
  /\ g_freemem \subseteq Segments
  /\ kstat \in {"running", "hotswap", "panic_memory", "panic_gdt",
                "panic_queue", "panic_dispatch"}

\* Each PCB is in exactly the one queue that its state and priority name, and
\* once: no handler queues a PCB twice, loses one, or leaves the current
\* process queued.
OneQueuePerPcb ==
  Running =>
    /\ \A p \in Pcbs :
         /\ state[p] = ST_RUNNING <=> p = g_current
         /\ \A l \in Levels :
              Holds(g_ready[l], p) <=> state[p] = ST_READY /\ Level(p) = l
         /\ Holds(g_sleeping, p) <=> state[p] = ST_SLEEPING
         /\ Holds(g_sio_blocked, p) <=> state[p] = ST_WAITING
         /\ Holds(g_free_pcbs, p) <=> state[p] = ST_FREE
    /\ \A l \in Levels : Distinct(g_ready[l])
    /\ Distinct(g_sleeping) /\ Distinct(g_sio_blocked)
    /\ Distinct(g_free_pcbs)

\* What makes the next invariant inductive.  Every PCB but the current one
\* and every free stack holds one queue node; the idle process is alive at
\* the lowest priority; all others have normal priority, and of those only
\* the first process runs without a segment of its own.
KernelProcesses ==
  Running =>
    /\ g_free_qnodes = N_QNODES - (N_PROCESSES - 1) - Len(g_free_stacks)
    /\ Len(g_free_stacks) = IF state[First] # ST_FREE /\ seg[First] = 0
                            THEN N_PROCESSES - 2 ELSE N_PROCESSES - 1
    /\ prio[Idle] = PRI_MINIMUM /\ seg[Idle] = 0
    /\ state[Idle] \in {ST_READY, ST_RUNNING}
    /\ \A p \in Pcbs \ {Idle} :
         /\ prio[p] = PRI_NORMAL
         /\ p # First /\ state[p] # ST_FREE => seg[p] # 0

\* The panics "ready queue empty???" of _dispatch and "can't queue it" of the
\* handlers never happen: the idle process is always there to run, and the
\* node pool of queues.c never runs dry.
NoQueuePanic == kstat \notin {"panic_queue", "panic_dispatch"}

\* No reader is left blocked while a character is buffered: _sys_read and the
\* receive interrupt never miss one another.
NoReaderMissesInput == g_sio_blocked # <<>> => g_incount = 0

Owns(p, s) == state[p] # ST_FREE /\ seg[p] = s

\* Every segment is free or has one owner: fork, exec and exit neither leak
\* segments nor give one to two processes.
EachSegmentHasOneOwner ==
  Running =>
    \A s \in Segments :
      /\ \A p, q \in Pcbs : Owns(p, s) /\ Owns(q, s) => p = q
      /\ s \in g_freemem <=> \A p \in Pcbs : ~Owns(p, s)

\* A process leaves the sleep queue on the tick its time has come and on no
\* other (clock.c: "wake up any sleepers whose time has come").
WakesOnTime ==
  [][\A p \in Pcbs : state[p] = ST_SLEEPING =>
       (state'[p] # ST_SLEEPING <=> wakeup[p] <= g_sys_time')]_vars

\* No sleeper wakes before its time, by the order in which the sleep queue
\* keeps wakeup times, when system time wraps around (clock.c: "wake up any
\* sleepers whose time has come").
NoEarlyWakeup ==
  [][\A p \in Pcbs : state[p] = ST_SLEEPING /\ state'[p] # ST_SLEEPING =>
       cmp_wakeup(wakeup[p], g_sys_time') <= 0]_vars

\* Ready processes of one priority run in the order they became ready: no one
\* who is behind p in its queue, or not yet in it, gets ahead of p or is
\* dispatched before it (_schedule appends, _dispatch takes the front).
NoOvertaking ==
  [][\A l \in Levels : \A p, q \in Pcbs :
       p # q /\ Holds(g_ready[l], p) /\ ~Before(g_ready[l], q, p) =>
         \/ g_current' = p
         \/ /\ Holds(g_ready'[l], p)
            /\ Holds(g_ready'[l], q) => Before(g_ready'[l], p, q)
            /\ g_current' = q /\ g_current # q => Level(q)' # l]_vars

\* A forked child is dispatched before its parent (the note at the end of
\* _sys_fork).
ChildRunsFirst ==
  [][\A c \in Pcbs : state[c] = ST_FREE /\ state'[c] # ST_FREE =>
       \/ g_current' = c
       \/ Before(g_ready'[PRIO_TO_INDEX(prio'[c])], c, g_current)]_vars

\* Whoever is dispatched has the best priority of all that are ready.
DispatchesBest ==
  [][g_current' # g_current =>
       \A p \in Pcbs : state'[p] = ST_READY => prio'[g_current'] <= prio'[p]]_vars

\* A ready process of normal priority runs, whatever the others do, unless
\* the kernel stops.
ReadyRuns ==
  \A p \in Pcbs :
    state[p] = ST_READY /\ prio[p] = PRI_NORMAL
      ~> (g_current = p \/ ~Running)

\* A sleeper wakes, though system time wraps around.
SleeperWakes ==
  \A p \in Pcbs : state[p] = ST_SLEEPING ~> (state[p] # ST_SLEEPING \/ ~Running)
=============================================================================
