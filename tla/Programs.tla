------------------------------ MODULE Programs ------------------------------
(***************************************************************************)
(* The user programs of user.c, user1.c, user2.c and user3.c run on the    *)
(* kernel of module Kernel.  There any process may make any call at any    *)
(* time; here each process makes the calls of its program, in order.       *)
(*                                                                         *)
(* A program is a sequence of statements, and a process is what is left of *)
(* its program.  Delay loops, gettime, getpid, puts and printf change      *)
(* nothing and are left out.  Three things are scaled: a loop runs at most *)
(* ROUNDS times, or FORKS times if it forks; a sleep of ten seconds or     *)
(* more takes two ticks, a shorter one one; and pids wrap around at        *)
(* PID_MOD instead of 2^16.                                                *)
(***************************************************************************)
EXTENDS Kernel, SequencesExt

CONSTANTS
  ROUNDS,     \* bound: how often a loop of a program runs
  FORKS,      \* bound: how often a loop that forks runs
  PID_MOD,    \* pids are unsigned and wrap around at this value (2^16)
  Workloads   \* the sets of SPAWN_x definitions that are enabled together

ASSUME ProgramsAssumption ==
  /\ ROUNDS \in Nat \ {0} /\ FORKS \in Nat
  /\ PID_MOD \in Nat /\ PID_MOD > 2
  /\ {1, 2} \subseteq SleepTicks

\* A segment for every PCB, so that one is left for exec() to move to, and
\* each can be freed: no call of the programs stops in Kernel's ForkPanics,
\* ExecPanics or ExitPanics.
ASSUME EnoughMemory == N_SEGMENTS >= N_PROCESSES /\ ~TOP_ALIGNED

VARIABLES
  code,         \* what each process has still to execute
  g_next_pid,
  printed,      \* how often each character was written to the serial line
  spawn         \* the SPAWN_x definitions this kernel was built with

pvars == <<code, g_next_pid, printed, spawn>>
allvars == <<vars, pvars>>
-----------------------------------------------------------------------------
(* Statements *)

Write(ch) == <<[op |-> "write", ch |-> ch]>>
Read == <<[op |-> "read"]>>
Nap(ticks) == <<[op |-> "sleep", ticks |-> IF ticks >= 1000 THEN 2 ELSE 1]>>
Become(prog) == <<[op |-> "exec", prog |-> prog]>>
Execve(prog) == <<[op |-> "execve", prog |-> prog]>>
Leave == <<[op |-> "exit"]>>
Bogus == <<[op |-> "bogus"]>>
Swap == <<[op |-> "hotswap"]>>
Forever(body) == <<[op |-> "forever", body |-> body]>>

\* pid = fork(), and what is done if pid < 0, if pid = 0 and otherwise.
ForkThen(fails, child, parent) ==
  <<[op |-> "fork", fails |-> fails, child |-> child, parent |-> parent]>>

Bounded(n, bound) == IF n < bound THEN n ELSE bound
Repeat(n, body) == FlattenSeq([i \in 1 .. n |-> body])
Loop(n, body) == Repeat(Bounded(n, ROUNDS), body)
ForkLoop(n, body) == Repeat(Bounded(n, FORKS), body)
-----------------------------------------------------------------------------
(* user.c *)

user_swap == Loop(5, Nap(200)) \o Swap \o Leave
user_a_main == Write("A") \o Loop(30, Write("A")) \o Leave
user_b_main == Write("B") \o Loop(30, Write("B")) \o Leave
user_c_main == Write("C") \o Loop(30, Write("C")) \o Leave \o Write("c")
user_d_main ==
  Write("D")
    \o ForkThen(Write("d"),
                Become("user_z_main") \o Write("z") \o Leave,
                <<>>)
    \o Write("D") \o Leave
user_e_main == Write("E") \o Loop(5, Nap(1000) \o Write("E")) \o Leave
user_f_main == Write("F") \o Loop(5, Nap(500) \o Write("F")) \o Leave
user_g_main == Write("G") \o Loop(5, Nap(1500) \o Write("G")) \o Leave
user_h_main == Write("H") \o Loop(5, Write("H"))
user_j_main ==
  Write("J")
    \o ForkLoop(2 * N_PROCESSES,
              ForkThen(Write("j"),
                       Become("user_y_main") \o Write("y"),
                       Write("J")))
    \o Leave
user_k_main ==
  Write("K")
    \o ForkLoop(3, ForkThen(Write("k"),
                        Become("user_x_main") \o Write("x"),
                        Nap(3000) \o Write("K")))
    \o Leave
user_l_main ==
  Write("L")
    \o ForkLoop(3, ForkThen(Write("l"),
                        Become("user_x_main") \o Write("x"),
                        Nap(3000) \o Write("L")))
    \o Leave
user_m_main ==
  ForkLoop(3, ForkThen(Write("m"),
                   Become("user_w_main") \o Write("w"),
                   Write("M")))
    \o Leave
user_n_main ==
  Write("N")
    \o ForkLoop(3, ForkThen(Write("n"),
                        Become("user_x_main") \o Write("x"),
                        Nap(3000) \o Write("N")))
    \o Leave
user_p_main == Write("P") \o Loop(3, Nap(200) \o Write("P")) \o Leave
user_q_main == Write("Q") \o Bogus \o Leave

\* read() never returns -1: _sys_read blocks instead, and when the process is
\* woken eax is not negative either.
user_r_main == Loop(3, Write("R") \o Read \o Write("input")) \o Leave
user_s_main == Write("S") \o Forever(Nap(3000) \o Write("S")) \o Leave
user_w_main == Loop(20, Write("W") \o Nap(300)) \o Leave
user_x_main == Loop(20, Write("X")) \o Leave
user_y_main == Loop(10, Write("Y") \o Nap(100)) \o Leave
user_z_main == Loop(10, Write("Z")) \o Leave

idle_main == Write(".") \o Forever(Write(".")) \o Leave

(* user1.c, user2.c and user3.c, whose main returns to their start code *)

fork_user3 == ForkThen(<<>>, Execve("user3") \o Leave, <<>>)
user1_main == Loop(5, Nap(10) \o Write("+")) \o fork_user3
do_work(symbol) == Nap(300) \o Write(symbol)
user2_main == Loop(2, do_work("-")) \o fork_user3
do_print == Loop(4, Nap(300) \o Write("3"))
user3_main == do_print

Text ==
  [user_swap |-> user_swap, user_a_main |-> user_a_main,
   user_b_main |-> user_b_main, user_c_main |-> user_c_main,
   user_d_main |-> user_d_main, user_e_main |-> user_e_main,
   user_f_main |-> user_f_main, user_g_main |-> user_g_main,
   user_h_main |-> user_h_main, user_j_main |-> user_j_main,
   user_k_main |-> user_k_main, user_l_main |-> user_l_main,
   user_m_main |-> user_m_main, user_n_main |-> user_n_main,
   user_p_main |-> user_p_main, user_q_main |-> user_q_main,
   user_r_main |-> user_r_main, user_s_main |-> user_s_main,
   user_w_main |-> user_w_main, user_x_main |-> user_x_main,
   user_y_main |-> user_y_main, user_z_main |-> user_z_main,
   user1 |-> user1_main, user2 |-> user2_main, user3 |-> user3_main]

\* What SPAWN_x makes of the first process: a child that becomes the program.
SPAWN ==
  [EXT_USER1 |-> Execve("user1"), EXT_USER2 |-> Execve("user2"),
   SWAP |-> Become("user_swap"),
   A |-> Become("user_a_main"), B |-> Become("user_b_main"),
   C |-> Become("user_c_main"), D |-> Become("user_d_main"),
   E |-> Become("user_e_main"), F |-> Become("user_f_main"),
   G |-> Become("user_g_main"), H |-> Become("user_h_main"),
   J |-> Become("user_j_main"), K |-> Become("user_k_main"),
   L |-> Become("user_l_main"), M |-> Become("user_m_main"),
   N |-> Become("user_n_main"), P |-> Become("user_p_main"),
   Q |-> Become("user_q_main"), R |-> Become("user_r_main"),
   S |-> Become("user_s_main")]

\* The order in which they are spawned (there are no users I and O).
SpawnFirst == <<"EXT_USER1", "EXT_USER2", "SWAP", "A", "B", "C", "D", "E", "F",
                "G", "H">>
SpawnLast == <<"J", "K", "L", "M", "N", "P", "Q", "R", "S">>
SpawnOrder == SpawnFirst \o SpawnLast

first_main(enabled) ==
  Write("$")
    \o FlattenSeq([i \in DOMAIN SpawnOrder |->
         IF SpawnOrder[i] \in enabled
         THEN ForkThen(<<>>, SPAWN[SpawnOrder[i]] \o Leave, <<>>)
         ELSE <<>>])
    \o Write("!") \o Leave
-----------------------------------------------------------------------------
(* How the kernel starts programs *)

\* A function that returns finds exit() as its return address, on the stacks
\* that _setup_stack and _exec_common lay out ...
Fault_WithReturn(main) == main
WithReturn(main) == main \o Leave

\* ... and a program linked on its own is called by its start code.
_start(main) == main \o Leave

Chars == {"$", "!", ".", "+", "-", "3", "input",
          "A", "B", "C", "D", "E", "F", "G", "H", "J", "K", "L", "M", "N",
          "P", "Q", "R", "S", "W", "X", "Y", "Z",
          "c", "d", "j", "k", "l", "m", "n", "w", "x", "y", "z"}

\* _init gives the first process pid 0 and the idle process pid 1.
PInit ==
  /\ Init
  /\ spawn \in Workloads
  /\ code = [p \in Pcbs |->
               CASE p = First -> WithReturn(first_main(spawn))
                 [] p = Idle  -> WithReturn(idle_main)
                 [] OTHER     -> <<>>]
  /\ g_next_pid = 2
  /\ printed = [ch \in Chars |-> 0]
-----------------------------------------------------------------------------
(* A statement of the current process *)

Stmt == Head(code[g_current])
Rest == Tail(code[g_current])
At(op) == Running /\ code[g_current] # <<>> /\ Stmt.op = op

\* A loop that never ends is put in front of itself once more.
Unrolled(c) ==
  IF c # <<>> /\ Head(c).op = "forever" THEN Head(c).body \o c ELSE c
GoesOnWith(c) == code' = [code EXCEPT ![g_current] = Unrolled(c)]
Endless(p) == \E i \in DOMAIN code[p] : code[p][i].op = "forever"
NothingPrinted == UNCHANGED <<g_next_pid, printed, spawn>>

\* Neither the kernel's queues nor its memory change when a character is
\* appended to the output buffer (module Sio).  What a program that never
\* ends writes is not counted.
DoWrite ==
  /\ At("write")
  /\ printed' = IF Endless(g_current) THEN printed
                ELSE [printed EXCEPT ![Stmt.ch] = @ + 1]
  /\ GoesOnWith(Rest)
  /\ UNCHANGED <<vars, g_next_pid, spawn>>

DoRead ==
  /\ At("read")
  /\ ReadChar \/ ReadBlocks
  /\ GoesOnWith(Rest)
  /\ NothingPrinted

DoSleep ==
  /\ At("sleep")
  /\ Sleep(Stmt.ticks)
  /\ GoesOnWith(Rest)
  /\ NothingPrinted

\* exit(), or a call whose code is out of range, which is a forced exit().
DoExit ==
  /\ At("exit") \/ At("bogus")
  /\ ExitUser \/ ExitKernel
  /\ code' = [code EXCEPT ![g_current] = <<>>]
  /\ NothingPrinted

\* What a process goes on with when fork() has returned eax to it.
After(eax) ==
  (CASE eax < 0 -> Stmt.fails
     [] eax = 0 -> Stmt.child
     [] OTHER   -> Stmt.parent) \o Rest

Fault_NextPid(pid) == 0
NextPid(pid) == (pid + 1) % PID_MOD

\* The value fork() returns to the child.
Fault_ChildEax(pid) == pid
ChildEax(pid) == 0

DoFork ==
  /\ At("fork")
  /\ Fork
  /\ g_next_pid' = NextPid(g_next_pid)
  /\ code' = [code EXCEPT ![g_current] = Unrolled(After(g_next_pid)),
                          ![Head(g_free_pcbs)] =
                              Unrolled(After(ChildEax(g_next_pid)))]
  /\ UNCHANGED <<printed, spawn>>

DoForkFails ==
  /\ At("fork")
  /\ g_free_pcbs = <<>>
  /\ GoesOnWith(After(-1))
  /\ UNCHANGED vars
  /\ NothingPrinted

DoExec ==
  /\ At("exec")
  /\ Exec
  /\ GoesOnWith(WithReturn(Text[Stmt.prog]))
  /\ NothingPrinted

\* The file is there and valid; module Execve has the loading.
DoExecve ==
  /\ At("execve")
  /\ Exec
  /\ GoesOnWith(_start(Text[Stmt.prog]))
  /\ NothingPrinted

DoHotswap ==
  /\ At("hotswap")
  /\ Hotswap
  /\ UNCHANGED pvars

Step ==
  \/ DoWrite \/ DoRead \/ DoSleep \/ DoExit
  \/ DoFork \/ DoForkFails
  \/ DoExec \/ DoExecve
  \/ DoHotswap
PInterrupt == Interrupt /\ UNCHANGED pvars

PNext == PInterrupt \/ Step

PSpec == PInit /\ [][PNext]_allvars

\* The processor executes the statements of whoever is current: a process
\* that is dispatched again and again finishes its statement, however often
\* the clock interrupts it.
StepOf(p) == g_current = p /\ Step
PFairSpec ==
  /\ PSpec
  /\ WF_allvars(ClockTick /\ UNCHANGED pvars)
  /\ \A p \in Pcbs : SF_allvars(StepOf(p))
-----------------------------------------------------------------------------
(* Correctness *)

Alive(p) == state[p] # ST_FREE
Gone == \A p \in Pcbs \ {Idle} : ~Alive(p)

\* What may have been written, and how often, when a statement and what follows
\* it have been executed, of what may be written by that and by each program.
Nothing == [ch \in Chars |-> 0]
Both(one, other) == [ch \in Chars |-> one[ch] + other[ch]]
OfPlain(s, after, runs) ==
  CASE s.op = "write" -> {[o EXCEPT ![s.ch] = @ + 1] : o \in after}
    [] s.op \in {"exec", "execve"} -> runs[s.prog]
    [] s.op \in {"exit", "bogus"} -> {Nothing}
    [] OTHER -> after
OfBranch(c, after, runs) ==
  LET of[i \in 0 .. Len(c)] ==
        IF i = 0 THEN after ELSE OfPlain(c[Len(c) + 1 - i], of[i - 1], runs)
  IN  of[Len(c)]

\* A fork() fails or returns twice, an exec() never does.
OfStmt(s, after, runs) ==
  IF s.op = "fork"
  THEN OfBranch(s.fails, after, runs) \cup
       {Both(one, other) : one \in OfBranch(s.child, after, runs),
                           other \in OfBranch(s.parent, after, runs)}
  ELSE OfPlain(s, after, runs)
OfCode(c, runs) ==
  LET of[i \in 0 .. Len(c)] ==
        IF i = 0 THEN {Nothing} ELSE OfStmt(c[Len(c) + 1 - i], of[i - 1], runs)
  IN  of[Len(c)]

\* What each program may write: one that starts none, and one that starts only
\* such.  The first process starts no others.
NoRuns == [prog \in DOMAIN Text |-> {}]
LastRuns == [prog \in DOMAIN Text |-> OfCode(Text[prog], NoRuns)]
Runs == [prog \in DOMAIN Text |-> OfCode(Text[prog], LastRuns)]
Outcomes(c) == OfCode(c, Runs)

\* The calls are those that Kernel takes for granted: the idle process only
\* writes, the first process only writes, forks and exits, and no process
\* that is alive runs past the end of its program.
CallsTakenForGranted ==
  Running =>
    \A p \in Pcbs : Alive(p) =>
      /\ code[p] # <<>>
      /\ prio[p] = PRI_MINIMUM => Head(code[p]).op = "write"
      /\ seg[p] = 0 => Head(code[p]).op \in {"write", "fork", "exit"}

\* When all have gone, every program has written what it should, as often as
\* it should and nothing else: no process was lost, ran twice, took the
\* other's branch after fork() or came back from exec(), whatever ran in
\* between (user.c: "Uppercase characters are expected output; lowercase are
\* erroneous output").
OutputComplete ==
  Running /\ Gone => printed \in Outcomes(first_main(spawn))

\* Every program comes to its end, unless it is one that never ends or waits
\* for input, whatever else runs, and the kernel stops for a hotswap only.
WorkloadEnds ==
  <>(\/ kstat = "hotswap"
     \/ /\ Running
        /\ \A p \in Pcbs \ {Idle} :
             ~Alive(p) \/ Endless(p) \/ state[p] = ST_WAITING)
=============================================================================
