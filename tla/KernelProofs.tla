---------------------------- MODULE KernelProofs ----------------------------
(***************************************************************************)
(* Proofs of the safety invariants of Kernel, for any number of PCBs,      *)
(* queue nodes (at least two per PCB), segments and input characters and   *)
(* for any modulus of system time.                                         *)
(***************************************************************************)
EXTENDS Kernel, QueueSeqsProofs, FiniteSetTheorems

USE DEF ST_FREE, ST_READY, ST_RUNNING, ST_WAITING, ST_SLEEPING,
        PRI_NORMAL, PRI_MINIMUM, First, Idle

-----------------------------------------------------------------------------
(* The order-preserving selection AtLevel *)

\* The rank of the members of a finite set of positions numbers them from 1
\* without gaps.
LEMMA RankOnto ==
  ASSUME NEW n \in Nat, NEW I \in SUBSET (1 .. n)
  PROVE  LET rank(i) == Cardinality({j \in I : j <= i})
         IN  /\ Cardinality(I) \in Nat
             /\ \A i \in I : rank(i) \in 1 .. Cardinality(I)
             /\ \A i, j \in I : rank(i) = rank(j) => i = j
             /\ \A k \in 1 .. Cardinality(I) : \E i \in I : rank(i) = k
<1> DEFINE upto(i) == {j \in I : j <= i}
           rank(i) == Cardinality(upto(i))
           m == Cardinality(I)
<1>1. IsFiniteSet(I) /\ m \in Nat
  <2>1. IsFiniteSet(1 .. n) BY FS_Interval
  <2>2. IsFiniteSet(I) BY <2>1, FS_Subset
  <2> QED BY <2>2, FS_CardinalityType
<1>2. ASSUME NEW i \in I PROVE IsFiniteSet(upto(i)) /\ rank(i) \in 1 .. m
  <2>1. upto(i) \in SUBSET I /\ i \in upto(i) OBVIOUS
  <2>2. IsFiniteSet(upto(i)) /\ rank(i) <= m /\ rank(i) \in Nat
    BY <1>1, <2>1, FS_Subset, FS_CardinalityType
  <2>3. rank(i) # 0 BY <2>1, <2>2, FS_EmptySet
  <2> QED BY <1>1, <2>2, <2>3
<1>3. ASSUME NEW i \in I, NEW j \in I, i < j PROVE rank(i) # rank(j)
  <2>0. \A x \in I : x \in Int OBVIOUS
  <2>1. upto(i) \in SUBSET upto(j) /\ j \in upto(j) /\ j \notin upto(i)
    <3>1. i \in Int /\ j \in Int /\ j <= j /\ ~(j <= i) BY <1>3, <2>0
    <3>2. \A x \in I : x <= i => x <= j BY <1>3, <2>0, <3>1
    <3> QED BY <3>1, <3>2
  <2>2. IsFiniteSet(upto(j)) BY <1>2
  <2> QED BY <2>1, <2>2, FS_Subset
<1>4. \A i, j \in I : rank(i) = rank(j) => i = j
  BY <1>3
<1> DEFINE f == [i \in I |-> rank(i)]
<1>5. f \in Injection(I, 1 .. m)
  BY <1>2, <1>4 DEF Injection, IsInjective
<1>6. IsFiniteSet(1 .. m) /\ Cardinality(1 .. m) = m
  BY <1>1, FS_Interval
<1>7. f \in Surjection(I, 1 .. m)
  BY <1>1, <1>5, <1>6, FS_Injection
<1>8. \A k \in 1 .. m : \E i \in I : rank(i) = k
  BY <1>7 DEF Surjection
<1> QED BY <1>1, <1>2, <1>4, <1>8

\* AtLevel selects the members of a queue that are at a level, each once.
LEMMA AtLevelHolds ==
  ASSUME NEW s \in Seq(Pcbs), Distinct(s), NEW l
  PROVE  /\ AtLevel(s, l) \in Seq(Pcbs)
         /\ Distinct(AtLevel(s, l))
         /\ \A q : Holds(AtLevel(s, l), q) <=> Holds(s, q) /\ Level(q) = l
<1> DEFINE at == {i \in DOMAIN s : Level(s[i]) = l}
           rank(i) == Cardinality({j \in at : j <= i})
           pos(k) == CHOOSE i \in at : rank(i) = k
           m == Cardinality(at)
           t == [k \in 1 .. m |-> s[pos(k)]]
<1>1. Len(s) \in Nat /\ DOMAIN s = 1 .. Len(s)
      /\ \A i \in 1 .. Len(s) : s[i] \in Pcbs
  BY LenProperties, ElementOfSeq
<1>2. at \in SUBSET (1 .. Len(s))
  BY <1>1
<1> HIDE DEF at
<1>3. /\ m \in Nat
      /\ \A i \in at : rank(i) \in 1 .. m
      /\ \A i, j \in at : rank(i) = rank(j) => i = j
      /\ \A k \in 1 .. m : \E i \in at : rank(i) = k
  BY <1>1, <1>2, RankOnto
<1> HIDE DEF rank, m
<1>4. \A k \in 1 .. m : pos(k) \in at /\ rank(pos(k)) = k
  BY <1>3
<1>5. \A i \in at : pos(rank(i)) = i
  BY <1>3, <1>4
<1> HIDE DEF pos
<1>6. t \in Seq(Pcbs) /\ Len(t) = m /\ \A k \in 1 .. m : t[k] = s[pos(k)]
  <2>1. \A k \in 1 .. m : s[pos(k)] \in Pcbs
    BY <1>1, <1>2, <1>4
  <2>2. t \in [1 .. m -> Pcbs] /\ \A k \in 1 .. m : t[k] = s[pos(k)]
    BY <2>1
  <2> HIDE DEF t
  <2>3. t \in Seq(Pcbs) BY <1>3, <2>2, SeqDef
  <2> QED BY <1>3, <2>2, <2>3, LenProperties
<1> HIDE DEF t
<1>7. Distinct(t)
  <2> SUFFICES ASSUME NEW i \in 1 .. m, NEW j \in 1 .. m, t[i] = t[j]
               PROVE  i = j
    BY <1>6 DEF Distinct
  <2>1. pos(i) \in 1 .. Len(s) /\ pos(j) \in 1 .. Len(s)
    BY <1>2, <1>4
  <2>2. pos(i) = pos(j) BY <1>6, <2>1 DEF Distinct
  <2> QED BY <1>4, <2>2
<1>8. ASSUME NEW q PROVE Holds(t, q) <=> Holds(s, q) /\ Level(q) = l
  <2>1. ASSUME Holds(t, q) PROVE Holds(s, q) /\ Level(q) = l
    <3>1. PICK k \in 1 .. m : s[pos(k)] = q BY <1>6, <2>1 DEF Holds
    <3> QED BY <1>2, <1>4, <3>1 DEF at, Holds
  <2>2. ASSUME Holds(s, q), Level(q) = l PROVE Holds(t, q)
    <3>1. PICK i \in 1 .. Len(s) : s[i] = q BY <2>2 DEF Holds
    <3>2. i \in at BY <1>1, <2>2, <3>1 DEF at
    <3> QED BY <1>3, <1>5, <1>6, <3>1, <3>2 DEF Holds
  <2> QED BY <2>1, <2>2
<1>9. AtLevel(s, l) = t
  BY DEF AtLevel, at, rank, pos, m, t
<1> QED BY <1>6, <1>7, <1>8, <1>9
-----------------------------------------------------------------------------
(* Queues against states *)

\* q holds exactly the PCBs whose state is what, each once.
Matches(q, table, what) ==
  /\ q \in Seq(Pcbs)
  /\ Distinct(q)
  /\ \A p \in Pcbs : Holds(q, p) <=> table[p] = what

\* The ready queues hold exactly the ready PCBs, each once, by priority.
ReadyMatches(rdy, table, pr) ==
  /\ rdy \in [Levels -> Seq(Pcbs)]
  /\ \A l \in Levels : Distinct(rdy[l])
  /\ \A p \in Pcbs : \A l \in Levels :
       Holds(rdy[l], p) <=> table[p] = ST_READY /\ PRIO_TO_INDEX(pr[p]) = l

\* _enque of a PCB that has just been given the state of the queue.
LEMMA EnqueMatches ==
  ASSUME NEW q, NEW table \in [Pcbs -> States], NEW p \in Pcbs,
         NEW what \in States, Matches(q, table, what), table[p] # what
  PROVE  Matches(Append(q, p), [table EXCEPT ![p] = what], what)
<1>1. q \in Seq(Pcbs) /\ ~Holds(q, p) /\ Distinct(q) BY DEF Matches
<1>2. /\ Append(q, p) \in Seq(Pcbs) /\ Distinct(Append(q, p))
      /\ \A x : Holds(Append(q, p), x) <=> Holds(q, x) \/ x = p
  BY <1>1, AppendHolds
<1> QED BY <1>2 DEF Matches

\* _deque: the head leaves the state of the queue for another.
LEMMA DequeMatches ==
  ASSUME NEW q, NEW table \in [Pcbs -> States], NEW what \in States,
         NEW other \in States \ {what}, Matches(q, table, what), q # <<>>
  PROVE  /\ Head(q) \in Pcbs /\ table[Head(q)] = what
         /\ Matches(Tail(q), [table EXCEPT ![Head(q)] = other], what)
<1>1. q \in Seq(Pcbs) /\ Distinct(q) BY DEF Matches
<1>2. /\ Tail(q) \in Seq(Pcbs) /\ Distinct(Tail(q))
      /\ Head(q) \in Pcbs /\ Holds(q, Head(q))
      /\ \A x : Holds(Tail(q), x) <=> Holds(q, x) /\ x # Head(q)
  BY <1>1, TailHolds
<1> QED BY <1>2 DEF Matches

\* A queue is not disturbed by a PCB that changes between two other states.
LEMMA OthersMatch ==
  ASSUME NEW q, NEW table \in [Pcbs -> States], NEW p \in Pcbs,
         NEW what, NEW new \in States, Matches(q, table, what),
         table[p] # what, new # what
  PROVE  Matches(q, [table EXCEPT ![p] = new], what)
  BY DEF Matches

\* _schedule of a PCB that was not ready.
LEMMA ScheduleMatches ==
  ASSUME NEW rdy, NEW table \in [Pcbs -> States], NEW pr \in [Pcbs -> Priorities],
         NEW p \in Pcbs, ReadyMatches(rdy, table, pr), table[p] # ST_READY
  PROVE  ReadyMatches(Schedule(rdy, p, pr[p]),
                      [table EXCEPT ![p] = ST_READY], pr)
<1> DEFINE new == Schedule(rdy, p, pr[p])
           tab == [table EXCEPT ![p] = ST_READY]
           at == PRIO_TO_INDEX(pr[p])
<1>1. \A l \in Levels : rdy[l] \in Seq(Pcbs) /\ Distinct(rdy[l])
                        /\ ~Holds(rdy[l], p)
  BY DEF ReadyMatches
<1>2. \A l \in Levels : new[l] = IF l = at THEN Append(rdy[l], p) ELSE rdy[l]
  BY DEF Schedule
<1>3. \A l \in Levels : /\ Append(rdy[l], p) \in Seq(Pcbs)
                        /\ Distinct(Append(rdy[l], p))
                        /\ \A x : Holds(Append(rdy[l], p), x)
                                    <=> Holds(rdy[l], x) \/ x = p
  BY <1>1, AppendHolds
<1>4. new \in [Levels -> Seq(Pcbs)]
  BY <1>1, <1>3 DEF Schedule
<1> HIDE DEF new, at
<1>5. \A l \in Levels : Distinct(new[l])
  BY <1>1, <1>2, <1>3
<1>6. ASSUME NEW x \in Pcbs, NEW l \in Levels
      PROVE  Holds(new[l], x) <=> tab[x] = ST_READY /\ PRIO_TO_INDEX(pr[x]) = l
  <2>1. CASE x = p BY <1>1, <1>2, <1>3, <2>1 DEF at
  <2>2. CASE x # p
    <3>1. Holds(new[l], x) <=> Holds(rdy[l], x) BY <1>2, <1>3, <2>2
    <3> QED BY <2>2, <3>1 DEF ReadyMatches
  <2> QED BY <2>1, <2>2
<1> QED BY <1>4, <1>5, <1>6 DEF ReadyMatches, new
\* The ready queues are not disturbed by a PCB that was not and will not be
\* ready.
LEMMA OthersReady ==
  ASSUME NEW rdy, NEW table \in [Pcbs -> States], NEW pr, NEW p \in Pcbs,
         NEW new \in States, ReadyMatches(rdy, table, pr),
         table[p] # ST_READY, new # ST_READY
  PROVE  ReadyMatches(rdy, [table EXCEPT ![p] = new], pr)
  BY DEF ReadyMatches

\* _dispatch, when somebody is ready: one of the ready PCBs runs and the
\* queues hold the others.
LEMMA DispatchMatches ==
  ASSUME NEW rdy, NEW table \in [Pcbs -> States],
         NEW pr \in [Pcbs -> {PRI_NORMAL, PRI_MINIMUM}], NEW nodes \in Nat,
         ReadyMatches(rdy, table, pr),
         \E p \in Pcbs : table[p] = ST_READY,
         Dispatch(rdy, table, nodes)
  PROVE  /\ g_current' \in Pcbs /\ table[g_current'] = ST_READY
         /\ state' = [table EXCEPT ![g_current'] = ST_RUNNING]
         /\ ReadyMatches(g_ready', state', pr)
         /\ g_quantum' \in 1 .. 3
         /\ g_free_qnodes' = nodes + 1
         /\ kstat' = kstat
<1>1. PICK p \in Pcbs : table[p] = ST_READY OBVIOUS
<1>2. PRIO_TO_INDEX(pr[p]) \in Levels
  BY DEF PRIO_TO_INDEX, Levels
<1>3. Holds(rdy[PRIO_TO_INDEX(pr[p])], p)
  BY <1>1, <1>2 DEF ReadyMatches
<1>4. rdy[PRIO_TO_INDEX(pr[p])] # <<>>
  BY <1>3 DEF Holds
<1>5. PICK l \in Levels : rdy[l] # <<>> /\ TakeFrom(l, rdy, table, nodes)
  BY <1>2, <1>4 DEF Dispatch
<1> DEFINE h == Head(rdy[l])
<1>6. /\ rdy[l] \in Seq(Pcbs) /\ Distinct(rdy[l])
  BY DEF ReadyMatches
<1>7. /\ Tail(rdy[l]) \in Seq(Pcbs) /\ h \in Pcbs /\ Holds(rdy[l], h)
      /\ Distinct(Tail(rdy[l]))
      /\ \A q : Holds(Tail(rdy[l]), q) <=> Holds(rdy[l], q) /\ q # h
  BY <1>5, <1>6, TailHolds
<1> HIDE DEF h
<1>8. /\ g_ready' = [rdy EXCEPT ![l] = Tail(rdy[l])]
      /\ state' = [table EXCEPT ![h] = ST_RUNNING]
      /\ g_current' = h
      /\ g_quantum' = PRIO_TO_QUANTUM(INDEX_TO_PRIO(l))
      /\ g_free_qnodes' = nodes + 1
      /\ kstat' = kstat
  BY <1>5 DEF TakeFrom, h
<1>9. table[h] = ST_READY /\ PRIO_TO_INDEX(pr[h]) = l
  BY <1>7 DEF ReadyMatches
<1>10. g_quantum' \in 1 .. 3
  BY <1>7, <1>8, <1>9 DEF PRIO_TO_QUANTUM, INDEX_TO_PRIO, PRIO_TO_INDEX
<1>11. g_ready' \in [Levels -> Seq(Pcbs)]
  BY <1>7, <1>8 DEF ReadyMatches
<1>12. \A k \in Levels : Distinct(g_ready'[k])
  BY <1>7, <1>8 DEF ReadyMatches
<1>13. ASSUME NEW x \in Pcbs, NEW k \in Levels
       PROVE  Holds(g_ready'[k], x)
                <=> state'[x] = ST_READY /\ PRIO_TO_INDEX(pr[x]) = k
  <2>1. Holds(rdy[k], x) <=> table[x] = ST_READY /\ PRIO_TO_INDEX(pr[x]) = k
    BY DEF ReadyMatches
  <2>2. Holds(g_ready'[k], x) <=> Holds(rdy[k], x) /\ ~(k = l /\ x = h)
    BY <1>7, <1>8 DEF ReadyMatches
  <2> QED BY <1>7, <1>8, <1>9, <2>1, <2>2
<1> QED BY <1>7, <1>8, <1>9, <1>10, <1>11, <1>12, <1>13 DEF ReadyMatches
-----------------------------------------------------------------------------
(* The inductive invariant *)

IInv == TypeOK /\ OneQueuePerPcb /\ NoQueuePanic /\ KernelProcesses

\* The parts of IInv that no queue operation touches, of the given values.
OtherTypes ==
  /\ wakeup \in [Pcbs -> Times]
  /\ seg \in [Pcbs -> 0 .. N_SEGMENTS]
  /\ g_free_stacks \in Seq(Pcbs)
  /\ g_sys_time \in Times
  /\ g_incount \in 0 .. BUF_SIZE
  /\ g_freemem \subseteq Segments

Roles(table, pr, sg, stacks) ==
  /\ pr \in [Pcbs -> {PRI_NORMAL, PRI_MINIMUM}]
  /\ \A p \in Pcbs : pr[p] = IF p = Idle THEN PRI_MINIMUM ELSE PRI_NORMAL
  /\ sg[Idle] = 0
  /\ \A p \in Pcbs \ {First, Idle} : table[p] # ST_FREE => sg[p] # 0
  /\ Len(stacks) = IF table[First] # ST_FREE /\ sg[First] = 0
                   THEN N_PROCESSES - 2 ELSE N_PROCESSES - 1

Queues(slp, blk, fre, table) ==
  /\ Matches(slp, table, ST_SLEEPING)
  /\ Matches(blk, table, ST_WAITING)
  /\ Matches(fre, table, ST_FREE)

NodesFor(stacks) == N_QNODES - (N_PROCESSES - 1) - Len(stacks)

\* What IInv says of a running kernel, in the terms of the lemmas above.
LEMMA InvFacts ==
  ASSUME IInv, Running
  PROVE  /\ state \in [Pcbs -> States] /\ OtherTypes
         /\ g_current \in Pcbs /\ g_quantum \in 1 .. 3
         /\ ReadyMatches(g_ready, state, prio)
         /\ Queues(g_sleeping, g_sio_blocked, g_free_pcbs, state)
         /\ \A p \in Pcbs : state[p] = ST_RUNNING <=> p = g_current
         /\ Roles(state, prio, seg, g_free_stacks)
         /\ g_free_qnodes = NodesFor(g_free_stacks)
         /\ Idle \in Pcbs /\ First \in Pcbs
         /\ state[Idle] \in {ST_READY, ST_RUNNING}
<1>1. Idle \in Pcbs /\ First \in Pcbs
  BY KernelAssumption DEF Pcbs
<1>2. ReadyMatches(g_ready, state, prio)
  BY DEF IInv, TypeOK, OneQueuePerPcb, ReadyMatches, Level
<1>3. Queues(g_sleeping, g_sio_blocked, g_free_pcbs, state)
  BY DEF IInv, TypeOK, OneQueuePerPcb, Queues, Matches
<1>4. Roles(state, prio, seg, g_free_stacks)
  <2>1. \A p \in Pcbs : prio[p] = IF p = Idle THEN PRI_MINIMUM ELSE PRI_NORMAL
    BY DEF IInv, KernelProcesses
  <2>2. prio \in [Pcbs -> {PRI_NORMAL, PRI_MINIMUM}]
    BY <2>1 DEF IInv, TypeOK
  <2>3. \A p \in Pcbs \ {First, Idle} : state[p] # ST_FREE => seg[p] # 0
    BY DEF IInv, KernelProcesses
  <2> QED BY <2>1, <2>2, <2>3 DEF IInv, KernelProcesses, Roles
<1> QED
  BY <1>1, <1>2, <1>3, <1>4
     DEF IInv, TypeOK, OtherTypes, OneQueuePerPcb, KernelProcesses, NodesFor

\* The same facts of the next state give IInv' back.
LEMMA FactsInv ==
  ASSUME kstat' = "running",
         state' \in [Pcbs -> States], OtherTypes',
         g_current' \in Pcbs, g_quantum' \in 1 .. 3,
         ReadyMatches(g_ready', state', prio'),
         Queues(g_sleeping', g_sio_blocked', g_free_pcbs', state'),
         \A p \in Pcbs : state'[p] = ST_RUNNING <=> p = g_current',
         Roles(state', prio', seg', g_free_stacks'),
         g_free_qnodes' = NodesFor(g_free_stacks'),
         state'[Idle] \in {ST_READY, ST_RUNNING}
  PROVE  IInv'
<1>1. Idle \in Pcbs /\ First \in Pcbs
  BY KernelAssumption DEF Pcbs
<1>2. g_free_qnodes' \in 0 .. N_QNODES
  <2>1. Len(g_free_stacks') \in {N_PROCESSES - 2, N_PROCESSES - 1}
    BY DEF Roles
  <2> QED BY <2>1, KernelAssumption DEF NodesFor
<1>3. prio' \in [Pcbs -> Priorities]
  BY DEF Roles, Priorities
<1>4. TypeOK'
  BY <1>2, <1>3 DEF TypeOK, OtherTypes, ReadyMatches, Queues, Matches
<1>5. OneQueuePerPcb'
  BY DEF OneQueuePerPcb, ReadyMatches, Queues, Matches, Level
<1>6. KernelProcesses'
  BY <1>1 DEF KernelProcesses, Roles, NodesFor
<1> QED BY <1>4, <1>5, <1>6 DEF IInv, NoQueuePanic

\* IInv after a handler that ends in _dispatch.
LEMMA DispatchInv ==
  ASSUME NEW rdy, NEW table \in [Pcbs -> States], NEW nodes \in Nat,
         Running, Dispatch(rdy, table, nodes), OtherTypes',
         ReadyMatches(rdy, table, prio'),
         Queues(g_sleeping', g_sio_blocked', g_free_pcbs', table),
         \A p \in Pcbs : table[p] # ST_RUNNING,
         table[Idle] = ST_READY,
         Roles(table, prio', seg', g_free_stacks'),
         nodes + 1 = NodesFor(g_free_stacks')
  PROVE  IInv'
<1>1. Idle \in Pcbs /\ First \in Pcbs
  BY KernelAssumption DEF Pcbs
<1>2. /\ g_current' \in Pcbs /\ table[g_current'] = ST_READY
      /\ state' = [table EXCEPT ![g_current'] = ST_RUNNING]
      /\ ReadyMatches(g_ready', state', prio')
      /\ g_quantum' \in 1 .. 3
      /\ g_free_qnodes' = nodes + 1
      /\ kstat' = kstat
  BY <1>1, DispatchMatches DEF Roles
<1>3. state' \in [Pcbs -> States]
  BY <1>2 DEF States
<1>4. Queues(g_sleeping', g_sio_blocked', g_free_pcbs', state')
  BY <1>2, OthersMatch DEF Queues, States
<1>5. Roles(state', prio', seg', g_free_stacks')
  BY <1>1, <1>2 DEF Roles
<1> QED BY <1>1, <1>2, <1>3, <1>4, <1>5, FactsInv DEF Running
\* The pool has nodes to spare: 2 * N_PROCESSES are enough for ever.
LEMMA NodesLeft ==
  ASSUME NEW table, NEW pr, NEW sg, NEW stacks, Roles(table, pr, sg, stacks)
  PROVE  /\ NodesFor(stacks) \in Nat /\ NodesFor(stacks) >= 2
         /\ table[First] # ST_FREE /\ sg[First] = 0 => NodesFor(stacks) >= 3
<1>1. Len(stacks) = IF table[First] # ST_FREE /\ sg[First] = 0
                    THEN N_PROCESSES - 2 ELSE N_PROCESSES - 1
  BY DEF Roles
<1> QED BY <1>1, KernelAssumption DEF NodesFor

\* The initial state.
LEMMA InitInv == Init => IInv
<1> SUFFICES ASSUME Init PROVE IInv
  OBVIOUS
<1>1. N_PROCESSES \in Nat /\ N_PROCESSES >= 2 BY KernelAssumption
<1> DEFINE free == [i \in 1 .. N_PROCESSES - 2 |-> i + 1]
<1>2. /\ free \in Seq(Pcbs) /\ Len(free) = N_PROCESSES - 2
      /\ \A i \in 1 .. N_PROCESSES - 2 : free[i] = i + 1
  BY <1>1 DEF Pcbs
<1> HIDE DEF free
<1>3. Distinct(free)
  BY <1>1, <1>2 DEF Distinct
<1>4. ASSUME NEW p \in Pcbs PROVE Holds(free, p) <=> p # First /\ p # Idle
  <2>1. ASSUME p # First, p # Idle PROVE Holds(free, p)
    <3>1. p - 1 \in 1 .. N_PROCESSES - 2 /\ free[p - 1] = p
      BY <1>1, <1>2, <2>1 DEF Pcbs
    <3> QED BY <1>2, <3>1 DEF Holds
  <2> QED BY <1>1, <1>2, <2>1 DEF Holds, Pcbs
<1>5. g_free_pcbs = free /\ g_free_stacks = free
  BY DEF Init, free
<1>6. Idle \in Pcbs /\ First \in Pcbs
  BY <1>1 DEF Pcbs
<1>7. TypeOK
  <2>1. state \in [Pcbs -> States] /\ prio \in [Pcbs -> Priorities]
        /\ wakeup \in [Pcbs -> Times] /\ seg \in [Pcbs -> 0 .. N_SEGMENTS]
    BY KernelAssumption DEF Init, States, Priorities, Times
  <2>2. g_ready \in [Levels -> Seq(Pcbs)]
    BY <1>6 DEF Init
  <2>3. g_free_qnodes \in 0 .. N_QNODES
    BY <1>1, KernelAssumption DEF Init
  <2>4. g_sleeping \in Seq(Pcbs) /\ g_sio_blocked \in Seq(Pcbs)
        /\ g_free_pcbs \in Seq(Pcbs) /\ g_free_stacks \in Seq(Pcbs)
    BY <1>2, <1>5 DEF Init
  <2>5. g_current \in Pcbs /\ g_quantum \in 1 .. 3 /\ kstat = "running"
        /\ g_freemem \subseteq Segments
    BY <1>6 DEF Init, PRIO_TO_QUANTUM
  <2>6. g_sys_time \in Times /\ g_incount \in 0 .. BUF_SIZE
    BY KernelAssumption DEF Init, Times
  <2> QED BY <2>1, <2>2, <2>3, <2>4, <2>5, <2>6 DEF TypeOK
<1>8. OneQueuePerPcb
  <2>1. \A p \in Pcbs : /\ state[p] = ST_RUNNING <=> p = g_current
                        /\ state[p] = ST_READY <=> p = Idle
                        /\ state[p] = ST_FREE <=> p # First /\ p # Idle
                        /\ state[p] # ST_SLEEPING /\ state[p] # ST_WAITING
    BY DEF Init
  <2>2. \A p \in Pcbs : ~Holds(g_sleeping, p) /\ ~Holds(g_sio_blocked, p)
    BY DEF Init, Holds
  <2>3. Distinct(g_sleeping) /\ Distinct(g_sio_blocked)
    BY DEF Init, Distinct
  <2>4. \A l \in Levels : g_ready[l] = IF l = 4 THEN <<Idle>> ELSE <<>>
    BY DEF Init, PRIO_TO_INDEX
  <2>5. \A l \in Levels : Distinct(g_ready[l])
    BY <2>4 DEF Distinct
  <2>6. ASSUME NEW p \in Pcbs, NEW l \in Levels
        PROVE  Holds(g_ready[l], p) <=> state[p] = ST_READY /\ Level(p) = l
    <3>1. Holds(g_ready[l], p) <=> p = Idle /\ l = 4
      BY <2>4 DEF Holds
    <3>2. Level(Idle) = 4
      BY <1>6 DEF Init, Level, PRIO_TO_INDEX
    <3> QED BY <2>1, <3>1, <3>2
  <2> QED BY <1>3, <1>4, <1>5, <2>1, <2>2, <2>3, <2>5, <2>6 DEF OneQueuePerPcb
<1>9. KernelProcesses
  BY <1>1, <1>2, <1>5, <1>6, KernelAssumption DEF Init, KernelProcesses
<1> QED BY <1>7, <1>8, <1>9 DEF IInv, NoQueuePanic, Init

-----------------------------------------------------------------------------
(* Each action preserves the inductive invariant. *)

\* _schedule(g_current) and _dispatch().
LEMMA RescheduleInv ==
  ASSUME NEW rdy, NEW table \in [Pcbs -> States], IInv, Running,
         Reschedule(rdy, table), OtherTypes',
         ReadyMatches(rdy, table, prio),
         Queues(g_sleeping', g_sio_blocked', g_free_pcbs', table),
         \A p \in Pcbs : table[p] = ST_RUNNING <=> p = g_current,
         table[Idle] \in {ST_READY, ST_RUNNING},
         Roles(table, prio, seg, g_free_stacks),
         prio' = prio, seg' = seg, g_free_stacks' = g_free_stacks
  PROVE  IInv'
<1> DEFINE tab == [table EXCEPT ![g_current] = ST_READY]
           new == Schedule(rdy, g_current, prio[g_current])
<1>1. /\ g_current \in Pcbs /\ g_free_qnodes = NodesFor(g_free_stacks)
      /\ Idle \in Pcbs /\ First \in Pcbs
      /\ prio \in [Pcbs -> Priorities]
  BY InvFacts DEF IInv, TypeOK
<1>2. g_free_qnodes \in Nat /\ g_free_qnodes >= 2
  BY <1>1, NodesLeft
<1>3. Dispatch(new, tab, g_free_qnodes - 1)
  BY <1>2 DEF Reschedule
<1>4. tab \in [Pcbs -> States] /\ table[g_current] = ST_RUNNING
  BY <1>1 DEF States
<1>5. ReadyMatches(new, tab, prio)
  BY <1>1, <1>4, ScheduleMatches
<1>6. Queues(g_sleeping', g_sio_blocked', g_free_pcbs', tab)
  BY <1>1, <1>4, OthersMatch DEF Queues, States
<1>7. Roles(tab, prio, seg, g_free_stacks)
  BY <1>1, <1>4 DEF Roles
<1>8. (\A p \in Pcbs : tab[p] # ST_RUNNING) /\ tab[Idle] = ST_READY
  BY <1>1, <1>4
<1> HIDE DEF tab, new
<1> QED BY <1>1, <1>2, <1>3, <1>4, <1>5, <1>6, <1>7, <1>8, DispatchInv

\* Handlers that touch no queue and no process state.
LEMMA StillInv ==
  ASSUME IInv, Running, UNCHANGED <<state, prio, queues, g_current, g_quantum>>,
         kstat' \in {"running", "hotswap", "panic_memory"}, OtherTypes',
         Roles(state', prio', seg', g_free_stacks')
  PROVE  IInv'
<1>1. CASE kstat' = "running"
  <2>1. UNCHANGED <<g_ready, g_sleeping, g_sio_blocked, g_free_pcbs,
                    g_free_stacks, g_free_qnodes>>
    BY DEF queues
  <2> QED BY <1>1, <2>1, InvFacts, FactsInv
<1>2. CASE kstat' # "running"
  <2>1. UNCHANGED <<g_ready, g_sleeping, g_sio_blocked, g_free_pcbs,
                    g_free_stacks, g_free_qnodes>>
    BY DEF queues
  <2>2. TypeOK' BY <1>2, <2>1 DEF IInv, TypeOK, OtherTypes
  <2> QED
    BY <1>2, <2>2 DEF IInv, NoQueuePanic, OneQueuePerPcb, KernelProcesses, Running
<1> QED BY <1>1, <1>2

LEMMA StopInv ==
  ASSUME IInv, Running, NEW why \in {"hotswap", "panic_memory"}, StopWith(why)
  PROVE  IInv'
<1>1. OtherTypes' /\ Roles(state', prio', seg', g_free_stacks')
  BY InvFacts DEF StopWith, pcbs, queues, OtherTypes
<1> QED BY <1>1, StillInv DEF StopWith, pcbs
LEMMA YieldInv ==
  ASSUME IInv, Yield PROVE IInv'
<1>1. Running BY DEF Yield, UserCall, MayCall
<1>2. OtherTypes' BY <1>1, InvFacts DEF Yield, OtherTypes
<1>3. state \in [Pcbs -> States]
  BY <1>1, InvFacts
<1> QED BY <1>1, <1>2, <1>3, InvFacts, RescheduleInv DEF Yield

LEMMA ReadCharInv ==
  ASSUME IInv, ReadChar PROVE IInv'
<1>1. Running BY DEF ReadChar, UserCall, MayCall
<1>2. OtherTypes' /\ Roles(state', prio', seg', g_free_stacks')
  BY <1>1, InvFacts, KernelAssumption
     DEF ReadChar, pcbs, queues, OtherTypes
<1> QED BY <1>1, <1>2, StillInv DEF ReadChar, pcbs, Running

LEMMA RxInterruptInv ==
  ASSUME IInv, RxInterrupt PROVE IInv'
<1>1. Running BY DEF RxInterrupt
<1>2. CASE g_sio_blocked = <<>>
  <2>1. OtherTypes' /\ Roles(state', prio', seg', g_free_stacks')
    BY <1>1, <1>2, InvFacts, KernelAssumption DEF RxInterrupt, OtherTypes
  <2> QED BY <1>1, <1>2, <2>1, StillInv DEF RxInterrupt, queues, Running
<1>3. CASE g_sio_blocked # <<>>
  <2> DEFINE p == Head(g_sio_blocked)
  <2>1. /\ state' = [state EXCEPT ![p] = ST_READY]
        /\ g_ready' = Schedule(g_ready, p, prio[p])
        /\ g_sio_blocked' = Tail(g_sio_blocked)
        /\ OtherTypes' /\ kstat' = "running"
    BY <1>1, <1>3, InvFacts DEF RxInterrupt, OtherTypes, Running
  <2>2. /\ p \in Pcbs /\ state[p] = ST_WAITING
        /\ Matches(Tail(g_sio_blocked), state', ST_WAITING)
    BY <1>1, <1>3, <2>1, InvFacts, DequeMatches DEF Queues, States
  <2>3. ReadyMatches(g_ready', state', prio)
    <3>1. prio \in [Pcbs -> Priorities] BY DEF IInv, TypeOK
    <3> QED BY <1>1, <2>1, <2>2, <3>1, InvFacts, ScheduleMatches
  <2>4. /\ Matches(g_sleeping, state', ST_SLEEPING)
        /\ Matches(g_free_pcbs, state', ST_FREE)
    BY <1>1, <2>1, <2>2, InvFacts, OthersMatch DEF Queues, States
  <2> HIDE DEF p
  <2>5. Roles(state', prio, seg, g_free_stacks)
    BY <1>1, <2>1, <2>2, InvFacts DEF Roles
  <2>6. /\ state' \in [Pcbs -> States]
        /\ \A x \in Pcbs : state'[x] = ST_RUNNING <=> x = g_current
        /\ state'[Idle] \in {ST_READY, ST_RUNNING}
    BY <1>1, <2>1, <2>2, InvFacts DEF States
  <2> QED
    BY <1>1, <2>1, <2>2, <2>3, <2>4, <2>5, <2>6, InvFacts, FactsInv
       DEF RxInterrupt, Queues
<1> QED BY <1>2, <1>3

LEMMA ReadBlocksInv ==
  ASSUME IInv, ReadBlocks PROVE IInv'
<1> DEFINE tab == Leaves(ST_WAITING)
<1>1. Running BY DEF ReadBlocks, UserCall, MayCall
<1>2. /\ g_current \in Pcbs /\ state[g_current] = ST_RUNNING
      /\ g_current # Idle
      /\ tab = [state EXCEPT ![g_current] = ST_WAITING]
  BY <1>1, InvFacts DEF ReadBlocks, UserCall, Roles, Leaves
<1>3. g_free_qnodes \in Nat /\ g_free_qnodes >= 2
      /\ g_free_qnodes = NodesFor(g_free_stacks)
  BY <1>1, InvFacts, NodesLeft
<1>4. /\ Dispatch(g_ready, tab, g_free_qnodes - 1)
      /\ g_sio_blocked' = Append(g_sio_blocked, g_current)
      /\ OtherTypes'
  BY <1>1, <1>3, InvFacts DEF ReadBlocks, Enque, OtherTypes
<1> HIDE DEF tab
<1>5. Matches(g_sio_blocked', tab, ST_WAITING)
  BY <1>1, <1>2, <1>4, InvFacts, EnqueMatches DEF Queues, States
<1>6. /\ Matches(g_sleeping, tab, ST_SLEEPING)
      /\ Matches(g_free_pcbs, tab, ST_FREE)
  BY <1>1, <1>2, InvFacts, OthersMatch DEF Queues, States
<1>7. ReadyMatches(g_ready, tab, prio)
  BY <1>1, <1>2, InvFacts, OthersReady DEF States
<1>8. Roles(tab, prio, seg, g_free_stacks)
  BY <1>1, <1>2, InvFacts DEF Roles
<1>9. /\ tab \in [Pcbs -> States]
      /\ \A p \in Pcbs : tab[p] # ST_RUNNING
      /\ tab[Idle] = ST_READY
  BY <1>1, <1>2, InvFacts DEF States
<1>10. UNCHANGED <<prio, seg, g_free_stacks, g_sleeping, g_free_pcbs>>
  BY DEF ReadBlocks
<1> QED
  BY <1>1, <1>3, <1>4, <1>5, <1>6, <1>7, <1>8, <1>9, <1>10, DispatchInv
     DEF Queues
\* Insertion anywhere in a queue.
LEMMA InsertMatches ==
  ASSUME NEW q, NEW table \in [Pcbs -> States], NEW p \in Pcbs,
         NEW what \in States, Matches(q, table, what), table[p] # what,
         NEW n \in 0 .. Len(q)
  PROVE  Matches(SubSeq(q, 1, n) \o <<p>> \o SubSeq(q, n + 1, Len(q)),
                 [table EXCEPT ![p] = what], what)
<1> DEFINE a == SubSeq(q, 1, n)
           b == SubSeq(q, n + 1, Len(q))
<1>1. q \in Seq(Pcbs) /\ Distinct(q) /\ ~Holds(q, p)
  BY DEF Matches
<1>2. /\ a \in Seq(Pcbs) /\ b \in Seq(Pcbs)
      /\ Distinct(a) /\ Distinct(b)
      /\ \A x : Holds(q, x) <=> Holds(a, x) \/ Holds(b, x)
      /\ \A x : ~(Holds(a, x) /\ Holds(b, x))
  BY <1>1, SubSeqHolds
<1> HIDE DEF a, b
<1>3. /\ <<p>> \in Seq(Pcbs) /\ Distinct(<<p>>)
      /\ \A x : Holds(<<p>>, x) <=> x = p
  BY DEF Distinct, Holds
<1>4. /\ a \o <<p>> \in Seq(Pcbs) /\ Distinct(a \o <<p>>)
      /\ \A x : Holds(a \o <<p>>, x) <=> Holds(a, x) \/ x = p
  <2> DEFINE one == <<p>>
  <2>1. /\ one \in Seq(Pcbs) /\ Distinct(one)
        /\ \A x : Holds(one, x) <=> x = p
    BY <1>3
  <2>2. \A x : ~(Holds(a, x) /\ Holds(one, x))
    BY <1>1, <1>2, <2>1
  <2> HIDE DEF one
  <2>3. /\ a \o one \in Seq(Pcbs) /\ Distinct(a \o one)
        /\ \A x : Holds(a \o one, x) <=> Holds(a, x) \/ Holds(one, x)
    BY <1>2, <2>1, <2>2, ConcatHolds
  <2> QED BY <2>1, <2>3 DEF one
<1> DEFINE c == a \o <<p>>
<1> HIDE DEF c
<1>5. /\ c \in Seq(Pcbs) /\ Distinct(c)
      /\ \A x : Holds(c, x) <=> Holds(a, x) \/ x = p
  BY <1>4 DEF c
<1>6. /\ c \o b \in Seq(Pcbs) /\ Distinct(c \o b)
      /\ \A x : Holds(c \o b, x) <=> Holds(q, x) \/ x = p
  BY <1>1, <1>2, <1>5, ConcatHolds
<1>7. Matches(c \o b, [table EXCEPT ![p] = what], what)
  BY <1>6 DEF Matches
<1> QED BY <1>7 DEF a, b, c

LEMMA SleepInv ==
  ASSUME IInv, NEW ticks \in SleepTicks, Sleep(ticks) PROVE IInv'
<1> DEFINE tab == Leaves(ST_SLEEPING)
           w == (g_sys_time + ticks) % TIME_MOD
<1>1. Running BY DEF Sleep, UserCall, MayCall
<1>2. /\ g_current \in Pcbs /\ state[g_current] = ST_RUNNING
      /\ g_current # Idle
      /\ tab = [state EXCEPT ![g_current] = ST_SLEEPING]
  BY <1>1, InvFacts DEF Sleep, UserCall, Roles, Leaves
<1>3. g_free_qnodes \in Nat /\ g_free_qnodes >= 2
      /\ g_free_qnodes = NodesFor(g_free_stacks)
  BY <1>1, InvFacts, NodesLeft
<1>4. w \in Times
  BY <1>1, InvFacts, KernelAssumption DEF OtherTypes, Times
<1>5. /\ Dispatch(g_ready, tab, g_free_qnodes - 1)
      /\ EnqueSleeper(g_current, w)
      /\ wakeup' = [wakeup EXCEPT ![g_current] = w]
  BY <1>3 DEF Sleep
<1> HIDE DEF tab, w
<1>6. Matches(g_sleeping', tab, ST_SLEEPING)
  <2>1. PICK n \in 0 .. Len(g_sleeping) :
          g_sleeping' = SubSeq(g_sleeping, 1, n) \o <<g_current>>
                          \o SubSeq(g_sleeping, n + 1, Len(g_sleeping))
    BY <1>5 DEF EnqueSleeper, NotAfter
  <2> QED BY <1>1, <1>2, <2>1, InvFacts, InsertMatches DEF Queues, States
<1>7. OtherTypes'
  BY <1>1, <1>4, <1>5, InvFacts DEF Sleep, OtherTypes
<1>8. /\ Matches(g_sio_blocked, tab, ST_WAITING)
      /\ Matches(g_free_pcbs, tab, ST_FREE)
  BY <1>1, <1>2, InvFacts, OthersMatch DEF Queues, States
<1>9. ReadyMatches(g_ready, tab, prio)
  BY <1>1, <1>2, InvFacts, OthersReady DEF States
<1>10. Roles(tab, prio, seg, g_free_stacks)
  BY <1>1, <1>2, InvFacts DEF Roles
<1>11. /\ tab \in [Pcbs -> States]
       /\ \A p \in Pcbs : tab[p] # ST_RUNNING
       /\ tab[Idle] = ST_READY
  BY <1>1, <1>2, InvFacts DEF States
<1>12. UNCHANGED <<prio, seg, g_free_stacks, g_sio_blocked, g_free_pcbs>>
  BY DEF Sleep
<1> QED
  BY <1>1, <1>3, <1>5, <1>6, <1>7, <1>8, <1>9, <1>10, <1>11, <1>12, DispatchInv
     DEF Queues

LEMMA ExitUserInv ==
  ASSUME IInv, ExitUser PROVE IInv'
<1> DEFINE tab == Leaves(ST_FREE)
<1>1. Running BY DEF ExitUser, UserCall, MayCall
<1>2. /\ g_current \in Pcbs /\ state[g_current] = ST_RUNNING
      /\ g_current # Idle /\ seg[g_current] # 0
      /\ tab = [state EXCEPT ![g_current] = ST_FREE]
  BY <1>1, InvFacts DEF ExitUser, UserCall, Roles, Leaves
<1>3. g_free_qnodes \in Nat /\ g_free_qnodes >= 2
      /\ g_free_qnodes = NodesFor(g_free_stacks)
  BY <1>1, InvFacts, NodesLeft
<1>4. /\ Dispatch(g_ready, tab, g_free_qnodes - 1)
      /\ g_free_pcbs' = Append(g_free_pcbs, g_current)
  BY <1>3 DEF ExitUser, Enque, Left
<1> HIDE DEF tab
<1>5. UNCHANGED <<prio, wakeup, seg>>
  BY DEF ExitUser
<1>6. OtherTypes'
  BY <1>1, <1>2, <1>5, InvFacts, KernelAssumption
     DEF ExitUser, OtherTypes, Times, Segments
<1>8. Matches(g_free_pcbs', tab, ST_FREE)
  BY <1>1, <1>2, <1>4, InvFacts, EnqueMatches DEF Queues, States
<1>9. /\ Matches(g_sleeping, tab, ST_SLEEPING)
      /\ Matches(g_sio_blocked, tab, ST_WAITING)
  BY <1>1, <1>2, InvFacts, OthersMatch DEF Queues, States
<1>10. ReadyMatches(g_ready, tab, prio)
  BY <1>1, <1>2, InvFacts, OthersReady DEF States
<1>11. Roles(tab, prio, seg, g_free_stacks)
  <2>1. seg \in [Pcbs -> 0 .. N_SEGMENTS] /\ state \in [Pcbs -> States]
        /\ First \in Pcbs /\ Idle \in Pcbs
        /\ Roles(state, prio, seg, g_free_stacks)
    BY <1>1, InvFacts DEF OtherTypes
  <2>2. \A p \in Pcbs : p # g_current => tab[p] = state[p]
    BY <1>2, <2>1
  <2>3. tab[g_current] = ST_FREE
    BY <1>2, <2>1
  <2> QED BY <1>2, <2>1, <2>2, <2>3 DEF Roles
<1>12. /\ tab \in [Pcbs -> States]
       /\ \A p \in Pcbs : tab[p] # ST_RUNNING
       /\ tab[Idle] = ST_READY
  BY <1>1, <1>2, InvFacts DEF States
<1>13. UNCHANGED <<g_free_stacks, g_sio_blocked, g_sleeping>>
  BY DEF ExitUser
<1> QED
  BY <1>1, <1>3, <1>4, <1>5, <1>6, <1>8, <1>9, <1>10, <1>11, <1>12, <1>13,
     DispatchInv DEF Queues

LEMMA ExitKernelInv ==
  ASSUME IInv, ExitKernel PROVE IInv'
<1> DEFINE tab == Leaves(ST_FREE)
<1>1. Running BY DEF ExitKernel, MayCall
<1>2. /\ g_current \in Pcbs /\ state[g_current] = ST_RUNNING
      /\ g_current = First /\ seg[First] = 0
      /\ tab = [state EXCEPT ![g_current] = ST_FREE]
  BY <1>1, InvFacts DEF ExitKernel, MayCall, Roles, Leaves
<1>3. g_free_qnodes \in Nat /\ g_free_qnodes >= 3
      /\ g_free_qnodes = NodesFor(g_free_stacks)
  BY <1>1, <1>2, InvFacts, NodesLeft
<1>4. /\ Dispatch(g_ready, tab, g_free_qnodes - 2)
      /\ g_free_pcbs' = Append(g_free_pcbs, g_current)
      /\ g_free_stacks' = Append(g_free_stacks, g_current)
  BY <1>3 DEF ExitKernel, Enque, Left
<1> HIDE DEF tab
<1>5. UNCHANGED <<prio, wakeup, seg>>
  BY DEF ExitKernel
<1>6. OtherTypes'
  <2>1. g_free_stacks \in Seq(Pcbs) /\ 0 \in Times /\ 0 \in 0 .. N_SEGMENTS
    BY <1>1, InvFacts, KernelAssumption DEF OtherTypes, Times
  <2>2. g_free_stacks' \in Seq(Pcbs)
    BY <1>2, <1>4, <2>1, AppendProperties
  <2> QED BY <1>1, <1>2, <1>5, <2>1, <2>2, InvFacts DEF ExitKernel, OtherTypes
<1>8. Matches(g_free_pcbs', tab, ST_FREE)
  BY <1>1, <1>2, <1>4, InvFacts, EnqueMatches DEF Queues, States
<1>9. /\ Matches(g_sleeping, tab, ST_SLEEPING)
      /\ Matches(g_sio_blocked, tab, ST_WAITING)
  BY <1>1, <1>2, InvFacts, OthersMatch DEF Queues, States
<1>10. ReadyMatches(g_ready, tab, prio)
  BY <1>1, <1>2, InvFacts, OthersReady DEF States
<1>11. Len(g_free_stacks') = Len(g_free_stacks) + 1 /\ Len(g_free_stacks) \in Nat
  BY <1>1, <1>2, <1>4, InvFacts, AppendProperties, LenProperties DEF OtherTypes
<1>12. /\ Len(g_free_stacks') = N_PROCESSES - 1
       /\ (g_free_qnodes - 2) + 1 = NodesFor(g_free_stacks')
  <2>1. Len(g_free_stacks) = N_PROCESSES - 2
    BY <1>1, <1>2, InvFacts DEF Roles
  <2> QED BY <1>3, <1>11, <2>1, KernelAssumption DEF NodesFor
<1>13. Roles(tab, prio, seg, g_free_stacks')
  <2>1. seg \in [Pcbs -> 0 .. N_SEGMENTS] /\ state \in [Pcbs -> States]
        /\ First \in Pcbs /\ Idle \in Pcbs
        /\ Roles(state, prio, seg, g_free_stacks)
    BY <1>1, InvFacts DEF OtherTypes
  <2>2. \A p \in Pcbs : p # g_current => tab[p] = state[p]
    BY <1>2, <2>1
  <2>3. tab[First] = ST_FREE
    BY <1>2, <2>1
  <2> QED BY <1>2, <1>12, <2>1, <2>2, <2>3 DEF Roles
<1>14. /\ tab \in [Pcbs -> States]
       /\ \A p \in Pcbs : tab[p] # ST_RUNNING
       /\ tab[Idle] = ST_READY
  BY <1>1, <1>2, InvFacts DEF States
<1>15. UNCHANGED <<g_sio_blocked, g_sleeping>>
  BY DEF ExitKernel
<1>16. g_free_qnodes - 2 \in Nat
  BY <1>3
<1> QED
  BY <1>1, <1>4, <1>5, <1>6, <1>8, <1>9, <1>10, <1>12, <1>13, <1>14, <1>15,
     <1>16, DispatchInv DEF Queues

\* The child has the parent's priority; both become ready.
LEMMA ForkInv ==
  ASSUME IInv, Fork PROVE IInv'
<1> DEFINE child == Head(g_free_pcbs)
           tab == [state EXCEPT ![child] = ST_READY]
           both == [tab EXCEPT ![g_current] = ST_READY]
           rdy == Schedule(g_ready, child, prio[g_current])
           new == Schedule(rdy, g_current, prio[g_current])
<1>1. Running BY DEF Fork, MayCall
<1>2. /\ g_current \in Pcbs /\ state[g_current] = ST_RUNNING
      /\ g_current # Idle /\ prio[g_current] = PRI_NORMAL
      /\ Idle \in Pcbs /\ First \in Pcbs
  BY <1>1, InvFacts DEF Fork, MayCall, Roles
<1>3. g_free_qnodes \in Nat /\ g_free_qnodes >= 2
      /\ g_free_qnodes = NodesFor(g_free_stacks)
  BY <1>1, InvFacts, NodesLeft
<1>4. /\ child \in Pcbs /\ state[child] = ST_FREE
      /\ Matches(Tail(g_free_pcbs), tab, ST_FREE)
  BY <1>1, InvFacts, DequeMatches DEF Fork, Queues, States
<1>5. child # g_current /\ child # Idle
  BY <1>1, <1>2, <1>4, InvFacts
<1>6. PICK s \in g_freemem :
        /\ g_freemem' = g_freemem \ {s}
        /\ seg' = [seg EXCEPT ![child] = s]
        /\ prio' = [prio EXCEPT ![child] = prio[g_current]]
        /\ wakeup' = [wakeup EXCEPT ![child] = wakeup[g_current]]
        /\ Dispatch(new, both, g_free_qnodes - 1)
  <2>1. new = BothReady(child) /\ g_free_qnodes # 0
    BY <1>3 DEF BothReady
  <2>2. both = [state EXCEPT ![child] = ST_READY, ![g_current] = ST_READY]
    OBVIOUS
  <2> HIDE DEF new, both
  <2> QED BY <2>1, <2>2 DEF Fork
<1>7. g_free_pcbs' = Tail(g_free_pcbs) /\ UNCHANGED <<g_sleeping,
        g_sio_blocked, g_free_stacks, g_sys_time, g_incount>>
  BY DEF Fork
<1> HIDE DEF child
<1>8. prio' = prio
  BY <1>1, <1>2, <1>4, <1>5, <1>6, InvFacts DEF Roles
<1>9. tab \in [Pcbs -> States] /\ both \in [Pcbs -> States]
      /\ tab[g_current] = ST_RUNNING
  BY <1>1, <1>2, <1>4, <1>5, InvFacts DEF States
<1>10. ReadyMatches(new, both, prio)
  <2>1. prio \in [Pcbs -> Priorities] /\ prio[child] = prio[g_current]
    BY <1>1, <1>2, <1>4, <1>5, InvFacts DEF Roles, Priorities
  <2>2. state \in [Pcbs -> States] /\ ReadyMatches(g_ready, state, prio)
    BY <1>1, InvFacts
  <2>3. ReadyMatches(rdy, tab, prio)
    BY <1>4, <2>1, <2>2, ScheduleMatches
  <2> HIDE DEF tab, rdy
  <2> QED BY <1>2, <1>9, <2>1, <2>3, ScheduleMatches
<1>11. Queues(g_sleeping', g_sio_blocked', g_free_pcbs', both)
  <2>1. /\ Matches(g_sleeping, tab, ST_SLEEPING)
        /\ Matches(g_sio_blocked, tab, ST_WAITING)
    BY <1>1, <1>4, InvFacts, OthersMatch DEF Queues, States
  <2> HIDE DEF tab
  <2> QED BY <1>2, <1>4, <1>7, <1>9, <2>1, OthersMatch DEF Queues, States
<1>12. s \in 1 .. N_SEGMENTS /\ OtherTypes'
  <2>1. s \in 1 .. N_SEGMENTS
    BY <1>1, <1>6, InvFacts DEF OtherTypes, Segments
  <2>2. s \in 0 .. N_SEGMENTS BY <2>1, KernelAssumption
  <2>3. wakeup \in [Pcbs -> Times] /\ seg \in [Pcbs -> 0 .. N_SEGMENTS]
    BY <1>1, InvFacts DEF OtherTypes
  <2>4. wakeup' \in [Pcbs -> Times] /\ seg' \in [Pcbs -> 0 .. N_SEGMENTS]
    BY <1>2, <1>4, <1>6, <2>2, <2>3
  <2> QED BY <1>1, <1>6, <1>7, <2>1, <2>4, InvFacts DEF OtherTypes
<1>13. Roles(both, prio, seg', g_free_stacks)
  <2>1. seg \in [Pcbs -> 0 .. N_SEGMENTS] /\ state \in [Pcbs -> States]
        /\ Roles(state, prio, seg, g_free_stacks)
    BY <1>1, InvFacts DEF OtherTypes
  <2>2. seg'[Idle] = 0
    BY <1>2, <1>5, <1>6, <2>1 DEF Roles
  <2>3. \A p \in Pcbs : /\ p = child => seg'[p] # 0 /\ both[p] # ST_FREE
                        /\ p # child => seg'[p] = seg[p]
                        /\ p # child => (both[p] = ST_FREE <=> state[p] = ST_FREE)
    BY <1>2, <1>4, <1>6, <1>12, <2>1
  <2>4. \A p \in Pcbs \ {First, Idle} : both[p] # ST_FREE => seg'[p] # 0
    BY <2>1, <2>3 DEF Roles
  <2>5. (both[First] # ST_FREE /\ seg'[First] = 0)
          <=> (state[First] # ST_FREE /\ seg[First] = 0)
    BY <1>2, <1>4, <2>3
  <2> QED BY <2>1, <2>2, <2>4, <2>5 DEF Roles
<1>14. (\A p \in Pcbs : both[p] # ST_RUNNING) /\ both[Idle] = ST_READY
  BY <1>1, <1>2, <1>4, <1>5, InvFacts
<1>15. g_free_qnodes - 1 \in Nat
       /\ (g_free_qnodes - 1) + 1 = NodesFor(g_free_stacks')
  BY <1>3, <1>7
<1>16. /\ ReadyMatches(new, both, prio')
       /\ Roles(both, prio', seg', g_free_stacks')
  BY <1>7, <1>8, <1>10, <1>13
<1>17. OtherTypes' /\ Dispatch(new, both, g_free_qnodes - 1)
  BY <1>6, <1>12
<1> HIDE DEF both, new
<1> QED
  BY <1>1, <1>9, <1>11, <1>14, <1>15, <1>16, <1>17, DispatchInv

LEMMA ExecInv ==
  ASSUME IInv, Exec PROVE IInv'
<1>1. Running BY DEF Exec, UserCall, MayCall
<1>2. /\ g_current \in Pcbs /\ g_current # Idle /\ seg[g_current] # 0
      /\ state[g_current] = ST_RUNNING
      /\ Idle \in Pcbs /\ First \in Pcbs
  BY <1>1, InvFacts DEF Exec, UserCall, MayCall, Roles
<1>3. PICK s \in g_freemem :
        /\ seg' = [seg EXCEPT ![g_current] = s]
        /\ g_freemem' = (g_freemem \ {s}) \cup {seg[g_current]}
  BY DEF Exec
<1>4. /\ seg \in [Pcbs -> 0 .. N_SEGMENTS] /\ g_freemem \subseteq Segments
      /\ Roles(state, prio, seg, g_free_stacks)
  BY <1>1, InvFacts DEF OtherTypes
<1>5. s \in 1 .. N_SEGMENTS /\ seg[g_current] \in Segments
  BY <1>2, <1>3, <1>4, KernelAssumption DEF Segments
<1>6. UNCHANGED <<state, prio, wakeup, g_free_stacks, g_sys_time, g_incount>>
  BY DEF Exec, queues
<1>7. OtherTypes'
  <2>1. seg' \in [Pcbs -> 0 .. N_SEGMENTS] /\ g_freemem' \subseteq Segments
    <3>1. s \in 0 .. N_SEGMENTS BY <1>5, KernelAssumption
    <3>2. seg' \in [Pcbs -> 0 .. N_SEGMENTS] BY <1>3, <1>4, <3>1
    <3>3. g_freemem' \subseteq Segments BY <1>3, <1>4, <1>5
    <3> QED BY <3>2, <3>3
  <2> QED BY <1>1, <1>6, <2>1, InvFacts DEF OtherTypes
<1>8. Roles(state', prio', seg', g_free_stacks')
  <2>1. \A p \in Pcbs : seg'[p] = IF p = g_current THEN s ELSE seg[p]
    BY <1>2, <1>3, <1>4
  <2> QED BY <1>2, <1>4, <1>5, <1>6, <2>1 DEF Roles
<1> QED BY <1>1, <1>7, <1>8, StillInv DEF Exec, Running

LEMMA ClockTickInv ==
  ASSUME IInv, ClockTick PROVE IInv'
<1>1. Running BY DEF ClockTick
<1>2. PICK n \in DuePrefix(g_sys_time') :
        LET woken == {g_sleeping[i] : i \in 1 .. n}
        IN  /\ g_sleeping' = SubSeq(g_sleeping, n + 1, Len(g_sleeping))
            /\ wakeup' = [p \in Pcbs |-> IF p \in woken THEN 0 ELSE wakeup[p]]
            /\ TickQuantum(Woken(n),
                           [p \in Pcbs |-> IF p \in woken THEN ST_READY
                                                          ELSE state[p]])
  BY DEF ClockTick
<1> DEFINE front == SubSeq(g_sleeping, 1, n)
           back == SubSeq(g_sleeping, n + 1, Len(g_sleeping))
           woken == {g_sleeping[i] : i \in 1 .. n}
           tab == [p \in Pcbs |-> IF p \in woken THEN ST_READY ELSE state[p]]
<1>3. /\ n \in 0 .. Len(g_sleeping)
      /\ g_sleeping \in Seq(Pcbs) /\ Distinct(g_sleeping)
      /\ \A p \in Pcbs : Holds(g_sleeping, p) <=> state[p] = ST_SLEEPING
      /\ state \in [Pcbs -> States]
  BY <1>1, InvFacts DEF DuePrefix, Queues, Matches
<1>4. /\ front \in Seq(Pcbs) /\ back \in Seq(Pcbs)
      /\ Distinct(front) /\ Distinct(back)
      /\ \A q : Holds(front, q) <=> q \in woken
      /\ \A q : Holds(g_sleeping, q) <=> Holds(front, q) \/ Holds(back, q)
      /\ \A q : ~(Holds(front, q) /\ Holds(back, q))
  BY <1>3, SubSeqHolds
<1>5. /\ g_sleeping' = back
      /\ wakeup' = [p \in Pcbs |-> IF p \in woken THEN 0 ELSE wakeup[p]]
      /\ TickQuantum(Woken(n), tab)
  BY <1>2
<1>6. Woken(n) = [l \in Levels |-> g_ready[l] \o AtLevel(front, l)]
  BY DEF Woken
<1> HIDE DEF front, back, woken
<1>7. /\ tab \in [Pcbs -> States]
      /\ \A p \in Pcbs : p \in woken => state[p] = ST_SLEEPING
      /\ \A p \in Pcbs : tab[p] = IF p \in woken THEN ST_READY ELSE state[p]
  BY <1>3, <1>4 DEF States
<1> HIDE DEF tab
<1>8. Queues(g_sleeping', g_sio_blocked, g_free_pcbs, tab)
  <2>1. Matches(back, tab, ST_SLEEPING)
    BY <1>3, <1>4, <1>7 DEF Matches
  <2>2. Matches(g_sio_blocked, tab, ST_WAITING)
        /\ Matches(g_free_pcbs, tab, ST_FREE)
    BY <1>1, <1>7, InvFacts DEF Queues, Matches
  <2> QED BY <1>5, <2>1, <2>2 DEF Queues
<1>9. ReadyMatches(Woken(n), tab, prio)
  <2>1. ReadyMatches(g_ready, state, prio) BY <1>1, InvFacts
  <2>2. ASSUME NEW l \in Levels
        PROVE  /\ Woken(n)[l] \in Seq(Pcbs) /\ Distinct(Woken(n)[l])
               /\ \A p \in Pcbs : Holds(Woken(n)[l], p)
                    <=> tab[p] = ST_READY /\ PRIO_TO_INDEX(prio[p]) = l
    <3> DEFINE s == g_ready[l]
               t == AtLevel(front, l)
    <3>1. /\ s \in Seq(Pcbs) /\ Distinct(s)
          /\ \A p \in Pcbs :
               Holds(s, p) <=> state[p] = ST_READY /\ PRIO_TO_INDEX(prio[p]) = l
      BY <2>1 DEF ReadyMatches
    <3>2. /\ t \in Seq(Pcbs) /\ Distinct(t)
          /\ \A q : Holds(t, q) <=> q \in woken /\ PRIO_TO_INDEX(prio[q]) = l
      BY <1>4, AtLevelHolds DEF Level
    <3>3. Woken(n)[l] = s \o t BY <1>6
    <3> HIDE DEF s, t
    <3>4. \A q : Holds(t, q) => q \in Pcbs
      BY <3>2, ElementOfSeq DEF Holds
    <3>5. \A q : ~(Holds(s, q) /\ Holds(t, q))
      BY <1>7, <3>1, <3>2, <3>4
    <3>6. /\ s \o t \in Seq(Pcbs) /\ Distinct(s \o t)
          /\ \A q : Holds(s \o t, q) <=> Holds(s, q) \/ Holds(t, q)
      BY <3>1, <3>2, <3>5, ConcatHolds
    <3> QED BY <1>7, <3>1, <3>2, <3>3, <3>6
  <2>3. Woken(n) \in [Levels -> Seq(Pcbs)]
    BY <1>6, <2>2
  <2> QED BY <2>2, <2>3 DEF ReadyMatches
<1>10. /\ \A p \in Pcbs : tab[p] = ST_RUNNING <=> p = g_current
       /\ tab[Idle] \in {ST_READY, ST_RUNNING}
       /\ Roles(tab, prio, seg, g_free_stacks)
  <2>1. \A p \in Pcbs : /\ tab[p] = ST_RUNNING <=> state[p] = ST_RUNNING
                        /\ tab[p] = ST_FREE <=> state[p] = ST_FREE
    BY <1>7
  <2> QED BY <1>1, <1>7, <2>1, InvFacts DEF Roles
<1>11. UNCHANGED <<prio, seg, g_sio_blocked, g_free_pcbs, g_free_stacks,
                   g_incount, g_freemem>>
       /\ g_sys_time' = (g_sys_time + 1) % TIME_MOD
  BY DEF ClockTick
<1>12. OtherTypes'
  <2>1. wakeup \in [Pcbs -> Times] /\ g_sys_time \in Times /\ 0 \in Times
    BY <1>1, InvFacts, KernelAssumption DEF OtherTypes, Times
  <2>2. wakeup' \in [Pcbs -> Times]
    BY <1>5, <2>1
  <2>3. g_sys_time' \in Times
    BY <1>11, <2>1, KernelAssumption DEF Times
  <2> QED BY <1>1, <1>11, <2>2, <2>3, InvFacts DEF OtherTypes
<1>13. CASE g_quantum > 1
  <2>1. /\ g_ready' = Woken(n) /\ state' = tab /\ g_quantum' = g_quantum - 1
        /\ UNCHANGED <<g_current, g_free_qnodes, kstat>>
    BY <1>5, <1>13 DEF TickQuantum
  <2>2. g_quantum' \in 1 .. 3 /\ kstat' = "running" /\ g_current' \in Pcbs
        /\ g_free_qnodes' = NodesFor(g_free_stacks')
    BY <1>1, <1>11, <1>13, <2>1, InvFacts DEF Running
  <2>3. /\ state' \in [Pcbs -> States]
        /\ ReadyMatches(g_ready', state', prio')
        /\ Queues(g_sleeping', g_sio_blocked', g_free_pcbs', state')
        /\ \A p \in Pcbs : state'[p] = ST_RUNNING <=> p = g_current'
        /\ Roles(state', prio', seg', g_free_stacks')
        /\ state'[Idle] \in {ST_READY, ST_RUNNING}
    BY <1>7, <1>8, <1>9, <1>10, <1>11, <2>1
  <2> QED BY <1>12, <2>2, <2>3, FactsInv
<1>14. CASE ~(g_quantum > 1)
  <2>1. Reschedule(Woken(n), tab) BY <1>5, <1>14 DEF TickQuantum
  <2>2. Queues(g_sleeping', g_sio_blocked', g_free_pcbs', tab)
    BY <1>8, <1>11
  <2> QED
    BY <1>1, <1>7, <1>9, <1>10, <1>11, <1>12, <2>1, <2>2, RescheduleInv
<1> QED BY <1>13, <1>14

\* Every step preserves IInv.
LEMMA NextInv == IInv /\ [Next]_vars => IInv'
<1> SUFFICES ASSUME IInv, [Next]_vars PROVE IInv'
  OBVIOUS
<1>1. CASE Interrupt
  BY <1>1, ClockTickInv, RxInterruptInv DEF Interrupt
<1>2. CASE SysCall
  <2>1. CASE ExitUser BY <2>1, ExitUserInv
  <2>2. CASE ExitKernel BY <2>2, ExitKernelInv
  <2>3. CASE ReadChar BY <2>3, ReadCharInv
  <2>4. CASE ReadBlocks BY <2>4, ReadBlocksInv
  <2>5. CASE Yield BY <2>5, YieldInv
  <2>6. ASSUME NEW ticks \in SleepTicks, Sleep(ticks) PROVE IInv'
    BY <2>6, SleepInv
  <2>7. CASE Fork BY <2>7, ForkInv
  <2>8. CASE Exec BY <2>8, ExecInv
  <2>9. CASE ExitPanics \/ ForkPanics \/ ExecPanics \/ Hotswap
    BY <2>9, StopInv
       DEF ExitPanics, ForkPanics, ExecPanics, Hotswap, UserCall, MayCall
  <2> QED
    BY <1>2, <2>1, <2>2, <2>3, <2>4, <2>5, <2>6, <2>7, <2>8, <2>9 DEF SysCall
<1>3. CASE UNCHANGED vars
  BY <1>3 DEF vars, IInv, TypeOK, OneQueuePerPcb, NoQueuePanic, KernelProcesses,
              Running, Level
<1> QED BY <1>1, <1>2, <1>3 DEF Next

LEMMA Invariance == Spec => []IInv
<1> QED BY InitInv, NextInv, PTL DEF Spec

-----------------------------------------------------------------------------
(* The theorems *)

\* Every variable keeps its type.
THEOREM TypeCorrect == Spec => []TypeOK
<1>1. IInv => TypeOK BY DEF IInv
<1> QED BY Invariance, <1>1, PTL

\* No handler queues a PCB twice, loses one, or leaves the current process in
\* a queue, however many processes there are.
THEOREM QueuesCorrect == Spec => []OneQueuePerPcb
<1>1. IInv => OneQueuePerPcb BY DEF IInv
<1> QED BY Invariance, <1>1, PTL

\* With two queue nodes per PCB, and an idle process that never blocks, no
\* handler ever fails to queue a PCB and _dispatch always finds one.
THEOREM NoQueuePanics == Spec => []NoQueuePanic
<1>1. IInv => NoQueuePanic BY DEF IInv
<1> QED BY Invariance, <1>1, PTL

\* The two kernel processes keep their roles and the node count its value.
THEOREM KernelProcessesCorrect == Spec => []KernelProcesses
<1>1. IInv => KernelProcesses BY DEF IInv
<1> QED BY Invariance, <1>1, PTL

\* _sys_read blocks only when the buffer is empty, and the receive interrupt
\* buffers only when nobody is blocked, so neither misses the other.
THEOREM ReadersMissNoInput == Spec => []NoReaderMissesInput
<1>1. Init => NoReaderMissesInput
  BY DEF Init, NoReaderMissesInput
<1>2. NoReaderMissesInput /\ [Next]_vars => NoReaderMissesInput'
  <2> SUFFICES ASSUME NoReaderMissesInput, [Next]_vars
               PROVE  NoReaderMissesInput'
    OBVIOUS
  <2>1. CASE RxInterrupt
    BY <2>1 DEF RxInterrupt, NoReaderMissesInput
  <2>2. CASE ReadChar
    BY <2>2, KernelAssumption DEF ReadChar, queues, NoReaderMissesInput
  <2>3. CASE ReadBlocks
    BY <2>3 DEF ReadBlocks, NoReaderMissesInput
  <2>4. CASE UNCHANGED <<g_sio_blocked, g_incount>>
    BY <2>4 DEF NoReaderMissesInput
  <2> QED
    BY <2>1, <2>2, <2>3, <2>4
       DEF Next, Interrupt, SysCall, ClockTick, ExitUser, ExitKernel,
           ExitPanics, Yield, Sleep, Fork, ForkPanics, Exec, ExecPanics,
           Hotswap, StopWith, queues, vars
<1> QED BY <1>1, <1>2, PTL DEF Spec

-----------------------------------------------------------------------------
(* Segments *)

\* The PCBs not in use are those in g_free_pcbs.
LEMMA FreePcbs ==
  /\ IInv /\ Running =>
       \A p \in Pcbs : state[p] = ST_FREE <=> Holds(g_free_pcbs, p)
  /\ IInv' /\ Running' =>
       \A p \in Pcbs : state'[p] = ST_FREE <=> Holds(g_free_pcbs', p)
BY DEF IInv, OneQueuePerPcb

\* A PCB takes a free segment s: one that was not in use, or one that gives
\* up its own for it.
LEMMA SegmentTaken ==
  ASSUME IInv, EachSegmentHasOneOwner, Running,
         NEW p \in Pcbs, NEW s \in g_freemem,
         seg' = [seg EXCEPT ![p] = s],
         g_freemem' = (g_freemem \ {s})
                        \cup IF state[p] = ST_FREE THEN {} ELSE {seg[p]} \ {0},
         state'[p] # ST_FREE,
         \A q \in Pcbs : q # p => (state'[q] = ST_FREE <=> state[q] = ST_FREE)
  PROVE  EachSegmentHasOneOwner'
<1>1. /\ seg \in [Pcbs -> 0 .. N_SEGMENTS] /\ g_freemem \subseteq Segments
      /\ \A t \in Segments : t # 0
  BY DEF IInv, TypeOK, Segments
<1>2. \A t \in Segments :
        /\ \A a, b \in Pcbs : Owns(a, t) /\ Owns(b, t) => a = b
        /\ t \in g_freemem <=> \A q \in Pcbs : ~Owns(q, t)
  BY DEF EachSegmentHasOneOwner
<1>3. \A q \in Pcbs : \A t : q # p => (Owns(q, t)' <=> Owns(q, t))
  BY <1>1 DEF Owns
<1>4. \A t : Owns(p, t)' <=> t = s
  BY <1>1 DEF Owns
<1>5. ASSUME NEW t \in Segments
      PROVE  /\ \A a, b \in Pcbs : Owns(a, t)' /\ Owns(b, t)' => a = b
             /\ t \in g_freemem' <=> \A q \in Pcbs : ~Owns(q, t)'
  <2>1. t \in g_freemem' <=> t # s /\ (t \in g_freemem \/ Owns(p, t))
    BY <1>1, <1>2 DEF Owns
  <2> QED BY <1>2, <1>3, <1>4, <2>1
<1> QED BY <1>5 DEF EachSegmentHasOneOwner

\* A PCB is given up with its segment.
LEMMA SegmentGivenUp ==
  ASSUME IInv, EachSegmentHasOneOwner, Running, NEW p \in Pcbs,
         seg' = seg, g_freemem' = g_freemem \cup ({seg[p]} \ {0}),
         state[p] # ST_FREE,
         \A q \in Pcbs : state'[q] = ST_FREE <=> state[q] = ST_FREE \/ q = p
  PROVE  EachSegmentHasOneOwner'
<1>1. \A t \in Segments : t # 0
  BY DEF Segments
<1>2. \A t \in Segments :
        /\ \A a, b \in Pcbs : Owns(a, t) /\ Owns(b, t) => a = b
        /\ t \in g_freemem <=> \A q \in Pcbs : ~Owns(q, t)
  BY DEF EachSegmentHasOneOwner
<1>3. \A q \in Pcbs : \A t : Owns(q, t)' <=> Owns(q, t) /\ q # p
  BY DEF Owns
<1>4. \A t \in Segments : t \in g_freemem' <=> t \in g_freemem \/ Owns(p, t)
  BY <1>1 DEF Owns
<1> QED BY <1>2, <1>3, <1>4 DEF EachSegmentHasOneOwner

\* Handlers that move no segment and give up no PCB.
LEMMA SegmentsStill ==
  ASSUME IInv, IInv', Running, Running', EachSegmentHasOneOwner,
         UNCHANGED <<seg, g_freemem, g_free_pcbs>>
  PROVE  EachSegmentHasOneOwner'
<1>1. \A p \in Pcbs : state'[p] = ST_FREE <=> state[p] = ST_FREE
  BY FreePcbs
<1> QED BY <1>1 DEF EachSegmentHasOneOwner, Owns

LEMMA SegmentsNext ==
  IInv /\ EachSegmentHasOneOwner /\ [Next]_vars => EachSegmentHasOneOwner'
<1> SUFFICES ASSUME IInv, EachSegmentHasOneOwner, [Next]_vars, Running'
             PROVE  EachSegmentHasOneOwner'
  BY DEF EachSegmentHasOneOwner
<1>0. /\ IInv' /\ g_current \in Pcbs /\ g_freemem \subseteq Segments
      /\ \A t \in Segments : t # 0
  <2>1. IInv' BY NextInv
  <2>2. \A t \in Segments : t # 0 BY DEF Segments
  <2> QED BY <2>1, <2>2 DEF IInv, TypeOK
<1>1. CASE ExitUser \/ ExitKernel
  <2>1. /\ Running /\ seg' = seg
        /\ g_freemem' = g_freemem \cup ({seg[g_current]} \ {0})
    BY <1>0, <1>1 DEF ExitUser, ExitKernel, UserCall, MayCall
  <2>2. g_free_qnodes >= 2 /\ g_free_qnodes \in Nat
        /\ g_free_pcbs \in Seq(Pcbs) /\ state[g_current] # ST_FREE
    BY <2>1, InvFacts, NodesLeft DEF Queues, Matches
  <2>3. g_free_pcbs' = Append(g_free_pcbs, g_current)
    BY <1>1, <2>2 DEF ExitUser, ExitKernel, Enque, Left
  <2>4. \A q \in Pcbs :
          state'[q] = ST_FREE <=> state[q] = ST_FREE \/ q = g_current
    BY <1>0, <2>1, <2>2, <2>3, FreePcbs, AppendHolds
  <2> QED BY <1>0, <2>1, <2>2, <2>4, SegmentGivenUp
<1>2. CASE Fork
  <2> DEFINE child == Head(g_free_pcbs)
  <2>1. Running /\ g_free_pcbs # <<>> /\ g_free_pcbs' = Tail(g_free_pcbs)
    BY <1>2 DEF Fork, MayCall
  <2>2. g_free_pcbs \in Seq(Pcbs) /\ Distinct(g_free_pcbs)
    BY <2>1, InvFacts DEF Queues, Matches
  <2>3. child \in Pcbs /\ Holds(g_free_pcbs, child)
        /\ \A q : Holds(g_free_pcbs', q) <=> Holds(g_free_pcbs, q) /\ q # child
    BY <2>1, <2>2, TailHolds
  <2>4. PICK s \in g_freemem :
          g_freemem' = g_freemem \ {s} /\ seg' = [seg EXCEPT ![child] = s]
    BY <1>2 DEF Fork
  <2> HIDE DEF child
  <2>5. /\ state[child] = ST_FREE /\ state'[child] # ST_FREE
        /\ \A q \in Pcbs : q # child =>
             (state'[q] = ST_FREE <=> state[q] = ST_FREE)
    BY <1>0, <2>1, <2>3, FreePcbs
  <2> QED BY <2>1, <2>3, <2>4, <2>5, SegmentTaken
<1>3. CASE Exec
  <2>1. /\ Running /\ seg[g_current] # 0 /\ state' = state
        /\ state[g_current] # ST_FREE
    BY <1>3, InvFacts DEF Exec, UserCall, MayCall
  <2>2. PICK s \in g_freemem :
          /\ seg' = [seg EXCEPT ![g_current] = s]
          /\ g_freemem' = (g_freemem \ {s}) \cup {seg[g_current]}
    BY <1>3 DEF Exec
  <2> QED BY <1>0, <2>1, <2>2, SegmentTaken
<1>4. CASE Running /\ UNCHANGED <<seg, g_freemem, g_free_pcbs>>
  BY <1>0, <1>4, SegmentsStill
<1>5. CASE ClockTick \/ RxInterrupt \/ ReadChar \/ ReadBlocks \/ Yield
           \/ \E ticks \in SleepTicks : Sleep(ticks)
  BY <1>4, <1>5
     DEF ClockTick, RxInterrupt, ReadChar, ReadBlocks, Yield, Sleep, UserCall,
         MayCall, pcbs, queues
<1>6. CASE ExitPanics \/ ForkPanics \/ ExecPanics \/ Hotswap
  BY <1>6 DEF ExitPanics, ForkPanics, ExecPanics, Hotswap, StopWith, Running
<1>7. CASE UNCHANGED vars
  BY <1>4, <1>7 DEF vars, Running
<1> QED
  BY <1>1, <1>2, <1>3, <1>5, <1>6, <1>7 DEF Next, Interrupt, SysCall

\* fork, exec and exit neither leak a segment nor share one.
THEOREM SegmentsCorrect == Spec => []EachSegmentHasOneOwner
<1>1. Init => EachSegmentHasOneOwner
  <2> SUFFICES ASSUME Init PROVE EachSegmentHasOneOwner OBVIOUS
  <2>1. \A p \in Pcbs : seg[p] = 0 BY DEF Init
  <2> QED BY <2>1 DEF Init, EachSegmentHasOneOwner, Owns, Segments
<1> QED BY <1>1, Invariance, SegmentsNext, PTL DEF Spec
-----------------------------------------------------------------------------
(* Who is dispatched, in what order, and when sleepers wake: the theorems    *)
(* from here on do not look at the levels, nor at the idle process.          *)

HIDE DEF PRI_NORMAL, PRI_MINIMUM, First, Idle

(* What a handler does to the ready queues *)

\* rdy is g_ready with more processes behind those that were there.
Extends(rdy) ==
  /\ rdy \in [Levels -> Seq(Pcbs)]
  /\ \A l \in Levels : /\ Len(g_ready[l]) <= Len(rdy[l])
                       /\ \A i \in 1 .. Len(g_ready[l]) : rdy[l][i] = g_ready[l][i]

\* A process is in the queue of its priority.
Levelled(rdy, pr) ==
  \A l \in Levels : \A p \in Pcbs : Holds(rdy[l], p) => PRIO_TO_INDEX(pr[p]) = l

\* The front of the best queue that is not empty becomes current.
Dispatched(rdy) ==
  \E l \in Levels :
    /\ rdy[l] # <<>>
    /\ \A k \in Levels : k < l => rdy[k] = <<>>
    /\ g_ready' = [rdy EXCEPT ![l] = Tail(rdy[l])]
    /\ g_current' = Head(rdy[l])

\* What a queue and its extension have in common.
LEMMA ExtendsFacts ==
  ASSUME NEW rdy, Extends(rdy), g_ready \in [Levels -> Seq(Pcbs)],
         NEW l \in Levels
  PROVE  /\ rdy[l] \in Seq(Pcbs) /\ Len(rdy[l]) \in Nat
         /\ g_ready[l] \in Seq(Pcbs) /\ Len(g_ready[l]) \in Nat
         /\ Len(g_ready[l]) <= Len(rdy[l])
         /\ \A i \in 1 .. Len(g_ready[l]) : rdy[l][i] = g_ready[l][i]
<1>1. rdy[l] \in Seq(Pcbs) /\ g_ready[l] \in Seq(Pcbs)
  BY DEF Extends
<1> QED BY <1>1, LenProperties DEF Extends

\* A handler that schedules nobody leaves the queues as they are.
LEMMA ExtendsItself ==
  ASSUME g_ready \in [Levels -> Seq(Pcbs)] PROVE Extends(g_ready)
<1>1. \A l \in Levels : Len(g_ready[l]) \in Nat
  BY LenProperties
<1> QED BY <1>1 DEF Extends

\* _schedule appends.
LEMMA ScheduleExtends ==
  ASSUME NEW rdy, Extends(rdy), g_ready \in [Levels -> Seq(Pcbs)],
         NEW p \in Pcbs, NEW pr \in [Pcbs -> Priorities], Levelled(rdy, pr)
  PROVE  /\ Extends(Schedule(rdy, p, pr[p]))
         /\ Levelled(Schedule(rdy, p, pr[p]), pr)
<1> DEFINE new == Schedule(rdy, p, pr[p])
<1>1. ASSUME NEW l \in Levels
      PROVE  /\ new[l] \in Seq(Pcbs)
             /\ Len(g_ready[l]) <= Len(new[l])
             /\ \A i \in 1 .. Len(g_ready[l]) : new[l][i] = g_ready[l][i]
             /\ \A q : Holds(new[l], q)
                         => Holds(rdy[l], q) \/ (q = p /\ PRIO_TO_INDEX(pr[p]) = l)
  <2>1. /\ rdy[l] \in Seq(Pcbs) /\ Len(rdy[l]) \in Nat
        /\ Len(g_ready[l]) \in Nat
        /\ Len(g_ready[l]) <= Len(rdy[l])
        /\ \A i \in 1 .. Len(g_ready[l]) : rdy[l][i] = g_ready[l][i]
    BY ExtendsFacts
  <2>2. CASE PRIO_TO_INDEX(pr[p]) # l
    <3>1. new[l] = rdy[l] BY <2>2 DEF Schedule
    <3> QED BY <2>1, <3>1
  <2>3. CASE PRIO_TO_INDEX(pr[p]) = l
    <3>1. new[l] = Append(rdy[l], p) BY <2>3 DEF Schedule
    <3>2. /\ Append(rdy[l], p) \in Seq(Pcbs)
          /\ Len(Append(rdy[l], p)) = Len(rdy[l]) + 1
          /\ \A i \in 1 .. Len(rdy[l]) : Append(rdy[l], p)[i] = rdy[l][i]
      BY <2>1, AppendProperties
    <3>3. \A q : Holds(Append(rdy[l], p), q) <=> Holds(rdy[l], q) \/ q = p
      BY <2>1, AppendHolds
    <3> QED BY <2>1, <2>3, <3>1, <3>2, <3>3
  <2> QED BY <2>2, <2>3
<1>2. new \in [Levels -> Seq(Pcbs)]
  <2>1. new = [l \in Levels |-> new[l]] BY DEF Schedule
  <2> HIDE DEF new
  <2> QED BY <1>1, <2>1
<1> HIDE DEF new
<1>3. Extends(new) BY <1>1, <1>2 DEF Extends
<1>4. Levelled(new, pr) BY <1>1 DEF Levelled
<1> QED BY <1>3, <1>4 DEF new

\* The sleepers that are woken go behind those that are ready.
LEMMA WokenExtends ==
  ASSUME IInv, Running, NEW n \in 0 .. Len(g_sleeping)
  PROVE  Extends(Woken(n)) /\ Levelled(Woken(n), prio)
<1> DEFINE front == SubSeq(g_sleeping, 1, n)
<1>1. /\ g_sleeping \in Seq(Pcbs) /\ Distinct(g_sleeping)
      /\ g_ready \in [Levels -> Seq(Pcbs)]
      /\ Levelled(g_ready, prio)
  BY InvFacts DEF Queues, Matches, ReadyMatches, Levelled
<1>2. front \in Seq(Pcbs) /\ Distinct(front)
  BY <1>1, SubSeqHolds
<1>3. Woken(n) = [l \in Levels |-> g_ready[l] \o AtLevel(front, l)]
  BY DEF Woken
<1> HIDE DEF front
<1>4. ASSUME NEW l \in Levels
      PROVE  /\ Woken(n)[l] \in Seq(Pcbs)
             /\ Len(g_ready[l]) <= Len(Woken(n)[l])
             /\ \A i \in 1 .. Len(g_ready[l]) : Woken(n)[l][i] = g_ready[l][i]
             /\ \A p : Holds(Woken(n)[l], p)
                         => Holds(g_ready[l], p) \/ PRIO_TO_INDEX(prio[p]) = l
  <2> DEFINE s == g_ready[l]
             t == AtLevel(front, l)
  <2>1. s \in Seq(Pcbs) BY <1>1
  <2>2. /\ t \in Seq(Pcbs)
        /\ \A q : Holds(t, q) => PRIO_TO_INDEX(prio[q]) = l
    BY <1>2, AtLevelHolds DEF Level
  <2>3. Woken(n)[l] = s \o t BY <1>3
  <2> HIDE DEF s, t
  <2>4. /\ s \o t \in Seq(Pcbs)
        /\ \A q : Holds(s \o t, q) <=> Holds(s, q) \/ Holds(t, q)
    BY <2>1, <2>2, ConcatHolds
  <2>5. /\ Len(s) \in Nat /\ Len(t) \in Nat
        /\ Len(s \o t) = Len(s) + Len(t)
        /\ \A i \in 1 .. Len(s) : (s \o t)[i] = s[i]
    BY <2>1, <2>2, LenProperties, ConcatProperties
  <2>6. /\ Len(s) <= Len(s \o t)
    BY <2>5
  <2> QED BY <2>2, <2>3, <2>4, <2>5, <2>6 DEF s
<1>5. Woken(n) \in [Levels -> Seq(Pcbs)]
  BY <1>3, <1>4
<1>6. Extends(Woken(n)) BY <1>4, <1>5 DEF Extends
<1>7. Levelled(Woken(n), prio) BY <1>1, <1>4 DEF Levelled
<1> QED BY <1>6, <1>7
-----------------------------------------------------------------------------
(* The steps of the kernel *)

\* A handler that stops the kernel changes nothing else.
Stopped ==
  /\ kstat' # "running"
  /\ UNCHANGED <<state, prio, wakeup, g_ready, g_sleeping, g_sys_time, g_current>>

\* Any other appends to the ready queues and may dispatch.
Handled ==
  /\ kstat' = "running"
  /\ \E rdy : /\ Extends(rdy) /\ Levelled(rdy, prio')
              /\ (g_ready' = rdy /\ g_current' = g_current) \/ Dispatched(rdy)

\* _dispatch, called with queues that extend those of before.
LEMMA DispatchHandles ==
  ASSUME Running, NoQueuePanic', NEW rdy, NEW tab, NEW nodes,
         Dispatch(rdy, tab, nodes), Extends(rdy), Levelled(rdy, prio')
  PROVE  Handled
<1>1. ~(\A l \in Levels : rdy[l] = <<>>)
  BY DEF Dispatch, Panic, NoQueuePanic
<1>2. Dispatched(rdy) /\ kstat' = "running"
  BY <1>1 DEF Dispatch, TakeFrom, Dispatched, Running
<1> QED BY <1>2 DEF Handled

\* A handler that puts the current process behind its queue and dispatches.
LEMMA RescheduleHandles ==
  ASSUME IInv, Running, NoQueuePanic', NEW rdy, NEW tab, Reschedule(rdy, tab),
         Extends(rdy), Levelled(rdy, prio), prio' = prio
  PROVE  Handled
<1> DEFINE new == Schedule(rdy, g_current, prio[g_current])
<1>1. g_free_qnodes >= 2
  BY InvFacts, NodesLeft
<1>2. /\ g_ready \in [Levels -> Seq(Pcbs)]
      /\ prio \in [Pcbs -> Priorities] /\ g_current \in Pcbs
  BY InvFacts DEF IInv, TypeOK
<1>3. Extends(new) /\ Levelled(new, prio)
  BY <1>2, ScheduleExtends
<1>4. \E t : Dispatch(new, t, g_free_qnodes - 1)
  BY <1>1 DEF Reschedule
<1> HIDE DEF new
<1> QED BY <1>3, <1>4, DispatchHandles

\* The clock schedules those it wakes, and dispatches when the quantum is over.
LEMMA ClockTickHandles ==
  ASSUME IInv, NoQueuePanic', ClockTick PROVE Handled
<1>1. Running /\ prio' = prio BY DEF ClockTick
<1>2. PICK n \in DuePrefix(g_sys_time') : \E tab : TickQuantum(Woken(n), tab)
  BY DEF ClockTick
<1> PICK tab : TickQuantum(Woken(n), tab)
  BY <1>2
<1>3. n \in 0 .. Len(g_sleeping) BY DEF DuePrefix
<1>4. Extends(Woken(n)) /\ Levelled(Woken(n), prio)
  BY <1>1, <1>3, WokenExtends
<1> HIDE DEF Woken
<1>5. CASE g_quantum > 1
  <2>1. g_ready' = Woken(n) /\ g_current' = g_current /\ kstat' = "running"
    BY <1>1, <1>5 DEF TickQuantum, Running
  <2> QED BY <1>1, <1>4, <2>1 DEF Handled
<1>6. CASE ~(g_quantum > 1)
  <2>1. Reschedule(Woken(n), tab) BY <1>6 DEF TickQuantum
  <2> QED BY <1>1, <1>4, <2>1, RescheduleHandles
<1> QED BY <1>5, <1>6

\* The child of a fork is the front of the free PCBs.
LEMMA ForkFacts ==
  ASSUME IInv, Fork
  PROVE  LET child == Head(g_free_pcbs)
         IN  /\ child \in Pcbs /\ state[child] = ST_FREE
             /\ g_current \in Pcbs /\ child # g_current
             /\ prio' = [prio EXCEPT ![child] = prio[g_current]]
             /\ wakeup' = [wakeup EXCEPT ![child] = wakeup[g_current]]
             /\ g_free_pcbs' = Tail(g_free_pcbs)
             /\ UNCHANGED <<g_sleeping, g_sys_time>>
             /\ \E t : Dispatch(BothReady(child), t, g_free_qnodes - 1)
<1> DEFINE child == Head(g_free_pcbs)
<1>1. Running /\ g_free_pcbs # <<>> BY DEF Fork, MayCall
<1>2. g_free_qnodes >= 2
  BY <1>1, InvFacts, NodesLeft
<1>3. Matches(g_free_pcbs, state, ST_FREE)
  BY <1>1, InvFacts DEF Queues
<1>4. child \in Pcbs /\ Holds(g_free_pcbs, child)
  BY <1>1, <1>3, TailHolds DEF Matches
<1>5. state[child] = ST_FREE BY <1>3, <1>4 DEF Matches
<1>6. g_current \in Pcbs /\ state[g_current] = ST_RUNNING
  BY <1>1, InvFacts
<1> HIDE DEF BothReady
<1>7. \E t : Dispatch(BothReady(child), t, g_free_qnodes - 1)
  BY <1>2 DEF Fork
<1>8. /\ prio' = [prio EXCEPT ![child] = prio[g_current]]
      /\ wakeup' = [wakeup EXCEPT ![child] = wakeup[g_current]]
      /\ g_free_pcbs' = Tail(g_free_pcbs)
      /\ UNCHANGED <<g_sleeping, g_sys_time>>
  BY DEF Fork
<1> HIDE DEF child
<1>9. child # g_current BY <1>5, <1>6
<1> QED BY <1>4, <1>5, <1>6, <1>7, <1>8, <1>9 DEF child

\* fork appends the child and behind it the parent, and dispatches.
LEMMA ForkDispatches ==
  ASSUME IInv, NoQueuePanic', Fork
  PROVE  LET both == BothReady(Head(g_free_pcbs))
         IN  /\ Extends(both) /\ Levelled(both, prio')
             /\ Dispatched(both) /\ kstat' = "running"
<1> DEFINE child == Head(g_free_pcbs)
           first == Schedule(g_ready, child, prio[g_current])
           both == Schedule(first, g_current, prio[g_current])
<1>1. Running BY DEF Fork, MayCall
<1>2. /\ child \in Pcbs /\ state[child] = ST_FREE
      /\ g_current \in Pcbs /\ child # g_current
      /\ prio' = [prio EXCEPT ![child] = prio[g_current]]
      /\ \E t : Dispatch(BothReady(child), t, g_free_qnodes - 1)
  BY ForkFacts
<1>3. /\ g_ready \in [Levels -> Seq(Pcbs)]
      /\ prio \in [Pcbs -> Priorities]
      /\ ReadyMatches(g_ready, state, prio)
  BY <1>1, InvFacts DEF IInv, TypeOK
<1> HIDE DEF child
<1>4. /\ prio' \in [Pcbs -> Priorities]
      /\ prio'[child] = prio[g_current] /\ prio'[g_current] = prio[g_current]
      /\ \A p \in Pcbs : p # child => prio'[p] = prio[p]
  BY <1>2, <1>3
<1>5. Levelled(g_ready, prio')
  <2>1. ASSUME NEW l \in Levels, NEW p \in Pcbs, Holds(g_ready[l], p)
        PROVE  PRIO_TO_INDEX(prio'[p]) = l
    <3>1. state[p] = ST_READY /\ PRIO_TO_INDEX(prio[p]) = l
      BY <1>3, <2>1 DEF ReadyMatches
    <3>2. p # child BY <1>2, <3>1
    <3> QED BY <1>4, <3>1, <3>2
  <2> QED BY <2>1 DEF Levelled
<1>6. Extends(first) /\ Levelled(first, prio')
  <2>1. first = Schedule(g_ready, child, prio'[child]) BY <1>4
  <2> QED BY <1>2, <1>3, <1>4, <1>5, <2>1, ExtendsItself, ScheduleExtends
<1> HIDE DEF first
<1>7. Extends(both) /\ Levelled(both, prio')
  <2>1. both = Schedule(first, g_current, prio'[g_current]) BY <1>4
  <2> QED BY <1>2, <1>3, <1>4, <1>6, <2>1, ScheduleExtends
<1>8. both = BothReady(child)
  BY DEF BothReady, first
<1> HIDE DEF both
<1>9. Dispatched(both) /\ kstat' = "running"
  <2>1. PICK t : Dispatch(both, t, g_free_qnodes - 1)
    BY <1>2, <1>8
  <2>2. ~(\A l \in Levels : both[l] = <<>>)
    BY <1>1, <2>1 DEF Dispatch, Panic, NoQueuePanic
  <2> QED BY <1>1, <2>1, <2>2 DEF Dispatch, TakeFrom, Dispatched, Running
<1> QED BY <1>7, <1>8, <1>9 DEF child

\* A character schedules at most one blocked reader.
LEMMA RxInterruptHandles ==
  ASSUME IInv, RxInterrupt PROVE Handled
<1>1. Running /\ prio' = prio /\ g_current' = g_current /\ kstat' = "running"
  BY DEF RxInterrupt, Running
<1>2. /\ g_ready \in [Levels -> Seq(Pcbs)]
      /\ prio \in [Pcbs -> Priorities]
      /\ Levelled(g_ready, prio) /\ Extends(g_ready)
  BY <1>1, InvFacts, ExtendsItself
     DEF IInv, TypeOK, ReadyMatches, Levelled
<1>3. CASE g_sio_blocked = <<>>
  BY <1>1, <1>2, <1>3 DEF RxInterrupt, Handled
<1>4. CASE g_sio_blocked # <<>>
  <2> DEFINE p == Head(g_sio_blocked)
             new == Schedule(g_ready, p, prio[p])
  <2>1. g_ready' = new BY <1>4 DEF RxInterrupt
  <2>2. p \in Pcbs
    BY <1>1, <1>4, InvFacts, TailHolds DEF Queues, Matches
  <2>3. Extends(new) /\ Levelled(new, prio)
    BY <1>2, <2>2, ScheduleExtends
  <2> HIDE DEF new
  <2> QED BY <1>1, <2>1, <2>3 DEF Handled
<1> QED BY <1>3, <1>4

\* Every step stops the system or extends the ready queues and may dispatch.
LEMMA NextHandles ==
  ASSUME IInv, IInv', Next PROVE Stopped \/ Handled
<1>1. NoQueuePanic' BY DEF IInv
<1>2. CASE Interrupt
  BY <1>1, <1>2, ClockTickHandles, RxInterruptHandles DEF Interrupt
<1>3. CASE SysCall
  <2>1. Running
    BY <1>3 DEF SysCall, ExitUser, ExitKernel, ExitPanics, ReadChar, ReadBlocks,
                Yield, Sleep, Fork, ForkPanics, Exec, ExecPanics, Hotswap,
                UserCall, MayCall
  <2>2. /\ g_free_qnodes >= 2
        /\ Levelled(g_ready, prio) /\ Extends(g_ready)
    <3>1. g_free_qnodes >= 2 BY <2>1, InvFacts, NodesLeft
    <3>2. g_ready \in [Levels -> Seq(Pcbs)] /\ Levelled(g_ready, prio)
      BY <2>1, InvFacts DEF ReadyMatches, Levelled
    <3> QED BY <3>1, <3>2, ExtendsItself
  <2>3. ASSUME NEW t, NEW nodes, Dispatch(g_ready, t, nodes), prio' = prio
        PROVE  Handled
    BY <1>1, <2>1, <2>2, <2>3, DispatchHandles
  <2>4. ASSUME g_ready' = g_ready, g_current' = g_current, prio' = prio,
               kstat' = kstat
        PROVE  Handled
    BY <2>1, <2>2, <2>4 DEF Handled, Running
  <2>5. CASE ExitUser BY <2>3, <2>5 DEF ExitUser
  <2>6. CASE ExitKernel BY <2>3, <2>6 DEF ExitKernel
  <2>7. CASE ReadBlocks BY <2>2, <2>3, <2>7 DEF ReadBlocks
  <2>8. ASSUME NEW ticks \in SleepTicks, Sleep(ticks) PROVE Handled
    BY <2>2, <2>3, <2>8 DEF Sleep
  <2>9. CASE Yield BY <1>1, <2>1, <2>2, <2>9, RescheduleHandles DEF Yield
  <2>10. CASE Fork BY <1>1, <2>10, ForkDispatches DEF Handled
  <2>11. CASE ReadChar BY <2>4, <2>11 DEF ReadChar, pcbs, queues
  <2>12. CASE Exec BY <2>4, <2>12 DEF Exec, queues
  <2>13. CASE ExitPanics \/ ForkPanics \/ ExecPanics \/ Hotswap
    BY <2>13 DEF ExitPanics, ForkPanics, ExecPanics, Hotswap, StopWith, Stopped,
                 pcbs, queues
  <2> QED
    BY <1>3, <2>5, <2>6, <2>7, <2>8, <2>9, <2>10, <2>11, <2>12, <2>13
       DEF SysCall
<1> QED BY <1>2, <1>3 DEF Next
-----------------------------------------------------------------------------
(* Dispatching *)

\* What IInv' says of the ready queues after a handler.
LEMMA ReadyNext ==
  ASSUME IInv', kstat' = "running"
  PROVE  /\ g_ready' \in [Levels -> Seq(Pcbs)]
         /\ prio' \in [Pcbs -> {PRI_NORMAL, PRI_MINIMUM}]
         /\ g_current' \in Pcbs
         /\ \A p \in Pcbs : \A l \in Levels :
              Holds(g_ready'[l], p)
                <=> state'[p] = ST_READY /\ PRIO_TO_INDEX(prio'[p]) = l
<1>1. g_ready' \in [Levels -> Seq(Pcbs)] /\ prio' \in [Pcbs -> Priorities]
      /\ g_current' \in Pcbs
  BY DEF IInv, TypeOK
<1>2. \A p \in Pcbs : \A l \in Levels :
        Holds(g_ready'[l], p) <=> state'[p] = ST_READY /\ PRIO_TO_INDEX(prio'[p]) = l
  BY DEF IInv, OneQueuePerPcb, Running, Level
<1>3. \A p \in Pcbs : prio'[p] \in {PRI_NORMAL, PRI_MINIMUM}
  BY DEF IInv, KernelProcesses, Running
<1> QED BY <1>1, <1>2, <1>3

\* What _dispatch does to the queue it takes from, and to the others.
LEMMA DispatchedFacts ==
  ASSUME NEW rdy, Extends(rdy), NEW l \in Levels, rdy[l] # <<>>,
         g_ready' = [rdy EXCEPT ![l] = Tail(rdy[l])]
  PROVE  /\ Head(rdy[l]) = rdy[l][1] /\ Head(rdy[l]) \in Pcbs
         /\ Holds(rdy[l], Head(rdy[l]))
         /\ Len(rdy[l]) \in Nat \ {0}
         /\ g_ready'[l] \in Seq(Pcbs) /\ Len(g_ready'[l]) = Len(rdy[l]) - 1
         /\ \A i \in 1 .. Len(rdy[l]) - 1 : g_ready'[l][i] = rdy[l][i + 1]
         /\ \A k \in Levels : k # l => g_ready'[k] = rdy[k]
<1>1. rdy \in [Levels -> Seq(Pcbs)] BY DEF Extends
<1>2. rdy[l] \in Seq(Pcbs) /\ g_ready'[l] = Tail(rdy[l])
      /\ \A k \in Levels : k # l => g_ready'[k] = rdy[k]
  BY <1>1
<1>3. /\ Len(rdy[l]) \in Nat /\ Len(rdy[l]) # 0
      /\ Tail(rdy[l]) \in Seq(Pcbs) /\ Len(Tail(rdy[l])) = Len(rdy[l]) - 1
      /\ Head(rdy[l]) = rdy[l][1] /\ rdy[l][1] \in Pcbs
      /\ \A i \in 1 .. Len(rdy[l]) - 1 : Tail(rdy[l])[i] = rdy[l][i + 1]
  BY <1>2, HeadTailProperties, EmptySeq, LenProperties, ElementOfSeq
<1>4. 1 \in 1 .. Len(rdy[l]) BY <1>3
<1>5. Holds(rdy[l], rdy[l][1]) BY <1>4 DEF Holds
<1> QED BY <1>2, <1>3, <1>5

\* Whoever _dispatch (scheduler.c) makes current has the best priority of all
\* that are ready after the handler.
THEOREM BestDispatched == Spec => DispatchesBest
<1>1. ASSUME IInv, IInv', Next, g_current' # g_current, NEW p \in Pcbs,
             state'[p] = ST_READY
      PROVE  prio'[g_current'] <= prio'[p]
  <2>1. Handled BY <1>1, NextHandles DEF Stopped
  <2>2. PICK rdy : /\ Extends(rdy) /\ Levelled(rdy, prio')
                   /\ Dispatched(rdy)
    BY <1>1, <2>1 DEF Handled
  <2>3. PICK l \in Levels :
          /\ rdy[l] # <<>>
          /\ \A k \in Levels : k < l => rdy[k] = <<>>
          /\ g_ready' = [rdy EXCEPT ![l] = Tail(rdy[l])]
          /\ g_current' = Head(rdy[l])
    BY <2>2 DEF Dispatched
  <2>5. /\ g_current' \in Pcbs /\ Holds(rdy[l], g_current')
        /\ \A k \in Levels : k # l => g_ready'[k] = rdy[k]
    <3>1. Extends(rdy) BY <2>2
    <3> QED BY <2>3, <3>1, DispatchedFacts
  <2>6. PRIO_TO_INDEX(prio'[g_current']) = l
    BY <2>2, <2>5 DEF Levelled
  <2> DEFINE k == PRIO_TO_INDEX(prio'[p])
  <2>7. kstat' = "running" BY <2>1 DEF Handled
  <2>8. /\ prio'[p] \in {PRI_NORMAL, PRI_MINIMUM}
        /\ prio'[g_current'] \in {PRI_NORMAL, PRI_MINIMUM}
    BY <1>1, <2>5, <2>7, ReadyNext
  <2>9. k \in Levels BY <2>8 DEF PRIO_TO_INDEX, Levels, PRI_NORMAL, PRI_MINIMUM
  <2>10. Holds(g_ready'[k], p) BY <1>1, <2>7, <2>9, ReadyNext
  <2>11. ~(k < l)
    <3>1. ASSUME k < l PROVE FALSE
      <4>1. rdy[k] = <<>> /\ k # l BY <2>3, <2>9, <3>1 DEF Levels
      <4>2. g_ready'[k] = <<>> BY <2>5, <2>9, <4>1
      <4> QED BY <2>10, <4>2 DEF Holds
    <3> QED BY <3>1
  <2> QED BY <2>6, <2>8, <2>11 DEF PRIO_TO_INDEX, PRI_NORMAL, PRI_MINIMUM
<1>2. IInv /\ IInv' /\ [Next]_vars =>
        [g_current' # g_current =>
           \A p \in Pcbs : state'[p] = ST_READY =>
             prio'[g_current'] <= prio'[p]]_vars
  BY <1>1
<1> QED BY <1>2, Invariance, PTL DEF Spec, DispatchesBest

\* Processes of one priority run in the order in which _schedule appended them.
THEOREM NobodyOvertakes == Spec => NoOvertaking
<1>1. ASSUME IInv, IInv', Next, NEW l \in Levels, NEW p \in Pcbs, NEW q \in Pcbs,
             p # q, Holds(g_ready[l], p), ~Before(g_ready[l], q, p)
      PROVE  \/ g_current' = p
             \/ /\ Holds(g_ready'[l], p)
                /\ Holds(g_ready'[l], q) => Before(g_ready'[l], p, q)
                /\ g_current' = q /\ g_current # q => Level(q)' # l
  <2>0. g_ready \in [Levels -> Seq(Pcbs)] BY <1>1 DEF IInv, TypeOK
  <2>1. PICK i \in 1 .. Len(g_ready[l]) : g_ready[l][i] = p
    BY <1>1 DEF Holds
  <2>2. \A j \in 1 .. Len(g_ready[l]) : g_ready[l][j] = q => i < j
    <3> SUFFICES ASSUME NEW j \in 1 .. Len(g_ready[l]), g_ready[l][j] = q
                 PROVE  i < j
      OBVIOUS
    <3>1. ~(j < i) BY <1>1, <2>1 DEF Before
    <3>2. j # i BY <1>1, <2>1
    <3> QED BY <3>1, <3>2
  <2>3. CASE Stopped
    <3>1. g_ready' = g_ready /\ g_current' = g_current BY <2>3 DEF Stopped
    <3>2. Holds(g_ready[l], q) => Before(g_ready[l], p, q)
      BY <2>1, <2>2 DEF Holds, Before
    <3> QED BY <1>1, <3>1, <3>2
  <2>4. ASSUME NEW rdy, Extends(rdy), Levelled(rdy, prio')
        PROVE  /\ Len(rdy[l]) \in Nat /\ i \in 1 .. Len(rdy[l])
               /\ rdy[l][i] = p
               /\ \A j \in 1 .. Len(rdy[l]) : rdy[l][j] = q => i < j
    <3>1. /\ Len(rdy[l]) \in Nat /\ Len(g_ready[l]) \in Nat
          /\ Len(g_ready[l]) <= Len(rdy[l])
          /\ \A j \in 1 .. Len(g_ready[l]) : rdy[l][j] = g_ready[l][j]
      BY <2>0, <2>4, ExtendsFacts
    <3>2. ASSUME NEW j \in 1 .. Len(rdy[l]), rdy[l][j] = q PROVE i < j
      <4>1. CASE j <= Len(g_ready[l]) BY <2>2, <3>1, <3>2, <4>1
      <4>2. CASE ~(j <= Len(g_ready[l])) BY <2>1, <3>1, <4>2
      <4> QED BY <4>1, <4>2
    <3> QED BY <2>1, <3>1, <3>2
  <2>5. ASSUME NEW rdy, Extends(rdy), Levelled(rdy, prio'),
               g_ready' = rdy, g_current' = g_current
        PROVE  /\ Holds(g_ready'[l], p)
               /\ Holds(g_ready'[l], q) => Before(g_ready'[l], p, q)
    BY <2>4, <2>5 DEF Holds, Before
  <2>6. ASSUME NEW rdy, Extends(rdy), Levelled(rdy, prio'), Dispatched(rdy),
               g_current' # p
        PROVE  /\ Holds(g_ready'[l], p)
               /\ Holds(g_ready'[l], q) => Before(g_ready'[l], p, q)
               /\ g_current' = q => Level(q)' # l
    <3>1. PICK m \in Levels :
            /\ rdy[m] # <<>>
            /\ g_ready' = [rdy EXCEPT ![m] = Tail(rdy[m])]
            /\ g_current' = Head(rdy[m])
      BY <2>6 DEF Dispatched
    <3>2. /\ Len(rdy[l]) \in Nat /\ i \in 1 .. Len(rdy[l])
          /\ rdy[l][i] = p
          /\ \A j \in 1 .. Len(rdy[l]) : rdy[l][j] = q => i < j
      BY <2>4, <2>6
    <3>3. /\ Head(rdy[m]) = rdy[m][1] /\ Head(rdy[m]) \in Pcbs
          /\ Holds(rdy[m], Head(rdy[m]))
          /\ Len(rdy[m]) \in Nat \ {0}
          /\ Len(g_ready'[m]) = Len(rdy[m]) - 1
          /\ \A j \in 1 .. Len(rdy[m]) - 1 : g_ready'[m][j] = rdy[m][j + 1]
          /\ \A k \in Levels : k # m => g_ready'[k] = rdy[k]
      BY <2>6, <3>1, DispatchedFacts
    <3>4. PRIO_TO_INDEX(prio'[g_current']) = m
      BY <2>6, <3>1, <3>3 DEF Levelled
    <3>5. CASE m # l
      <4>1. g_ready'[l] = rdy[l] BY <3>3, <3>5
      <4>2. g_current' = q => Level(q)' # l BY <3>4, <3>5 DEF Level
      <4> QED BY <3>2, <4>1, <4>2 DEF Holds, Before
    <3>6. CASE m = l
      <4>1. i # 1 BY <2>6, <3>1, <3>2, <3>3, <3>6
      <4>2. i - 1 \in 1 .. Len(g_ready'[l]) /\ g_ready'[l][i - 1] = p
        BY <3>2, <3>3, <3>6, <4>1
      <4>3. ASSUME NEW j \in 1 .. Len(g_ready'[l]), g_ready'[l][j] = q
            PROVE  i - 1 < j
        <5>1. j + 1 \in 1 .. Len(rdy[l]) /\ rdy[l][j + 1] = q
          BY <3>3, <3>6, <4>3
        <5>2. i < j + 1 BY <3>2, <5>1
        <5> QED BY <5>2
      <4>4. g_current' # q
        <5>1. 1 \in 1 .. Len(rdy[l]) BY <3>3, <3>6
        <5>2. ~(i < 1) BY <3>2
        <5> QED BY <3>1, <3>2, <3>3, <3>6, <5>1, <5>2
      <4> QED BY <4>2, <4>3, <4>4 DEF Holds, Before
    <3> QED BY <3>5, <3>6
  <2>7. CASE Handled
    <3>1. PICK rdy : /\ Extends(rdy) /\ Levelled(rdy, prio')
                     /\ (g_ready' = rdy /\ g_current' = g_current) \/ Dispatched(rdy)
      BY <2>7 DEF Handled
    <3> QED BY <2>5, <2>6, <3>1
  <2> QED BY <1>1, <2>3, <2>7, NextHandles
<1>2. IInv /\ IInv' /\ [Next]_vars =>
        [\A l \in Levels : \A p, q \in Pcbs :
           p # q /\ Holds(g_ready[l], p) /\ ~Before(g_ready[l], q, p) =>
             \/ g_current' = p
             \/ /\ Holds(g_ready'[l], p)
                /\ Holds(g_ready'[l], q) => Before(g_ready'[l], p, q)
                /\ g_current' = q /\ g_current # q => Level(q)' # l]_vars
  BY <1>1
<1> QED BY <1>2, Invariance, PTL DEF Spec, NoOvertaking

\* A free PCB is taken by fork only.
LEMMA FreeStay ==
  ASSUME IInv, IInv', Next, NEW c \in Pcbs, state[c] = ST_FREE, state'[c] # ST_FREE
  PROVE  Fork /\ c = Head(g_free_pcbs)
<1>1. kstat' = "running"
  BY NextHandles DEF Stopped, Handled
<1>2. Running
  BY DEF Next, Interrupt, ClockTick, RxInterrupt, SysCall, ExitUser, ExitKernel,
         ExitPanics, ReadChar, ReadBlocks, Yield, Sleep, Fork, ForkPanics, Exec,
         ExecPanics, Hotswap, UserCall, MayCall
<1>3. /\ g_free_pcbs \in Seq(Pcbs) /\ Distinct(g_free_pcbs)
      /\ Holds(g_free_pcbs, c)
  BY <1>2, InvFacts DEF Queues, Matches
<1>4. ~Holds(g_free_pcbs', c)
  BY <1>1 DEF IInv, OneQueuePerPcb, Running
<1>5. /\ g_free_pcbs' # g_free_pcbs
      /\ \A n : g_free_pcbs' # Enque(g_free_pcbs, g_current, n)
  <2>1. g_current \in Pcbs BY DEF IInv, TypeOK
  <2>2. Holds(Append(g_free_pcbs, g_current), c)
    BY <1>3, <2>1, AppendHolds
  <2> QED BY <1>3, <1>4, <2>2 DEF Enque
<1>6. Fork
  BY <1>5 DEF Next, Interrupt, ClockTick, RxInterrupt, SysCall, ExitUser, ExitKernel,
              ExitPanics, ReadChar, ReadBlocks, Yield, Sleep, ForkPanics, Exec,
              ExecPanics, Hotswap, StopWith, queues
<1>7. g_free_pcbs # <<>> /\ g_free_pcbs' = Tail(g_free_pcbs)
  BY <1>6 DEF Fork
<1> QED BY <1>3, <1>4, <1>6, <1>7, TailHolds

\* _sys_fork schedules the child before the parent, and the child runs first.
THEOREM ChildrenRunFirst == Spec => ChildRunsFirst
<1>1. ASSUME IInv, IInv', Next, NEW c \in Pcbs, state[c] = ST_FREE,
             state'[c] # ST_FREE
      PROVE  \/ g_current' = c
             \/ Before(g_ready'[PRIO_TO_INDEX(prio'[c])], c, g_current)
  <2>1. Fork /\ c = Head(g_free_pcbs) BY <1>1, FreeStay
  <2> DEFINE both == BothReady(c)
             l == PRIO_TO_INDEX(prio[g_current])
  <2>2. NoQueuePanic' /\ g_ready \in [Levels -> Seq(Pcbs)]
        /\ prio \in [Pcbs -> Priorities]
    BY <1>1 DEF IInv, TypeOK
  <2>3. /\ Extends(both) /\ Dispatched(both)
    BY <1>1, <2>1, <2>2, ForkDispatches
  <2>4. g_current \in Pcbs /\ prio'[c] = prio[g_current]
    BY <1>1, <2>1, <2>2, ForkFacts
  <2>5. l \in Levels
    <3>1. prio[g_current] \in -2 .. 2 BY <2>2, <2>4 DEF Priorities
    <3> QED BY <3>1 DEF PRIO_TO_INDEX, Levels
  <2> DEFINE n == Len(g_ready[l])
  <2>6. both[l] = Append(Append(g_ready[l], c), g_current)
    BY <2>5 DEF BothReady, Schedule
  <2>7. /\ n \in Nat /\ Len(both[l]) = n + 2
        /\ both[l][n + 1] = c /\ both[l][n + 2] = g_current
    <3> DEFINE one == Append(g_ready[l], c)
    <3>1. g_ready[l] \in Seq(Pcbs) /\ n \in Nat
      BY <2>2, <2>5, LenProperties
    <3>2. one \in Seq(Pcbs) /\ Len(one) = n + 1 /\ one[n + 1] = c
      BY <3>1, AppendProperties
    <3> HIDE DEF one
    <3>3. /\ Len(Append(one, g_current)) = n + 2
          /\ \A i \in 1 .. n + 1 : Append(one, g_current)[i] = one[i]
          /\ Append(one, g_current)[n + 2] = g_current
      BY <2>4, <3>1, <3>2, AppendProperties
    <3>4. n + 1 \in 1 .. n + 1 BY <3>1
    <3> QED BY <2>6, <3>1, <3>2, <3>3, <3>4 DEF one
  <2> HIDE DEF both, l, n
  <2>8. PICK m \in Levels :
          /\ both[m] # <<>>
          /\ g_ready' = [both EXCEPT ![m] = Tail(both[m])]
          /\ g_current' = Head(both[m])
    BY <2>3 DEF Dispatched
  <2>9. /\ Head(both[m]) = both[m][1]
        /\ Len(g_ready'[m]) = Len(both[m]) - 1
        /\ \A i \in 1 .. Len(both[m]) - 1 : g_ready'[m][i] = both[m][i + 1]
        /\ \A k \in Levels : k # m => g_ready'[k] = both[k]
    <3>1. Extends(both) BY <2>3
    <3>2. both[m] # <<>> /\ g_ready' = [both EXCEPT ![m] = Tail(both[m])]
      BY <2>8
    <3> QED BY <2>8, <3>1, <3>2, DispatchedFacts
  <2>10. CASE m # l
    <3>1. g_ready'[l] = both[l] BY <2>5, <2>9, <2>10
    <3>2. /\ n + 1 \in 1 .. Len(g_ready'[l]) /\ n + 2 \in 1 .. Len(g_ready'[l])
          /\ n + 1 < n + 2
      BY <2>7, <3>1
    <3>3. Before(g_ready'[l], c, g_current) BY <2>7, <3>1, <3>2 DEF Before
    <3> QED BY <2>4, <3>3 DEF l
  <2>11. CASE m = l /\ n = 0
    BY <2>7, <2>8, <2>9, <2>11
  <2>12. CASE m = l /\ n # 0
    <3>1. /\ n \in 1 .. Len(g_ready'[l]) /\ n + 1 \in 1 .. Len(g_ready'[l])
          /\ n < n + 1
          /\ n \in 1 .. Len(both[l]) - 1 /\ n + 1 \in 1 .. Len(both[l]) - 1
      BY <2>7, <2>9, <2>12
    <3>2. g_ready'[l][n] = c /\ g_ready'[l][n + 1] = g_current
      <4>1. (n + 1) + 1 = n + 2 BY <2>7
      <4>2. g_ready'[l][n + 1] = both[l][(n + 1) + 1] BY <2>9, <2>12, <3>1
      <4> QED BY <2>7, <2>9, <2>12, <3>1, <4>1, <4>2
    <3>3. Before(g_ready'[l], c, g_current) BY <3>1, <3>2 DEF Before
    <3> QED BY <2>4, <3>3 DEF l
  <2> QED BY <2>10, <2>11, <2>12
<1>2. IInv /\ IInv' /\ [Next]_vars =>
        [\A c \in Pcbs : state[c] = ST_FREE /\ state'[c] # ST_FREE =>
           \/ g_current' = c
           \/ Before(g_ready'[PRIO_TO_INDEX(prio'[c])], c, g_current)]_vars
  BY <1>1
<1> QED BY <1>2, Invariance, PTL DEF Spec, ChildRunsFirst
-----------------------------------------------------------------------------
(* Sleepers, as long as system time does not wrap around *)

\* No sleep reaches the end of the clock's range or is longer than half of it.
NoWrap ==
  /\ MAX_TIME < TIME_MOD
  /\ \A t \in SleepTicks : t < TIME_MOD \div 2 /\ MAX_TIME + t < TIME_MOD

\* Sleepers wake later than now, the first to wake in front.
InOrder(s, w) == \A i, j \in 1 .. Len(s) : i < j => w[s[i]] <= w[s[j]]
Later(s, w, now) ==
  \A i \in 1 .. Len(s) : /\ now < w[s[i]]
                         /\ w[s[i]] < now + TIME_MOD \div 2
OnTime ==
  /\ g_sys_time <= MAX_TIME
  /\ InOrder(g_sleeping, wakeup)
  /\ Later(g_sleeping, wakeup, g_sys_time)

\* Times less than half the range apart compare like numbers.
LEMMA NearTimes ==
  ASSUME NEW a \in Times, NEW b \in Times, a - b < TIME_MOD \div 2,
         b - a < TIME_MOD \div 2
  PROVE  cmp_wakeup(a, b) = a - b
<1>1. /\ TIME_MOD \in Nat \ {0} /\ TIME_MOD % 2 = 0
      /\ a \in 0 .. TIME_MOD - 1 /\ b \in 0 .. TIME_MOD - 1
  BY KernelAssumption DEF Times
<1> DEFINE h == TIME_MOD \div 2
<1>2. h \in Nat /\ TIME_MOD = 2 * h
  BY <1>1
<1> DEFINE d == (a - b) % TIME_MOD
<1>d. cmp_wakeup(a, b) = IF d >= h THEN d - TIME_MOD ELSE d
  BY DEF cmp_wakeup
<1> HIDE DEF h
<1>3. CASE a >= b
  <2>1. d = a - b BY <1>1, <1>3
  <2>2. ~(a - b >= h) BY <1>1, <1>2 DEF h
  <2> HIDE DEF d
  <2> QED BY <1>d, <2>1, <2>2
<1>4. CASE a < b
  <2>1. d = a - b + TIME_MOD BY <1>1, <1>4
  <2>2. a - b + TIME_MOD >= h BY <1>1, <1>2 DEF h
  <2> HIDE DEF d
  <2>4. d >= h BY <2>1, <2>2
  <2>5. cmp_wakeup(a, b) = d - TIME_MOD BY <1>d, <2>4
  <2> QED BY <1>1, <2>1, <2>5
<1>5. a >= b \/ a < b BY <1>1
<1> QED BY <1>3, <1>4, <1>5

\* Inserting where the time belongs keeps the order.
LEMMA InsertInOrder ==
  ASSUME NEW s \in Seq(Pcbs), NEW w \in [Pcbs -> Int], NEW p \in Pcbs,
         NEW n \in 0 .. Len(s), InOrder(s, w),
         \A i \in 1 .. n : w[s[i]] <= w[p],
         n < Len(s) => w[s[n + 1]] > w[p]
  PROVE  LET t == SubSeq(s, 1, n) \o <<p>> \o SubSeq(s, n + 1, Len(s))
         IN  /\ InOrder(t, w)
             /\ \A i \in 1 .. Len(t) : t[i] = p \/ \E j \in 1 .. Len(s) : t[i] = s[j]
<1> DEFINE L == Len(s)
           t == SubSeq(s, 1, n) \o <<p>> \o SubSeq(s, n + 1, L)
<1>1. L \in Nat /\ \A i \in 1 .. L : s[i] \in Pcbs
  BY LenProperties, ElementOfSeq
<1>2. /\ Len(t) = L + 1
      /\ \A i \in 1 .. n : t[i] = s[i]
      /\ t[n + 1] = p
      /\ \A i \in n + 2 .. L + 1 : t[i] = s[i - 1]
  <2> DEFINE a == SubSeq(s, 1, n)
             b == SubSeq(s, n + 1, L)
             c == a \o <<p>>
  <2>1. /\ a \in Seq(Pcbs) /\ Len(a) = n /\ \A i \in 1 .. n : a[i] = s[i]
    BY <1>1
  <2>2. /\ b \in Seq(Pcbs) /\ Len(b) = L - n
        /\ \A i \in 1 .. L - n : b[i] = s[n + i]
    BY <1>1
  <2> HIDE DEF a, b
  <2>3. /\ c \in Seq(Pcbs) /\ Len(c) = n + 1
        /\ \A i \in 1 .. n : c[i] = a[i]
        /\ c[n + 1] = p
    BY <2>1
  <2> HIDE DEF c
  <2>4. /\ Len(c \o b) = L + 1
        /\ \A i \in 1 .. n + 1 : (c \o b)[i] = c[i]
        /\ \A i \in n + 2 .. L + 1 : (c \o b)[i] = b[i - (n + 1)]
    <3>1. /\ Len(c \o b) = Len(c) + Len(b)
          /\ \A i \in 1 .. Len(c) + Len(b) :
               (c \o b)[i] = IF i <= Len(c) THEN c[i] ELSE b[i - Len(c)]
      BY <2>2, <2>3, ConcatProperties
    <3>2. Len(c) + Len(b) = L + 1 /\ n \in Nat BY <1>1, <2>2, <2>3
    <3>3. \A i \in 1 .. L + 1 : (c \o b)[i] = IF i <= n + 1 THEN c[i] ELSE b[i - (n + 1)]
      BY <2>3, <3>1, <3>2
    <3>4. /\ \A i \in 1 .. n + 1 : i \in 1 .. L + 1 /\ i <= n + 1
          /\ \A i \in n + 2 .. L + 1 : i \in 1 .. L + 1 /\ ~(i <= n + 1)
      BY <1>1
    <3> QED BY <3>1, <3>2, <3>3, <3>4
  <2>5. \A i \in n + 2 .. L + 1 : /\ i - (n + 1) \in 1 .. L - n
                                 /\ n + (i - (n + 1)) = i - 1
    BY <1>1
  <2>6. /\ \A i \in 1 .. n : (c \o b)[i] = s[i]
        /\ (c \o b)[n + 1] = p
        /\ \A i \in n + 2 .. L + 1 : (c \o b)[i] = s[i - 1]
    <3>1. \A i \in 1 .. n + 1 : (c \o b)[i] = c[i] BY <2>4
    <3>2. n + 1 \in 1 .. n + 1 /\ \A i \in 1 .. n : i \in 1 .. n + 1 BY <1>1
    <3>3. \A i \in 1 .. n : (c \o b)[i] = s[i] BY <2>1, <2>3, <3>1, <3>2
    <3>4. (c \o b)[n + 1] = p BY <2>3, <3>1, <3>2
    <3>5. ASSUME NEW i \in n + 2 .. L + 1 PROVE (c \o b)[i] = s[i - 1]
      <4>1. (c \o b)[i] = b[i - (n + 1)] BY <2>4
      <4>2. b[i - (n + 1)] = s[n + (i - (n + 1))] BY <2>2, <2>5
      <4> QED BY <2>5, <4>1, <4>2
    <3> QED BY <3>3, <3>4, <3>5
  <2> QED BY <2>4, <2>6 DEF a, b, c
<1>3. ASSUME NEW i \in 1 .. L, i > n PROVE w[s[i]] > w[p]
  <2>1. n + 1 \in 1 .. L /\ w[s[n + 1]] > w[p] BY <1>1, <1>3
  <2>2. CASE i = n + 1 BY <2>1, <2>2
  <2>3. CASE i # n + 1
    <3>1. n + 1 < i BY <1>1, <1>3, <2>3
    <3>2. w[s[n + 1]] <= w[s[i]] BY <2>1, <3>1 DEF InOrder
    <3>3. w[s[n + 1]] \in Int /\ w[s[i]] \in Int /\ w[p] \in Int
      BY <1>1, <2>1
    <3> QED BY <2>1, <3>2, <3>3
  <2> QED BY <2>2, <2>3
<1>4. \A i, j \in 1 .. L : i < j => w[s[i]] <= w[s[j]]
  BY DEF InOrder
<1>5. w[p] \in Int /\ \A i \in 1 .. L : w[s[i]] \in Int
  BY <1>1
<1> HIDE DEF t
<1>6. \A i \in 1 .. Len(t) :
        \/ i <= n /\ i \in 1 .. L /\ t[i] = s[i]
        \/ i = n + 1 /\ t[i] = p
        \/ i > n + 1 /\ i - 1 \in 1 .. L /\ i - 1 > n /\ t[i] = s[i - 1]
  BY <1>1, <1>2
<1>7. ASSUME NEW i \in 1 .. Len(t), NEW j \in 1 .. Len(t), i < j
      PROVE  w[t[i]] <= w[t[j]]
  <2>0. i \in Int /\ j \in Int /\ n \in Int BY <1>1, <1>2
  <2>1. CASE i <= n /\ i \in 1 .. L /\ t[i] = s[i]
    <3>1. CASE j <= n /\ j \in 1 .. L /\ t[j] = s[j]
      BY <1>4, <1>7, <2>1, <3>1
    <3>2. CASE j = n + 1 /\ t[j] = p
      BY <2>0, <2>1, <3>2
    <3>3. CASE j > n + 1 /\ j - 1 \in 1 .. L /\ j - 1 > n /\ t[j] = s[j - 1]
      <4>1. i < j - 1 BY <2>0, <2>1, <3>3
      <4> QED BY <1>4, <2>1, <3>3, <4>1
    <3> QED BY <1>6, <3>1, <3>2, <3>3
  <2>2. CASE i = n + 1 /\ t[i] = p
    <3>1. j > n + 1 BY <1>7, <2>0, <2>2
    <3>2. j - 1 \in 1 .. L /\ j - 1 > n /\ t[j] = s[j - 1]
      BY <1>6, <2>0, <3>1
    <3>3. w[s[j - 1]] > w[p] BY <1>3, <3>2
    <3> QED BY <1>5, <2>2, <3>2, <3>3
  <2>3. CASE i > n + 1 /\ i - 1 \in 1 .. L /\ i - 1 > n /\ t[i] = s[i - 1]
    <3>1. j > n + 1 BY <1>7, <2>0, <2>3
    <3>2. j - 1 \in 1 .. L /\ t[j] = s[j - 1] /\ i - 1 < j - 1
      BY <1>6, <1>7, <2>0, <3>1
    <3> QED BY <1>4, <2>3, <3>2
  <2> QED BY <1>6, <2>1, <2>2, <2>3
<1>8. InOrder(t, w) BY <1>7 DEF InOrder
<1> QED BY <1>6, <1>8 DEF t

\* What the invariant says of the sleep queue.
LEMMA SleeperFacts ==
  ASSUME IInv, Running
  PROVE  /\ g_sleeping \in Seq(Pcbs) /\ Distinct(g_sleeping)
         /\ Len(g_sleeping) \in Nat
         /\ \A i \in 1 .. Len(g_sleeping) :
              g_sleeping[i] \in Pcbs /\ wakeup[g_sleeping[i]] \in Times
         /\ \A p \in Pcbs : Holds(g_sleeping, p) <=> state[p] = ST_SLEEPING
         /\ wakeup \in [Pcbs -> Times] /\ g_sys_time \in Times
         /\ Times = 0 .. TIME_MOD - 1 /\ TIME_MOD \in Nat \ {0}
         /\ TIME_MOD \div 2 \in Nat
<1>1. /\ g_sleeping \in Seq(Pcbs) /\ Distinct(g_sleeping)
      /\ \A p \in Pcbs : Holds(g_sleeping, p) <=> state[p] = ST_SLEEPING
      /\ wakeup \in [Pcbs -> Times] /\ g_sys_time \in Times
  BY InvFacts DEF Queues, Matches, OtherTypes
<1>2. /\ Len(g_sleeping) \in Nat
      /\ \A i \in 1 .. Len(g_sleeping) : g_sleeping[i] \in Pcbs
  BY <1>1, LenProperties, ElementOfSeq
<1>3. TIME_MOD \in Nat \ {0} /\ TIME_MOD \div 2 \in Nat
  BY KernelAssumption
<1> QED BY <1>1, <1>2, <1>3 DEF Times

\* Nobody sleeps at first.
LEMMA OnTimeInit == Init => OnTime
<1> SUFFICES ASSUME Init PROVE OnTime
  OBVIOUS
<1>1. g_sleeping = <<>> /\ g_sys_time = 0 BY DEF Init
<1>2. Len(g_sleeping) = 0 BY <1>1
<1> QED BY <1>1, <1>2, KernelAssumption DEF OnTime, InOrder, Later

\* A time that has not wrapped is its own remainder.
LEMMA BelowModulus == \A t \in Times : t % TIME_MOD = t
<1> SUFFICES ASSUME NEW t \in Times PROVE t % TIME_MOD = t
  OBVIOUS
<1>1. TIME_MOD \in Nat \ {0} /\ t \in 0 .. TIME_MOD - 1
  BY KernelAssumption DEF Times
<1> QED BY <1>1

\* _sys_sleep inserts the current process where its time belongs.
LEMMA SleepOnTime ==
  ASSUME NoWrap, IInv, OnTime, NEW ticks \in SleepTicks, Sleep(ticks)
  PROVE  /\ OnTime' /\ g_sys_time' = g_sys_time
         /\ \A p : Holds(g_sleeping, p) => Holds(g_sleeping', p)
<1> DEFINE now == g_sys_time
           w == (now + ticks) % TIME_MOD
           half == TIME_MOD \div 2
           c == g_current
<1>1. Running BY DEF Sleep, UserCall, MayCall
<1>2. /\ g_sleeping \in Seq(Pcbs) /\ Distinct(g_sleeping)
      /\ Len(g_sleeping) \in Nat
      /\ \A i \in 1 .. Len(g_sleeping) :
           g_sleeping[i] \in Pcbs /\ wakeup[g_sleeping[i]] \in Times
      /\ \A p \in Pcbs : Holds(g_sleeping, p) <=> state[p] = ST_SLEEPING
      /\ wakeup \in [Pcbs -> Times] /\ now \in Times
      /\ Times = 0 .. TIME_MOD - 1 /\ TIME_MOD \in Nat \ {0} /\ half \in Nat
  BY <1>1, SleeperFacts
<1>3. c \in Pcbs /\ ~Holds(g_sleeping, c)
  BY <1>1, <1>2, InvFacts
<1>4. /\ ticks \in Nat /\ ticks > 0 /\ ticks < half
      /\ now + ticks < TIME_MOD
  <2>1. /\ ticks < TIME_MOD \div 2 /\ MAX_TIME + ticks < TIME_MOD
        /\ now <= MAX_TIME /\ MAX_TIME \in Nat /\ ticks \in Nat
    BY KernelAssumption DEF NoWrap, OnTime
  <2> QED BY <1>2, <2>1 DEF Sleep
<1>5. w = now + ticks /\ w \in Times
  <2>1. now + ticks \in 0 .. TIME_MOD - 1 BY <1>2, <1>4
  <2>2. now + ticks \in Times BY <1>2, <2>1
  <2>3. (now + ticks) % TIME_MOD = now + ticks BY <2>2, BelowModulus
  <2> QED BY <2>2, <2>3
<1>6. /\ EnqueSleeper(c, w) /\ wakeup' = [wakeup EXCEPT ![c] = w]
      /\ g_sys_time' = now
  <2>1. g_free_qnodes >= 2 BY <1>1, InvFacts, NodesLeft
  <2> QED BY <2>1 DEF Sleep
<1> HIDE DEF w, half
<1>7. PICK n \in NotAfter(w) :
        g_sleeping' = SubSeq(g_sleeping, 1, n) \o <<c>>
                        \o SubSeq(g_sleeping, n + 1, Len(g_sleeping))
  BY <1>6 DEF EnqueSleeper
<1>8. /\ n \in 0 .. Len(g_sleeping)
      /\ \A i \in 1 .. n : cmp_wakeup(wakeup[g_sleeping[i]], w) <= 0
      /\ n < Len(g_sleeping) => cmp_wakeup(wakeup[g_sleeping[n + 1]], w) > 0
  BY DEF NotAfter
<1>9. \A i \in 1 .. Len(g_sleeping) :
        /\ now < wakeup[g_sleeping[i]] /\ wakeup[g_sleeping[i]] < now + half
        /\ wakeup'[g_sleeping[i]] = wakeup[g_sleeping[i]]
  <2>1. ASSUME NEW i \in 1 .. Len(g_sleeping) PROVE g_sleeping[i] # c
    BY <1>3 DEF Holds
  <2> QED BY <1>2, <1>6, <2>1 DEF OnTime, Later, half
<1>10. wakeup' \in [Pcbs -> Int] /\ wakeup'[c] = w
  BY <1>2, <1>3, <1>5, <1>6
<1>11. ASSUME NEW i \in 1 .. Len(g_sleeping)
       PROVE  cmp_wakeup(wakeup[g_sleeping[i]], w) = wakeup[g_sleeping[i]] - w
  <2> DEFINE a == wakeup[g_sleeping[i]]
  <2>1. a \in Times /\ now < a /\ a < now + half BY <1>2, <1>9
  <2> HIDE DEF a
  <2>2. a - w < half /\ w - a < half BY <1>2, <1>4, <1>5, <2>1
  <2>3. cmp_wakeup(a, w) = a - w BY <1>5, <2>1, <2>2, NearTimes DEF half
  <2> QED BY <2>3 DEF a
<1>12. /\ \A i \in 1 .. n : wakeup'[g_sleeping[i]] <= wakeup'[c]
       /\ n < Len(g_sleeping) => wakeup'[g_sleeping[n + 1]] > wakeup'[c]
  <2>1. ASSUME NEW i \in 1 .. Len(g_sleeping)
        PROVE  /\ cmp_wakeup(wakeup[g_sleeping[i]], w) <= 0
                     => wakeup'[g_sleeping[i]] <= wakeup'[c]
               /\ cmp_wakeup(wakeup[g_sleeping[i]], w) > 0
                     => wakeup'[g_sleeping[i]] > wakeup'[c]
    BY <1>2, <1>5, <1>9, <1>10, <1>11
  <2>2. /\ \A i \in 1 .. n : i \in 1 .. Len(g_sleeping)
        /\ n < Len(g_sleeping) => n + 1 \in 1 .. Len(g_sleeping)
    BY <1>2, <1>8
  <2> QED BY <1>8, <2>1, <2>2
<1>13. InOrder(g_sleeping, wakeup')
  BY <1>9 DEF OnTime, InOrder
<1>14. /\ InOrder(g_sleeping', wakeup')
       /\ \A i \in 1 .. Len(g_sleeping') :
            \/ g_sleeping'[i] = c
            \/ \E j \in 1 .. Len(g_sleeping) : g_sleeping'[i] = g_sleeping[j]
  <2> DEFINE v == wakeup'
             s == g_sleeping
             t == SubSeq(s, 1, n) \o <<c>> \o SubSeq(s, n + 1, Len(s))
  <2>1. /\ s \in Seq(Pcbs) /\ v \in [Pcbs -> Int] /\ c \in Pcbs
        /\ n \in 0 .. Len(s) /\ InOrder(s, v)
        /\ \A i \in 1 .. n : v[s[i]] <= v[c]
        /\ n < Len(s) => v[s[n + 1]] > v[c]
    BY <1>2, <1>3, <1>8, <1>10, <1>12, <1>13
  <2>2. g_sleeping' = t BY <1>7
  <2> HIDE DEF v, s, c
  <2>3. /\ InOrder(t, v)
        /\ \A i \in 1 .. Len(t) :
             t[i] = c \/ \E j \in 1 .. Len(s) : t[i] = s[j]
    BY <2>1, InsertInOrder
  <2> HIDE DEF t
  <2>4. /\ InOrder(g_sleeping', v)
        /\ \A i \in 1 .. Len(g_sleeping') :
             g_sleeping'[i] = c \/ \E j \in 1 .. Len(s) : g_sleeping'[i] = s[j]
    BY <2>2, <2>3
  <2> QED BY <2>4 DEF v, s
<1>15. Later(g_sleeping', wakeup', g_sys_time')
  <2>1. now < w /\ w < now + half BY <1>2, <1>4, <1>5
  <2> QED BY <1>6, <1>9, <1>10, <1>14, <2>1 DEF Later, half
<1>16. \A p : Holds(g_sleeping, p) => Holds(g_sleeping', p)
  <2>1. /\ Matches(g_sleeping, state, ST_SLEEPING)
        /\ state[c] # ST_SLEEPING /\ state \in [Pcbs -> States]
    BY <1>1, <1>2, <1>3, InvFacts DEF Queues
  <2>2. Matches(g_sleeping', [state EXCEPT ![c] = ST_SLEEPING], ST_SLEEPING)
    BY <1>3, <1>7, <1>8, <2>1, InsertMatches DEF States
  <2>3. ASSUME NEW p, Holds(g_sleeping, p) PROVE Holds(g_sleeping', p)
    <3>1. p \in Pcbs BY <1>2, <2>3 DEF Holds
    <3> QED BY <2>1, <2>2, <2>3, <3>1 DEF Matches
  <2> QED BY <2>3
<1> QED BY <1>6, <1>14, <1>15, <1>16 DEF OnTime

\* The clock wakes exactly those whose time has come.
LEMMA TickOnTime ==
  ASSUME NoWrap, IInv, OnTime, ClockTick
  PROVE  /\ OnTime'
         /\ \A p \in Pcbs : state[p] = ST_SLEEPING =>
              (Holds(g_sleeping', p) <=> wakeup[p] > g_sys_time')
<1> DEFINE now == g_sys_time
           s == g_sleeping
           L == Len(g_sleeping)
           half == TIME_MOD \div 2
<1>1. Running BY DEF ClockTick
<1>2. /\ s \in Seq(Pcbs) /\ Distinct(s) /\ L \in Nat
      /\ \A i \in 1 .. L : s[i] \in Pcbs /\ wakeup[s[i]] \in Times
      /\ \A p \in Pcbs : Holds(s, p) <=> state[p] = ST_SLEEPING
      /\ wakeup \in [Pcbs -> Times] /\ now \in Times
      /\ Times = 0 .. TIME_MOD - 1 /\ TIME_MOD \in Nat \ {0} /\ half \in Nat
  BY <1>1, SleeperFacts
<1>3. g_sys_time' = now + 1 /\ g_sys_time' <= MAX_TIME /\ g_sys_time' \in Nat
  <2>1. /\ g_sys_time' = (now + 1) % TIME_MOD /\ now < MAX_TIME
        /\ MAX_TIME < TIME_MOD /\ MAX_TIME \in Nat
    BY KernelAssumption DEF ClockTick, NoWrap
  <2>2. now + 1 \in 0 .. TIME_MOD - 1 BY <1>2, <2>1
  <2>3. (now + 1) % TIME_MOD = now + 1 BY <1>2, <2>2
  <2> QED BY <1>2, <2>1, <2>3
<1>4. PICK n \in DuePrefix(g_sys_time') :
        LET woken == {g_sleeping[i] : i \in 1 .. n}
        IN  /\ g_sleeping' = SubSeq(g_sleeping, n + 1, Len(g_sleeping))
            /\ wakeup' = [p \in Pcbs |-> IF p \in woken THEN 0 ELSE wakeup[p]]
  BY DEF ClockTick
<1>5. /\ n \in 0 .. L
      /\ \A i \in 1 .. n : wakeup[s[i]] <= g_sys_time'
      /\ n < L => ~(wakeup[s[n + 1]] <= g_sys_time')
  BY DEF DuePrefix, Due
<1>6. \A i, j \in 1 .. L : i < j => wakeup[s[i]] <= wakeup[s[j]]
  BY DEF OnTime, InOrder
<1>7. ASSUME NEW i \in 1 .. L, i > n PROVE wakeup[s[i]] > g_sys_time'
  <2>1. n + 1 \in 1 .. L /\ wakeup[s[n + 1]] > g_sys_time'
    <3>1. n + 1 \in 1 .. L BY <1>2, <1>5, <1>7
    <3>2. wakeup[s[n + 1]] \in Int BY <1>2, <3>1
    <3> QED BY <1>2, <1>3, <1>5, <3>1, <3>2
  <2>2. CASE i = n + 1 BY <2>1, <2>2
  <2>3. CASE i # n + 1
    <3>1. n + 1 < i BY <1>5, <1>7, <2>3
    <3>2. wakeup[s[n + 1]] <= wakeup[s[i]] BY <1>6, <2>1, <3>1
    <3>3. wakeup[s[n + 1]] \in Int /\ wakeup[s[i]] \in Int BY <1>2, <2>1
    <3> QED BY <1>3, <2>1, <3>2, <3>3
  <2> QED BY <2>2, <2>3
<1> DEFINE t == SubSeq(s, n + 1, L)
           woken == {s[i] : i \in 1 .. n}
<1>8. g_sleeping' = t
      /\ wakeup' = [p \in Pcbs |-> IF p \in woken THEN 0 ELSE wakeup[p]]
  BY <1>4
<1>9. /\ Len(t) = L - n /\ \A i \in 1 .. L - n : t[i] = s[n + i]
      /\ \A i \in 1 .. L - n : n + i \in 1 .. L /\ n + i > n
  BY <1>2, <1>5
<1> HIDE DEF t
<1>10. ASSUME NEW i \in 1 .. L, i > n PROVE wakeup'[s[i]] = wakeup[s[i]]
  <2>1. s[i] \notin woken
    <3>1. ASSUME NEW j \in 1 .. n PROVE s[j] # s[i]
      <4>1. j \in 1 .. L /\ j # i BY <1>2, <1>5, <1>10
      <4> QED BY <1>2, <4>1 DEF Distinct
    <3> QED BY <3>1
  <2> HIDE DEF woken
  <2> QED BY <1>2, <1>8, <2>1
<1> HIDE DEF woken
<1>11. InOrder(t, wakeup')
  <2>1. ASSUME NEW i \in 1 .. Len(t), NEW j \in 1 .. Len(t), i < j
        PROVE  wakeup'[t[i]] <= wakeup'[t[j]]
    <3>1. /\ n + i \in 1 .. L /\ n + i > n /\ t[i] = s[n + i]
          /\ n + j \in 1 .. L /\ n + j > n /\ t[j] = s[n + j]
      BY <1>9
    <3>2. n + i < n + j BY <1>5, <1>9, <2>1
    <3> QED BY <1>6, <1>10, <3>1, <3>2
  <2> QED BY <2>1 DEF InOrder
<1>12. Later(t, wakeup', g_sys_time')
  <2>1. ASSUME NEW i \in 1 .. Len(t)
        PROVE  /\ g_sys_time' < wakeup'[t[i]]
               /\ wakeup'[t[i]] < g_sys_time' + half
    <3>1. n + i \in 1 .. L /\ n + i > n /\ t[i] = s[n + i] BY <1>9
    <3>2. wakeup[t[i]] < now + half BY <3>1 DEF OnTime, Later
    <3>3. wakeup[t[i]] \in Int BY <1>2, <3>1
    <3>4. wakeup'[t[i]] = wakeup[t[i]] /\ wakeup[t[i]] > g_sys_time'
      BY <1>7, <1>10, <3>1
    <3> QED BY <1>2, <1>3, <3>2, <3>3, <3>4
  <2> QED BY <2>1 DEF Later
<1>13. ASSUME NEW p \in Pcbs, state[p] = ST_SLEEPING
       PROVE  Holds(t, p) <=> wakeup[p] > g_sys_time'
  <2>1. PICK i \in 1 .. L : s[i] = p BY <1>2, <1>13 DEF Holds
  <2>2. CASE i > n
    <3>1. i - n \in 1 .. L - n /\ n + (i - n) = i BY <1>2, <1>5, <2>2
    <3>2. t[i - n] = p BY <1>9, <2>1, <3>1
    <3>3. Holds(t, p) BY <1>9, <3>1, <3>2 DEF Holds
    <3> QED BY <1>7, <2>1, <2>2, <3>3
  <2>3. CASE ~(i > n)
    <3>1. i \in 1 .. n BY <1>5, <2>3
    <3>2. wakeup[p] <= g_sys_time' /\ wakeup[p] \in Int
      BY <1>2, <1>5, <2>1, <3>1
    <3>3. ~Holds(t, p)
      <4>1. ASSUME NEW j \in 1 .. Len(t), t[j] = p PROVE FALSE
        <5>1. n + j \in 1 .. L /\ n + j > n /\ s[n + j] = p
          BY <1>9, <4>1
        <5>2. n + j = i BY <1>2, <2>1, <5>1 DEF Distinct
        <5> QED BY <2>3, <5>1, <5>2
      <4> QED BY <4>1 DEF Holds
    <3> QED BY <1>3, <3>2, <3>3
  <2> QED BY <2>2, <2>3
<1> QED BY <1>3, <1>8, <1>11, <1>12, <1>13 DEF OnTime

\* Every other step leaves the sleepers and the clock alone.
LEMMA OthersOnTime ==
  ASSUME IInv, Next, ~ClockTick, ~(\E ticks \in SleepTicks : Sleep(ticks))
  PROVE  /\ g_sleeping' = g_sleeping /\ g_sys_time' = g_sys_time
         /\ \A p \in Pcbs : Holds(g_sleeping, p) => wakeup'[p] = wakeup[p]
<1>1. CASE Fork
  <2>1. Running BY <1>1 DEF Fork, MayCall
  <2> DEFINE child == Head(g_free_pcbs)
  <2>2. /\ child \in Pcbs /\ state[child] = ST_FREE
        /\ wakeup' = [wakeup EXCEPT ![child] = wakeup[g_current]]
        /\ UNCHANGED <<g_sleeping, g_sys_time>>
    BY <1>1, ForkFacts
  <2> HIDE DEF child
  <2> QED BY <2>1, <2>2, SleeperFacts
<1>2. CASE ~Fork
  <2>1. g_sleeping' = g_sleeping /\ g_sys_time' = g_sys_time /\ wakeup' = wakeup
    BY <1>2 DEF Next, Interrupt, RxInterrupt, SysCall, ExitUser, ExitKernel,
                ExitPanics, ReadChar, ReadBlocks, Yield, ForkPanics, Exec,
                ExecPanics, Hotswap, StopWith, pcbs, queues
  <2> QED BY <2>1
<1> QED BY <1>1, <1>2

\* The sleepers stay on time, whatever the step.
LEMMA OnTimeNext ==
  ASSUME NoWrap, IInv, OnTime, [Next]_vars PROVE OnTime'
<1>1. CASE ClockTick BY <1>1, TickOnTime
<1>2. ASSUME NEW ticks \in SleepTicks, Sleep(ticks) PROVE OnTime'
  BY <1>2, SleepOnTime
<1>3. CASE UNCHANGED vars
  BY <1>3 DEF vars, OnTime, InOrder, Later
<1>4. CASE Next /\ ~ClockTick /\ ~(\E ticks \in SleepTicks : Sleep(ticks))
  <2>1. /\ g_sleeping' = g_sleeping /\ g_sys_time' = g_sys_time
        /\ \A p \in Pcbs : Holds(g_sleeping, p) => wakeup'[p] = wakeup[p]
    BY <1>4, OthersOnTime
  <2>2. \A i \in 1 .. Len(g_sleeping) :
          wakeup'[g_sleeping[i]] = wakeup[g_sleeping[i]]
    <3>1. g_sleeping \in Seq(Pcbs) BY DEF IInv, TypeOK
    <3>2. \A i \in 1 .. Len(g_sleeping) :
            g_sleeping[i] \in Pcbs /\ Holds(g_sleeping, g_sleeping[i])
      BY <3>1, ElementOfSeq DEF Holds
    <3> QED BY <2>1, <3>2
  <2> QED BY <2>1, <2>2 DEF OnTime, InOrder, Later
<1> QED BY <1>1, <1>2, <1>3, <1>4

\* Until system time wraps around, a process leaves the sleep queue on the
\* tick its time has come and on no other.
THEOREM SleepersWakeOnTime == NoWrap => (Spec => WakesOnTime)
<1> SUFFICES ASSUME NoWrap PROVE Spec => WakesOnTime
  OBVIOUS
<1>1. Spec => []OnTime
  <2>1. Init => OnTime BY OnTimeInit
  <2>2. IInv /\ OnTime /\ [Next]_vars => OnTime' BY OnTimeNext
  <2> QED BY <2>1, <2>2, Invariance, PTL DEF Spec
<1>2. ASSUME IInv, IInv', OnTime, Next, NEW p \in Pcbs, state[p] = ST_SLEEPING
      PROVE  state'[p] # ST_SLEEPING <=> wakeup[p] <= g_sys_time'
  <2>1. CASE Stopped
    <3>1. Running
      BY <1>2 DEF Next, Interrupt, ClockTick, RxInterrupt, SysCall, ExitUser,
             ExitKernel, ExitPanics, ReadChar, ReadBlocks, Yield, Sleep, Fork,
             ForkPanics, Exec, ExecPanics, Hotswap, UserCall, MayCall
    <3>2. PICK i \in 1 .. Len(g_sleeping) : g_sleeping[i] = p
      BY <1>2, <3>1, SleeperFacts DEF Holds
    <3>3. g_sys_time < wakeup[p] /\ wakeup[p] \in Int /\ g_sys_time \in Int
      BY <1>2, <3>1, <3>2, SleeperFacts DEF OnTime, Later
    <3>4. state' = state /\ g_sys_time' = g_sys_time BY <2>1 DEF Stopped
    <3> QED BY <1>2, <3>3, <3>4
  <2>2. CASE Handled
    <3>1. Running
      BY <1>2 DEF Next, Interrupt, ClockTick, RxInterrupt, SysCall, ExitUser,
             ExitKernel, ExitPanics, ReadChar, ReadBlocks, Yield, Sleep, Fork,
             ForkPanics, Exec, ExecPanics, Hotswap, UserCall, MayCall
    <3>2. state'[p] = ST_SLEEPING <=> Holds(g_sleeping', p)
      BY <1>2, <2>2 DEF Handled, IInv, OneQueuePerPcb, Running
    <3>3. Holds(g_sleeping, p) /\ wakeup[p] \in Int /\ g_sys_time \in Int
      BY <1>2, <3>1, SleeperFacts
    <3>4. g_sys_time < wakeup[p]
      BY <1>2, <3>3 DEF OnTime, Later, Holds
    <3>5. CASE ClockTick
      <4>1. Holds(g_sleeping', p) <=> wakeup[p] > g_sys_time'
        BY <1>2, <3>5, TickOnTime
      <4>2. g_sys_time' \in Int BY <1>2 DEF IInv, TypeOK, Times
      <4> QED BY <3>2, <3>3, <4>1, <4>2
    <3>6. CASE ~ClockTick
      <4>1. Holds(g_sleeping', p) /\ g_sys_time' = g_sys_time
        BY <1>2, <3>3, <3>6, SleepOnTime, OthersOnTime
      <4> QED BY <3>2, <3>3, <3>4, <4>1
    <3> QED BY <3>5, <3>6
  <2> QED BY <1>2, <2>1, <2>2, NextHandles
<1>3. IInv /\ IInv' /\ OnTime /\ [Next]_vars =>
        [\A p \in Pcbs : state[p] = ST_SLEEPING =>
           (state'[p] # ST_SLEEPING <=> wakeup[p] <= g_sys_time')]_vars
  BY <1>2
<1> QED BY <1>1, <1>3, Invariance, PTL DEF Spec, WakesOnTime
=============================================================================
