------------------------- MODULE AddressSpaceProofs -------------------------
(***************************************************************************)
(* Proofs of the invariants of AddressSpace.  Its steps are steps of       *)
(* Kernel, so the invariants of Kernel hold of it once it is shown that    *)
(* fork never fails to find a slot.                                        *)
(***************************************************************************)
EXTENDS AddressSpace, KernelProofs

USE DEF GDT_RESERVED, First, Idle, ST_FREE, ST_READY, ST_RUNNING, ST_WAITING,
        ST_SLEEPING, PRI_NORMAL, PRI_MINIMUM

SInv == SpacesTypeOK /\ EachRunsInItsSegment /\ SlotsConserved /\ NoSlotPanic

LEMMA PcbsFinite ==
  /\ IsFiniteSet(Pcbs) /\ Cardinality(Pcbs) = N_PROCESSES
  /\ First \in Pcbs /\ Idle \in Pcbs
  /\ IsFiniteSet(Users) /\ Users \subseteq Live /\ Live \subseteq Pcbs
<1>1. IsFiniteSet(Pcbs) /\ Cardinality(Pcbs) = N_PROCESSES
  BY KernelAssumption, FS_Interval DEF Pcbs
<1>2. First \in Pcbs /\ Idle \in Pcbs
  BY KernelAssumption DEF Pcbs
<1>3. Users \subseteq Live /\ Live \subseteq Pcbs
  BY DEF Users, Live
<1> QED BY <1>1, <1>2, <1>3, FS_Subset

\* The state in which the first process starts.
LEMMA AInitInv == AInit => IInv /\ SInv
<1> SUFFICES ASSUME AInit PROVE IInv /\ SInv
  OBVIOUS
<1>0. IInv
  BY InitInv DEF AInit
<1> DEFINE n == GDT_MAX - 11
<1>1. /\ N_PROCESSES \in Nat /\ N_PROCESSES >= 2 /\ GDT_MAX \in Nat
      /\ GDT_MAX >= 10 + N_PROCESSES /\ n \in Nat /\ N_SEGMENTS \in Nat
  BY KernelAssumption, SlotAssumption
<1>2. /\ \A p \in Pcbs : seg[p] = 0
      /\ Live = {First, Idle} /\ Users = {}
  <2>1. \A p \in Pcbs : seg[p] = 0
    BY DEF AInit, Init
  <2>2. state = [p \in Pcbs |-> CASE p = First -> ST_RUNNING
                                  [] p = Idle  -> ST_READY
                                  [] OTHER     -> ST_FREE]
    BY DEF AInit, Init
  <2>3. Live = {First, Idle}
    BY <2>2, PcbsFinite DEF Live
  <2> QED BY <2>1, <2>3, PcbsFinite DEF Users
<1>3. /\ ldtr[First] = 9 /\ ldtr[Idle] = 10
      /\ ldtr \in [Pcbs -> Slots]
  BY <1>1, PcbsFinite DEF AInit, Slots
<1>4. /\ gdt \in [Slots -> 0 .. NoPcb]
      /\ gdt[9] = First /\ gdt[10] = Idle
  <2>1. 9 \in Slots /\ 10 \in Slots
    BY <1>1 DEF Slots
  <2>2. gdt = [s \in Slots |-> CASE s = 8 -> First [] s = 9 -> First
                                 [] s = 10 -> Idle [] OTHER -> NoPcb]
    BY DEF AInit
  <2>3. NoPcb \in 0 .. NoPcb /\ First \in 0 .. NoPcb /\ Idle \in 0 .. NoPcb
    BY <1>1 DEF NoPcb
  <2> QED BY <2>1, <2>2, <2>3
<1>5. g_gdtpool = [i \in 1 .. n |-> 10 + i]
  <2>1. GDT_MAX - 7 - 4 = n /\ \A i \in 1 .. n : 7 + 3 + i = 10 + i
    BY <1>1
  <2>2. g_gdtpool = [i \in 1 .. GDT_MAX - 7 - 4 |-> 7 + 3 + i]
    BY DEF AInit
  <2> QED BY <2>1, <2>2
<1> HIDE DEF n
<1>6. /\ g_gdtpool \in Seq(Slots) /\ Len(g_gdtpool) = n
      /\ \A i \in 1 .. n : g_gdtpool[i] = 10 + i
  <2>1. \A i \in 1 .. n : 10 + i \in Slots
    BY <1>1 DEF Slots, n
  <2>2. g_gdtpool \in [1 .. n -> Slots]
    BY <1>5, <2>1
  <2>3. g_gdtpool \in Seq(Slots)
    BY <1>1, <2>2
  <2> QED BY <1>1, <1>5, <2>3
<1>7. /\ Distinct(g_gdtpool)
      /\ \A p \in Live : ~Holds(g_gdtpool, ldtr[p])
  BY <1>1, <1>2, <1>3, <1>6 DEF Distinct, Holds
<1>8. /\ ldt \in [Pcbs -> 0 .. N_SEGMENTS]
      /\ \A p \in Pcbs : ldt[p] = 0
      /\ image \in [0 .. N_SEGMENTS -> Values]
  BY <1>1 DEF AInit
<1>9. SpacesTypeOK
  BY <1>3, <1>4, <1>6, <1>8 DEF SpacesTypeOK
<1>10. EachRunsInItsSegment
  BY <1>2, <1>3, <1>4, <1>8, PcbsFinite DEF EachRunsInItsSegment
<1>11. SlotsConserved
  BY <1>1, <1>2, <1>3, <1>6, <1>7, FS_EmptySet DEF SlotsConserved, n
<1> QED BY <1>0, <1>9, <1>10, <1>11 DEF SInv, NoSlotPanic, AInit, Init

-----------------------------------------------------------------------------
(* The steps *)

\* When a PCB is free there is a slot for it: the current process and the
\* idle one leave at most N_PROCESSES - 2 users.
LEMMA SlotLeft ==
  ASSUME IInv, SInv, Running, g_free_pcbs # <<>>
  PROVE  g_gdtpool # <<>>
<1> DEFINE child == Head(g_free_pcbs)
<1>1. /\ child \in Pcbs /\ state[child] = ST_FREE
      /\ seg[Idle] = 0 /\ state[Idle] # ST_FREE
  <2>1. g_free_pcbs \in Seq(Pcbs) /\ Distinct(g_free_pcbs)
    BY InvFacts DEF Queues, Matches
  <2>2. child \in Pcbs /\ Holds(g_free_pcbs, child)
    BY <2>1, TailHolds
  <2> QED BY <2>2, FreePcbs DEF IInv, KernelProcesses
<1> HIDE DEF child
<1>2. /\ IsFiniteSet((Pcbs \ {child}) \ {Idle})
      /\ Cardinality((Pcbs \ {child}) \ {Idle}) = N_PROCESSES - 2
  <2>1. /\ IsFiniteSet(Pcbs \ {child})
        /\ Cardinality(Pcbs \ {child}) = N_PROCESSES - 1
    BY <1>1, PcbsFinite, FS_RemoveElement
  <2>2. Idle \in Pcbs \ {child}
    BY <1>1, PcbsFinite
  <2>3. /\ IsFiniteSet((Pcbs \ {child}) \ {Idle})
        /\ Cardinality((Pcbs \ {child}) \ {Idle}) = N_PROCESSES - 1 - 1
    BY <2>1, <2>2, FS_RemoveElement
  <2> QED BY <2>3, KernelAssumption
<1>3. Users \subseteq (Pcbs \ {child}) \ {Idle}
  BY <1>1 DEF Users, Live
<1>4. Cardinality(Users) <= N_PROCESSES - 2 /\ Cardinality(Users) \in Nat
  BY <1>2, <1>3, PcbsFinite, FS_Subset, FS_CardinalityType
<1>5. Len(g_gdtpool) = GDT_MAX - 11 - Cardinality(Users)
      /\ g_gdtpool \in Seq(Slots)
  <2>1. /\ Len(g_gdtpool) + Cardinality(Users) = GDT_MAX - 11
        /\ g_gdtpool \in Seq(Slots)
    BY SlotAssumption DEF SInv, SlotsConserved, SpacesTypeOK
  <2> QED BY <1>4, <2>1, SlotAssumption
<1>6. Len(g_gdtpool) # 0
  BY <1>4, <1>5, SlotAssumption, KernelAssumption
<1> QED BY <1>6

\* So every step is one of Kernel, or a store.
LEMMA KernelSteps ==
  IInv /\ SInv /\ [ANext]_allvars => [Next]_vars
<1> SUFFICES ASSUME IInv, SInv, [ANext]_allvars PROVE [Next]_vars
  OBVIOUS
<1>1. CASE \E v \in Values : Store(v)
  BY <1>1 DEF Store
<1>2. CASE AFork
  BY <1>2, SlotLeft DEF AFork, MayCall, Next, SysCall
<1>3. CASE SysExec \/ SysExecve
  BY <1>3 DEF SysExec, SysExecve, AExec, Next, SysCall
<1>4. CASE AExitUser
  BY <1>4 DEF AExitUser, Next, SysCall
<1>5. CASE OtherStep
  BY <1>5 DEF OtherStep, Next, SysCall, Interrupt
<1>6. CASE UNCHANGED allvars
  BY <1>6 DEF allvars
<1> QED BY <1>1, <1>2, <1>3, <1>4, <1>5, <1>6 DEF ANext

\* A step that leaves PCBs, segments and slots alone.
LEMMA SpacesStill ==
  ASSUME IInv, IInv', SInv, Running,
         UNCHANGED <<seg, ldt, ldtr, gdt, g_gdtpool>>,
         image' \in [0 .. N_SEGMENTS -> Values], NoSlotPanic',
         Running' => UNCHANGED g_free_pcbs
  PROVE  SInv'
<1>1. SpacesTypeOK'
  BY DEF SInv, SpacesTypeOK
<1>2. CASE Running'
  <2>1. Live' = Live
    BY <1>2, FreePcbs DEF Live
  <2>2. Users' = Users
    BY <2>1 DEF Users
  <2> QED BY <1>1, <1>2, <2>1, <2>2
          DEF SInv, EachRunsInItsSegment, SlotsConserved
<1>3. CASE ~Running'
  BY <1>1, <1>3 DEF SInv, EachRunsInItsSegment, SlotsConserved
<1> QED BY <1>2, <1>3

\* What fork and exit do to the set of live processes.
LEMMA ForkLive ==
  ASSUME IInv, IInv', Fork, NEW child, child = Head(g_free_pcbs)
  PROVE  /\ Running /\ kstat' = kstat /\ g_free_pcbs # <<>>
         /\ child \in Pcbs /\ child \notin Live /\ Live' = Live \cup {child}
<1>1. Running /\ g_free_pcbs # <<>> /\ g_free_pcbs' = Tail(g_free_pcbs)
  BY DEF Fork, MayCall
<1>2. kstat' = kstat
  <2>1. kstat' \in {kstat, "panic_queue", "panic_dispatch"}
    BY DEF Fork, Dispatch, TakeFrom, QueuePanic, Panic
  <2> QED BY <2>1 DEF IInv, NoQueuePanic
<1>3. /\ child \in Pcbs /\ Holds(g_free_pcbs, child)
      /\ \A q : Holds(g_free_pcbs', q) <=> Holds(g_free_pcbs, q) /\ q # child
  <2>1. g_free_pcbs \in Seq(Pcbs) /\ Distinct(g_free_pcbs)
    BY <1>1, InvFacts DEF Queues, Matches
  <2> QED BY <1>1, <2>1, TailHolds
<1>4. child \notin Live /\ Live' = Live \cup {child}
  BY <1>1, <1>2, <1>3, FreePcbs DEF Live, Running
<1> QED BY <1>1, <1>2, <1>3, <1>4

LEMMA ExitLive ==
  ASSUME IInv, IInv', ExitUser \/ ExitKernel
  PROVE  /\ Running /\ kstat' = kstat /\ seg' = seg
         /\ g_current \in Live /\ Live' = Live \ {g_current}
<1>1. Running /\ seg' = seg
  BY DEF ExitUser, ExitKernel, UserCall, MayCall
<1>2. kstat' = kstat
  <2>1. kstat' \in {kstat, "panic_dispatch"}
    BY DEF ExitUser, ExitKernel, Dispatch, TakeFrom, Panic
  <2> QED BY <2>1 DEF IInv, NoQueuePanic
<1>3. g_current \in Pcbs /\ state[g_current] # ST_FREE
  BY <1>1, InvFacts
<1>4. g_free_pcbs' = Append(g_free_pcbs, g_current)
  <2>1. g_free_qnodes >= 2 /\ g_free_qnodes \in Nat
    BY <1>1, InvFacts, NodesLeft
  <2> QED BY <2>1 DEF ExitUser, ExitKernel, Enque, Left
<1>5. \A q \in Pcbs : state'[q] = ST_FREE <=> state[q] = ST_FREE \/ q = g_current
  <2>1. g_free_pcbs \in Seq(Pcbs)
    BY <1>1, InvFacts DEF Queues, Matches
  <2>2. \A q : Holds(g_free_pcbs', q) <=> Holds(g_free_pcbs, q) \/ q = g_current
    BY <1>3, <1>4, <2>1, AppendHolds
  <2> QED BY <1>1, <1>2, <2>2, FreePcbs DEF Running
<1> QED BY <1>1, <1>2, <1>3, <1>5 DEF Live

\* fork gives a PCB that was free a slot that was free.
LEMMA ForkSpaces ==
  ASSUME IInv, IInv', SInv, Fork, ForkSpace(Head(g_free_pcbs))
  PROVE  SInv'
<1> DEFINE child == Head(g_free_pcbs)
           slot == Head(g_gdtpool)
<1>1. Running /\ kstat' = kstat
  BY ForkLive
<1>2. /\ g_free_pcbs # <<>> /\ child \in Pcbs
      /\ child \notin Live /\ Live' = Live \cup {child}
  BY ForkLive
<1>3. g_gdtpool \in Seq(Slots) /\ g_gdtpool # <<>> /\ Distinct(g_gdtpool)
  BY <1>1, <1>2, SlotLeft DEF SInv, SpacesTypeOK, SlotsConserved
<1>4. /\ slot \in Slots /\ Holds(g_gdtpool, slot)
      /\ Tail(g_gdtpool) \in Seq(Slots) /\ Distinct(Tail(g_gdtpool))
      /\ \A t : Holds(Tail(g_gdtpool), t) <=> Holds(g_gdtpool, t) /\ t # slot
      /\ Len(g_gdtpool) \in Nat /\ Len(Tail(g_gdtpool)) = Len(g_gdtpool) - 1
  BY <1>3, TailHolds, HeadTailProperties
<1>5. PICK s \in g_freemem : seg' = [seg EXCEPT ![child] = s]
  BY DEF Fork
<1>6. s \in Segments /\ s # 0 /\ seg \in [Pcbs -> 0 .. N_SEGMENTS]
  BY <1>1, <1>5, KernelAssumption DEF IInv, TypeOK, Segments
<1>7. /\ ldtr' = [ldtr EXCEPT ![child] = slot]
      /\ ldt' = [ldt EXCEPT ![child] = s]
      /\ gdt' = [gdt EXCEPT ![slot] = child]
      /\ g_gdtpool' = Tail(g_gdtpool)
      /\ image' = [image EXCEPT ![s] = image[seg[g_current]]]
  BY <1>2, <1>5, <1>6 DEF ForkSpace, SetUpLdt
<1> HIDE DEF child, slot
<1>8. /\ ldt \in [Pcbs -> 0 .. N_SEGMENTS] /\ ldtr \in [Pcbs -> Slots]
      /\ gdt \in [Slots -> 0 .. NoPcb] /\ image \in [0 .. N_SEGMENTS -> Values]
      /\ seg[g_current] \in 0 .. N_SEGMENTS
  BY <1>1, <1>6, InvFacts DEF SInv, SpacesTypeOK
<1>9. SpacesTypeOK'
  <2>1. child \in 0 .. NoPcb /\ s \in 0 .. N_SEGMENTS
    BY <1>2, <1>6, KernelAssumption DEF Pcbs, NoPcb, Segments
  <2> QED BY <1>4, <1>7, <1>8, <2>1 DEF SpacesTypeOK
<1>10. /\ \A p, q \in Live : ldtr[p] = ldtr[q] => p = q
       /\ \A p \in Live : gdt[ldtr[p]] = p /\ ldt[p] = seg[p]
       /\ \A p \in Live : ldtr[p] # slot /\ ~Holds(g_gdtpool, ldtr[p])
       /\ Len(g_gdtpool) + Cardinality(Users) = GDT_MAX - 7 - 4
  BY <1>1, <1>4 DEF SInv, EachRunsInItsSegment, SlotsConserved
<1>11. /\ ldtr'[child] = slot /\ ldt'[child] = s /\ seg'[child] = s
       /\ gdt'[slot] = child
  BY <1>2, <1>4, <1>5, <1>6, <1>7, <1>8
<1>12. ASSUME NEW p \in Live
       PROVE  /\ ldtr'[p] = ldtr[p] /\ ldt'[p] = ldt[p]
              /\ seg'[p] = seg[p] /\ gdt'[ldtr[p]] = gdt[ldtr[p]]
  <2>1. p \in Pcbs /\ p # child /\ ldtr[p] # slot
    BY <1>2, <1>10, PcbsFinite
  <2>2. ldtr[p] \in Slots
    BY <1>8, <2>1
  <2> QED BY <1>5, <1>6, <1>7, <1>8, <2>1, <2>2
<1>13. EachRunsInItsSegment'
  BY <1>2, <1>10, <1>11, <1>12 DEF EachRunsInItsSegment
<1>14. SlotsConserved'
  <2>1. \A p, q \in Live' : ldtr'[p] = ldtr'[q] => p = q
    BY <1>2, <1>10, <1>11, <1>12
  <2>2. \A p \in Live' : ~Holds(g_gdtpool', ldtr'[p])
    BY <1>2, <1>4, <1>7, <1>10, <1>11, <1>12
  <2>3. child \notin Users /\ Users' = Users \cup {child}
    BY <1>2, <1>6, <1>11, <1>12 DEF Users
  <2>4. /\ Cardinality(Users') = Cardinality(Users) + 1
        /\ Cardinality(Users) \in Nat
    BY <2>3, PcbsFinite, FS_AddElement, FS_CardinalityType
  <2>5. Len(g_gdtpool') + Cardinality(Users') = GDT_MAX - 7 - 4
    BY <1>4, <1>7, <1>10, <2>4, SlotAssumption
  <2> QED BY <1>4, <1>7, <2>1, <2>2, <2>5 DEF SlotsConserved
<1> QED BY <1>1, <1>9, <1>13, <1>14 DEF SInv, NoSlotPanic

\* exec rewrites the LDT of the caller and keeps its slot.
LEMMA ExecSpaces ==
  ASSUME IInv, IInv', SInv, NEW v \in Values, AExec(v)
  PROVE  SInv'
<1>1. Running /\ Running' /\ seg[g_current] # 0 /\ UNCHANGED <<state, kstat>>
  BY DEF AExec, Exec, UserCall, MayCall, Running
<1>2. PICK s \in g_freemem : seg' = [seg EXCEPT ![g_current] = s]
  BY DEF AExec, Exec
<1>3. /\ s \in 0 .. N_SEGMENTS /\ s # 0 /\ seg \in [Pcbs -> 0 .. N_SEGMENTS]
      /\ g_current \in Pcbs /\ state[g_current] # ST_FREE
  <2>1. s \in Segments /\ seg \in [Pcbs -> 0 .. N_SEGMENTS]
    BY <1>2 DEF IInv, TypeOK
  <2>2. g_current \in Pcbs /\ state[g_current] # ST_FREE
    BY <1>1, InvFacts
  <2> QED BY <2>1, <2>2, KernelAssumption DEF Segments
<1>4. /\ ldt' = [ldt EXCEPT ![g_current] = s]
      /\ gdt' = [gdt EXCEPT ![ldtr[g_current]] = g_current]
      /\ image' = [image EXCEPT ![s] = v]
      /\ UNCHANGED <<ldtr, g_gdtpool>>
  BY <1>2, <1>3 DEF AExec, SetUpLdt
<1>5. /\ ldt \in [Pcbs -> 0 .. N_SEGMENTS] /\ ldtr \in [Pcbs -> Slots]
      /\ gdt \in [Slots -> 0 .. NoPcb] /\ image \in [0 .. N_SEGMENTS -> Values]
      /\ g_gdtpool \in Seq(Slots)
  BY DEF SInv, SpacesTypeOK
<1>6. SpacesTypeOK'
  <2>1. g_current \in 0 .. NoPcb
    BY <1>3, KernelAssumption DEF Pcbs, NoPcb
  <2> QED BY <1>3, <1>4, <1>5, <2>1 DEF SpacesTypeOK
<1>7. Live' = Live /\ g_current \in Live
  BY <1>1, <1>3 DEF Live
<1>8. Users' = Users
  BY <1>1, <1>2, <1>3, <1>7, PcbsFinite DEF Users
<1>9. /\ \A p, q \in Live : ldtr[p] = ldtr[q] => p = q
      /\ \A p \in Live : gdt[ldtr[p]] = p /\ ldt[p] = seg[p]
  BY <1>1 DEF SInv, EachRunsInItsSegment, SlotsConserved
<1>10. EachRunsInItsSegment'
  <2> SUFFICES ASSUME NEW p \in Live PROVE gdt'[ldtr[p]] = p /\ ldt'[p] = seg'[p]
    BY <1>4, <1>7 DEF EachRunsInItsSegment
  <2>1. p \in Pcbs /\ ldtr[p] \in Slots
    BY <1>5, PcbsFinite
  <2>2. CASE p = g_current
    BY <1>2, <1>3, <1>4, <1>5, <2>1, <2>2
  <2>3. CASE p # g_current
    BY <1>2, <1>3, <1>4, <1>5, <1>7, <1>9, <2>1, <2>3
  <2> QED BY <2>2, <2>3
<1>11. SlotsConserved'
  BY <1>1, <1>4, <1>7, <1>8 DEF SInv, SlotsConserved
<1> QED BY <1>1, <1>6, <1>10, <1>11 DEF SInv, NoSlotPanic

\* The process that exits gives up its slot and its PCB together.
LEMMA ExitSpaces ==
  ASSUME IInv, IInv', SInv, AExitUser
  PROVE  SInv'
<1> DEFINE slot == ldtr[g_current]
<1>1. /\ Running /\ kstat' = kstat /\ seg' = seg /\ seg[g_current] # 0
      /\ g_current \in Live /\ Live' = Live \ {g_current}
  <2>1. ExitUser /\ seg[g_current] # 0
    BY DEF AExitUser, ExitUser, UserCall
  <2> QED BY <2>1, ExitLive
<1>2. /\ UNCHANGED <<ldt, ldtr, gdt, image>>
      /\ g_gdtpool' = <<slot>> \o g_gdtpool
  BY DEF AExitUser, FreeSlot
<1>3. slot \in Slots /\ <<slot>> \in Seq(Slots) /\ g_gdtpool \in Seq(Slots)
  BY <1>1, PcbsFinite DEF SInv, SpacesTypeOK
<1>4. /\ \A p, q \in Live : ldtr[p] = ldtr[q] => p = q
      /\ \A p \in Live : ~Holds(g_gdtpool, ldtr[p])
      /\ Distinct(g_gdtpool)
      /\ Len(g_gdtpool) + Cardinality(Users) = GDT_MAX - 7 - 4
      /\ \A p \in Live : gdt[ldtr[p]] = p /\ ldt[p] = seg[p]
  BY <1>1 DEF SInv, SlotsConserved, EachRunsInItsSegment
<1>5. ~Holds(g_gdtpool, slot) /\ \A p \in Live' : ldtr[p] # slot
  BY <1>1, <1>4 DEF slot
<1> HIDE DEF slot
<1>6. /\ Len(<<slot>>) = 1 /\ Distinct(<<slot>>)
      /\ \A t : Holds(<<slot>>, t) <=> t = slot
  BY DEF Distinct, Holds
<1>7. /\ g_gdtpool' \in Seq(Slots) /\ Distinct(g_gdtpool')
      /\ \A t : Holds(g_gdtpool', t) <=> t = slot \/ Holds(g_gdtpool, t)
  BY <1>2, <1>3, <1>4, <1>5, <1>6, ConcatHolds
<1>8. Len(g_gdtpool') = Len(g_gdtpool) + 1 /\ Len(g_gdtpool) \in Nat
  BY <1>2, <1>3, <1>6, ConcatProperties, LenProperties
<1>9. SpacesTypeOK'
  BY <1>2, <1>7 DEF SInv, SpacesTypeOK
<1>10. EachRunsInItsSegment'
  BY <1>1, <1>2, <1>4 DEF EachRunsInItsSegment
<1>11. SlotsConserved'
  <2>1. \A p \in Live' : ~Holds(g_gdtpool', ldtr'[p])
    BY <1>1, <1>2, <1>4, <1>5, <1>7
  <2>2. \A p, q \in Live' : ldtr'[p] = ldtr'[q] => p = q
    BY <1>1, <1>2, <1>4
  <2>3. g_current \in Users /\ Users' = Users \ {g_current}
    BY <1>1 DEF Users
  <2>4. Cardinality(Users') = Cardinality(Users) - 1 /\ Cardinality(Users) \in Nat
    BY <2>3, PcbsFinite, FS_RemoveElement, FS_CardinalityType
  <2>5. Len(g_gdtpool') + Cardinality(Users') = GDT_MAX - 7 - 4
    BY <1>4, <1>8, <2>4, SlotAssumption
  <2> QED BY <1>7, <2>1, <2>2, <2>5 DEF SlotsConserved
<1> QED BY <1>1, <1>9, <1>10, <1>11 DEF SInv, NoSlotPanic

\* The first process leaves its slot behind when it exits.
LEMMA ExitKernelSpaces ==
  ASSUME IInv, IInv', SInv, ExitKernel, UNCHANGED spaces
  PROVE  SInv'
<1>1. /\ Running /\ kstat' = kstat /\ seg' = seg
      /\ g_current \in Live /\ Live' = Live \ {g_current}
  BY ExitLive
<1>2. UNCHANGED <<ldt, ldtr, gdt, g_gdtpool, image>> /\ seg[g_current] = 0
  BY DEF spaces, ExitKernel
<1>3. Users' = Users
  BY <1>1, <1>2 DEF Users
<1>4. SpacesTypeOK'
  BY <1>2 DEF SInv, SpacesTypeOK
<1>5. EachRunsInItsSegment'
  BY <1>1, <1>2 DEF SInv, EachRunsInItsSegment
<1>6. SlotsConserved'
  BY <1>1, <1>2, <1>3 DEF SInv, SlotsConserved
<1> QED BY <1>1, <1>4, <1>5, <1>6 DEF SInv, NoSlotPanic

\* The other steps of Kernel, and what stops it.
LEMMA OtherSpaces ==
  ASSUME IInv, IInv', SInv, OtherStep, UNCHANGED spaces
  PROVE  SInv'
<1>1. Running /\ image' = image /\ UNCHANGED <<ldt, ldtr, gdt, g_gdtpool>>
      /\ image \in [0 .. N_SEGMENTS -> Values]
  BY DEF OtherStep, ClockTick, RxInterrupt, ExitKernel, ReadChar, ReadBlocks,
         Yield, Sleep, ExitPanics, ForkPanics, ExecPanics, Hotswap, UserCall,
         MayCall, spaces, SInv, SpacesTypeOK
<1>2. CASE ClockTick \/ Yield \/ ReadBlocks
           \/ \E ticks \in SleepTicks : Sleep(ticks)
  <2>1. UNCHANGED <<seg, g_free_pcbs>>
    BY <1>2 DEF ClockTick, Yield, ReadBlocks, Sleep
  <2>2. kstat' # "panic_gdt"
    BY <1>1, <1>2 DEF ClockTick, Yield, ReadBlocks, Sleep, TickQuantum,
       Reschedule, Dispatch, TakeFrom, QueuePanic, Panic, Running
  <2> QED BY <1>1, <2>1, <2>2, SpacesStill DEF NoSlotPanic
<1>3. CASE RxInterrupt \/ ReadChar \/ ExitPanics \/ ForkPanics \/ ExecPanics
           \/ Hotswap
  <2>1. UNCHANGED <<seg, g_free_pcbs>> /\ kstat' # "panic_gdt"
    BY <1>1, <1>3 DEF RxInterrupt, ReadChar, ExitPanics, ForkPanics, ExecPanics,
       Hotswap, StopWith, pcbs, queues, Running
  <2> QED BY <1>1, <2>1, SpacesStill DEF NoSlotPanic
<1>4. CASE ExitKernel
  BY <1>4, ExitKernelSpaces
<1> QED BY <1>2, <1>3, <1>4 DEF OtherStep

\* Every step preserves the invariants of both modules.
LEMMA ANextInv == IInv /\ SInv /\ [ANext]_allvars => IInv' /\ SInv'
<1> SUFFICES ASSUME IInv, SInv, [ANext]_allvars PROVE IInv' /\ SInv'
  OBVIOUS
<1>0. IInv'
  BY KernelSteps, NextInv
<1>1. ASSUME NEW v \in Values, Store(v) PROVE SInv'
  <2>1. /\ image' \in [0 .. N_SEGMENTS -> Values] /\ Running
        /\ UNCHANGED <<seg, g_free_pcbs, kstat, ldt, ldtr, gdt, g_gdtpool>>
    BY <1>1 DEF Store, vars, SInv, SpacesTypeOK
  <2> QED BY <1>0, <2>1, SpacesStill DEF NoSlotPanic, Running
<1>2. CASE AFork
  <2>1. Fork /\ ForkSpace(Head(g_free_pcbs))
    BY <1>2, SlotLeft DEF AFork, MayCall
  <2> QED BY <1>0, <2>1, ForkSpaces
<1>3. CASE SysExec \/ SysExecve
  <2>1. CASE SysExec
    <3>1. image[seg[g_current]] \in Values
      <4>1. seg[g_current] \in 0 .. N_SEGMENTS
        BY <2>1, InvFacts DEF SysExec, AExec, Exec, UserCall, MayCall, OtherTypes
      <4> QED BY <4>1 DEF SInv, SpacesTypeOK
    <3> QED BY <1>0, <2>1, <3>1, ExecSpaces DEF SysExec
  <2>2. CASE SysExecve
    BY <1>0, <2>2, ExecSpaces, SlotAssumption DEF SysExecve
  <2> QED BY <1>3, <2>1, <2>2
<1>4. CASE AExitUser
  BY <1>0, <1>4, ExitSpaces
<1>5. CASE OtherStep /\ UNCHANGED spaces
  BY <1>0, <1>5, OtherSpaces
<1>6. CASE UNCHANGED allvars
  <2>1. UNCHANGED <<state, seg, kstat, ldt, ldtr, gdt, g_gdtpool, image>>
    BY <1>6 DEF allvars, vars, spaces
  <2>2. Live' = Live /\ Users' = Users
    BY <2>1 DEF Live, Users
  <2> QED BY <1>0, <2>1, <2>2
          DEF SInv, SpacesTypeOK, EachRunsInItsSegment, SlotsConserved,
              NoSlotPanic, Running
<1> QED BY <1>0, <1>1, <1>2, <1>3, <1>4, <1>5, <1>6 DEF ANext

LEMMA AInvariance == ASpec => [](IInv /\ SInv)
<1> QED BY AInitInv, ANextInv, PTL DEF ASpec
-----------------------------------------------------------------------------
(* The theorems *)

\* Every step of a process with its memory is a step of Kernel, so that what
\* holds of every behaviour of Kernel holds here.
THEOREM ImplementsKernel == ASpec => Spec
<1>1. AInit => Init BY DEF AInit
<1> QED BY <1>1, AInvariance, KernelSteps, PTL DEF ASpec, Spec

\* The variables of this module keep their types.
THEOREM SpacesTyped == ASpec => []SpacesTypeOK
<1>1. SInv => SpacesTypeOK BY DEF SInv
<1> QED BY AInvariance, <1>1, PTL

\* The selector in the PCB of every process leads to its own segment, however
\* slots, PCBs and segments change hands.
THEOREM SegmentsFound == ASpec => []EachRunsInItsSegment
<1>1. SInv => EachRunsInItsSegment BY DEF SInv
<1> QED BY AInvariance, <1>1, PTL

\* No slot is shared, or free and in use, and only the first process's is
\* ever lost.
THEOREM SlotsKept == ASpec => []SlotsConserved
<1>1. SInv => SlotsConserved BY DEF SInv
<1> QED BY AInvariance, <1>1, PTL

\* fork never fails to find a slot.
THEOREM NoSlotPanics == ASpec => []NoSlotPanic
<1>1. SInv => NoSlotPanic BY DEF SInv
<1> QED BY AInvariance, <1>1, PTL
-----------------------------------------------------------------------------
(* Processes with memories of their own *)

\* The memory of a process, found through its LDTR, is that of its segment.
Memory == [p \in Live |-> image[RunsIn(p)]]

LEMMA MemoryFound ==
  /\ SInv /\ Running => Memory = [p \in Live |-> image[seg[p]]]
  /\ SInv' /\ Running' => Memory' = [p \in Live' |-> image'[seg'[p]]]
<1>1. SInv /\ Running => \A p \in Live : RunsIn(p) = seg[p]
  BY DEF SInv, EachRunsInItsSegment, RunsIn
<1>2. SInv' /\ Running' => \A p \in Live' : RunsIn(p)' = seg'[p]
  BY DEF SInv, EachRunsInItsSegment, RunsIn
<1> QED BY <1>1, <1>2 DEF Memory

\* Two live processes in one segment are the same, or both in the kernel's.
LEMMA OwnSegments ==
  ASSUME IInv, EachSegmentHasOneOwner, Running,
         NEW p \in Live, NEW q \in Live, p # q, seg[p] = seg[q]
  PROVE  seg[p] = 0
<1>1. p \in Pcbs /\ q \in Pcbs /\ seg[p] \in 0 .. N_SEGMENTS
      /\ state[p] # ST_FREE /\ state[q] # ST_FREE
  BY InvFacts DEF Live, OtherTypes
<1>2. seg[p] \in Segments => p = q
  BY <1>1 DEF EachSegmentHasOneOwner, Owns
<1> QED BY <1>1, <1>2, KernelAssumption DEF Segments

LEMMA StoreRefined ==
  ASSUME IInv, SInv, SInv', EachSegmentHasOneOwner, NEW v \in Values, Store(v)
  PROVE  Procs!Store(v)
<1>1. /\ Running /\ Running'
      /\ UNCHANGED <<state, seg, g_current>> /\ Live' = Live
  BY DEF Store, vars, Running, Live
<1>2. g_current \in Live
  BY <1>1, InvFacts DEF Live
<1>3. image' = [image EXCEPT ![seg[g_current]] = v]
  BY <1>1, <1>2 DEF Store, RunsIn, SInv, EachRunsInItsSegment
<1>4. /\ Memory = [p \in Live |-> image[seg[p]]]
      /\ Memory' = [p \in Live |-> image'[seg[p]]]
  <2>1. Memory' = [p \in Live' |-> image'[seg'[p]]]
    BY <1>1, MemoryFound
  <2> QED BY <1>1, <2>1, MemoryFound
<1>5. /\ image \in [0 .. N_SEGMENTS -> Values]
      /\ \A p \in Live : seg[p] \in 0 .. N_SEGMENTS
  BY <1>1, InvFacts DEF SInv, SpacesTypeOK, OtherTypes, Live
<1> DEFINE kern == {p \in Live : seg[p] = 0}
           shares(p) == p = g_current \/ (p \in kern /\ g_current \in kern)
<1>6. \A p \in Live : shares(p) <=> seg[p] = seg[g_current]
  BY <1>1, <1>2, OwnSegments
<1>7. \A p \in Live : image'[seg[p]] = IF shares(p) THEN v ELSE image[seg[p]]
  BY <1>3, <1>5, <1>6
<1>8. Memory' = [p \in Live |-> IF shares(p) THEN v ELSE Memory[p]]
  BY <1>4, <1>7
<1> QED BY <1>1, <1>8 DEF Procs!Store, Procs!Shares, Memory

LEMMA ExecRefined ==
  ASSUME IInv, SInv, SInv', EachSegmentHasOneOwner, NEW v \in Values, AExec(v),
         v \in Programs \/ v = image[seg[g_current]]
  PROVE  Procs!Exec(v)
<1>1. /\ Running /\ Running' /\ seg[g_current] # 0
      /\ UNCHANGED <<state, g_current>> /\ Live' = Live
  BY DEF AExec, Exec, UserCall, MayCall, Running, Live
<1>2. g_current \in Live /\ g_current \in Pcbs
  BY <1>1, InvFacts DEF Live
<1>3. PICK s \in g_freemem : seg' = [seg EXCEPT ![g_current] = s]
  BY DEF AExec, Exec
<1>4. /\ s \in Segments /\ s # 0 /\ seg \in [Pcbs -> 0 .. N_SEGMENTS]
      /\ \A p \in Live : seg[p] # s
  BY <1>1, KernelAssumption
     DEF IInv, TypeOK, Segments, EachSegmentHasOneOwner, Owns, Live
<1>5. image' = [image EXCEPT ![s] = v]
  BY <1>2, <1>3, <1>4 DEF AExec
<1>6. /\ Memory = [p \in Live |-> image[seg[p]]]
      /\ Memory' = [p \in Live |-> image'[seg'[p]]]
  <2>1. Memory' = [p \in Live' |-> image'[seg'[p]]]
    BY <1>1, MemoryFound
  <2> QED BY <1>1, <2>1, MemoryFound
<1>7. image \in [0 .. N_SEGMENTS -> Values] /\ s \in 0 .. N_SEGMENTS
  BY <1>4, KernelAssumption DEF SInv, SpacesTypeOK, Segments
<1>8. \A p \in Live :
        image'[seg'[p]] = IF p = g_current THEN v ELSE image[seg[p]]
  <2> SUFFICES ASSUME NEW p \in Live
      PROVE image'[seg'[p]] = IF p = g_current THEN v ELSE image[seg[p]]
    OBVIOUS
  <2>1. p \in Pcbs
    BY PcbsFinite
  <2> QED BY <1>2, <1>3, <1>4, <1>5, <1>7, <2>1
<1>9. Memory' = [Memory EXCEPT ![g_current] = v]
  BY <1>2, <1>6, <1>8
<1>10. {p \in Live : seg'[p] = 0} = {p \in Live : seg[p] = 0}
  BY <1>1, <1>2, <1>3, <1>4, PcbsFinite
<1>11. g_current \notin {p \in Live : seg[p] = 0}
       /\ v \in Programs \cup {Memory[g_current]}
  BY <1>1, <1>2, <1>6
<1> QED BY <1>1, <1>9, <1>10, <1>11 DEF Procs!Exec, Memory

LEMMA ForkRefined ==
  ASSUME IInv, IInv', SInv, SInv', EachSegmentHasOneOwner, Fork,
         NEW child, child = Head(g_free_pcbs), ForkSpace(child)
  PROVE  child \in Pcbs /\ Procs!Fork(child)
<1>1. /\ Running /\ Running' /\ child \in Pcbs
      /\ child \notin Live /\ Live' = Live \cup {child}
  BY ForkLive DEF Running
<1>2. g_current \in Live /\ g_current' \in Live'
  BY <1>1, InvFacts DEF Live, IInv, TypeOK, OneQueuePerPcb
<1>3. PICK s \in g_freemem : seg' = [seg EXCEPT ![child] = s]
  BY DEF Fork
<1>4. /\ s \in Segments /\ s # 0 /\ seg \in [Pcbs -> 0 .. N_SEGMENTS]
      /\ \A p \in Live : seg[p] # s
  BY <1>1, <1>3, KernelAssumption
     DEF IInv, TypeOK, Segments, EachSegmentHasOneOwner, Owns, Live
<1>5. image' = [image EXCEPT ![s] = image[seg[g_current]]]
  BY <1>1, <1>3, <1>4 DEF ForkSpace
<1>6. /\ Memory = [p \in Live |-> image[seg[p]]]
      /\ Memory' = [p \in Live' |-> image'[seg'[p]]]
  BY <1>1, MemoryFound
<1>7. image \in [0 .. N_SEGMENTS -> Values] /\ s \in 0 .. N_SEGMENTS
  BY <1>4, KernelAssumption DEF SInv, SpacesTypeOK, Segments
<1>8. \A p \in Live' :
        image'[seg'[p]] = IF p = child THEN image[seg[g_current]]
                                       ELSE image[seg[p]]
  <2> SUFFICES ASSUME NEW p \in Live'
      PROVE image'[seg'[p]] = IF p = child THEN image[seg[g_current]]
                                           ELSE image[seg[p]]
    OBVIOUS
  <2>1. p = child \/ (p # child /\ p \in Live /\ p \in Pcbs)
    BY <1>1, PcbsFinite
  <2> QED BY <1>1, <1>3, <1>4, <1>5, <1>7, <2>1
<1>9. Memory' = [p \in Live' |-> IF p = child THEN Memory[g_current]
                                              ELSE Memory[p]]
  BY <1>1, <1>2, <1>6, <1>8
<1>10. {p \in Live' : seg'[p] = 0} = {p \in Live : seg[p] = 0}
  BY <1>1, <1>3, <1>4, PcbsFinite
<1> QED BY <1>1, <1>2, <1>9, <1>10 DEF Procs!Fork, Memory

LEMMA ExitRefined ==
  ASSUME IInv, IInv', SInv, SInv', ExitUser \/ ExitKernel, image' = image
  PROVE  Procs!Exit
<1>1. /\ Running /\ Running' /\ seg' = seg
      /\ g_current \in Live /\ Live' = Live \ {g_current}
  BY ExitLive DEF Running
<1>2. g_current' \in Live'
  BY <1>1 DEF Live, IInv, TypeOK, OneQueuePerPcb
<1>3. /\ Memory = [p \in Live |-> image[seg[p]]]
      /\ Memory' = [p \in Live' |-> image'[seg'[p]]]
  BY <1>1, MemoryFound
<1>4. Memory' = [p \in Live' |-> Memory[p]]
  BY <1>1, <1>3
<1>5. {p \in Live' : seg'[p] = 0} = {p \in Live : seg[p] = 0} \ {g_current}
  BY <1>1
<1> QED BY <1>1, <1>2, <1>4, <1>5 DEF Procs!Exit, Memory

\* A step that keeps segments and PCBs lets another process run at most.
LEMMA OtherRefined ==
  ASSUME IInv, IInv', SInv, OtherStep, ~ExitKernel, UNCHANGED spaces
  PROVE  Procs!Switch \/ UNCHANGED Procs!vars
<1>1. CASE kstat' = kstat
  <2>1. Running /\ Running' /\ UNCHANGED <<seg, g_free_pcbs>>
    BY <1>1 DEF OtherStep, ClockTick, RxInterrupt, ReadChar, ReadBlocks, Yield,
       Sleep, ExitPanics, ForkPanics, ExecPanics, Hotswap, StopWith, UserCall,
       MayCall, pcbs, queues, Running
  <2>2. Live' = Live
    BY <2>1, FreePcbs DEF Live
  <2>3. g_current' \in Live
    BY <2>1, <2>2 DEF Live, IInv, TypeOK, OneQueuePerPcb
  <2>4. Memory' = Memory
    BY <2>2 DEF Memory, RunsIn, spaces
  <2> QED BY <2>1, <2>2, <2>3, <2>4 DEF Procs!Switch, Memory
<1>2. CASE kstat' # kstat
  <2>1. UNCHANGED <<state, seg, g_current>>
    <3>1. CASE ExitPanics \/ ForkPanics \/ ExecPanics \/ Hotswap
      BY <3>1 DEF ExitPanics, ForkPanics, ExecPanics, Hotswap, StopWith, pcbs
    <3>2. kstat' \notin {"panic_queue", "panic_dispatch"}
      BY DEF IInv, NoQueuePanic
    <3>3. CASE ClockTick \/ Yield \/ ReadBlocks
               \/ \E ticks \in SleepTicks : Sleep(ticks)
      BY <1>2, <3>2, <3>3 DEF ClockTick, Yield, ReadBlocks, Sleep, TickQuantum,
         Reschedule, Dispatch, TakeFrom, QueuePanic, Panic
    <3>4. CASE RxInterrupt \/ ReadChar
      BY <1>2, <3>4 DEF RxInterrupt, ReadChar
    <3> QED BY <3>1, <3>3, <3>4 DEF OtherStep
  <2>2. Live' = Live /\ Memory' = Memory
    BY <2>1 DEF Live, Memory, RunsIn, spaces
  <2> QED BY <2>1, <2>2 DEF Procs!vars, Memory
<1> QED BY <1>1, <1>2

LEMMA NextRefined ==
  IInv /\ SInv /\ IInv' /\ SInv' /\ EachSegmentHasOneOwner /\ [ANext]_allvars
    => [Procs!Next]_(Procs!vars)
<1> SUFFICES ASSUME IInv, SInv, IInv', SInv', EachSegmentHasOneOwner,
                    [ANext]_allvars
             PROVE  Procs!Next \/ UNCHANGED Procs!vars
  OBVIOUS
<1>1. ASSUME NEW v \in Values, Store(v) PROVE Procs!Next
  BY <1>1, StoreRefined DEF Procs!Next
<1>2. CASE AFork
  <2>1. Fork /\ ForkSpace(Head(g_free_pcbs))
    BY <1>2, SlotLeft DEF AFork, MayCall
  <2> QED BY <2>1, ForkRefined DEF Procs!Next
<1>3. CASE SysExec \/ SysExecve
  <2>1. CASE SysExec
    <3>1. image[seg[g_current]] \in Values
      <4>1. seg[g_current] \in 0 .. N_SEGMENTS
        BY <2>1, InvFacts DEF SysExec, AExec, Exec, UserCall, MayCall, OtherTypes
      <4> QED BY <4>1 DEF SInv, SpacesTypeOK
    <3> QED BY <2>1, <3>1, ExecRefined DEF SysExec, Procs!Next
  <2>2. CASE SysExecve
    BY <2>2, ExecRefined, SlotAssumption DEF SysExecve, Procs!Next
  <2> QED BY <1>3, <2>1, <2>2
<1>4. CASE AExitUser
  BY <1>4, ExitRefined DEF AExitUser, Procs!Next
<1>5. CASE OtherStep /\ UNCHANGED spaces
  <2>1. CASE ExitKernel
    BY <1>5, <2>1, ExitRefined DEF spaces, Procs!Next
  <2> QED BY <1>5, <2>1, OtherRefined DEF Procs!Next
<1>6. CASE UNCHANGED allvars
  <2>1. UNCHANGED <<state, seg, g_current, ldt, ldtr, gdt, image>>
    BY <1>6 DEF allvars, vars, spaces
  <2>2. Live' = Live /\ Memory' = Memory
    BY <2>1 DEF Live, Memory, RunsIn
  <2> QED BY <2>1, <2>2 DEF Procs!vars, Memory
<1> QED BY <1>1, <1>2, <1>3, <1>4, <1>5, <1>6 DEF ANext

LEMMA InitRefined == AInit => Procs!Init
<1> SUFFICES ASSUME AInit PROVE Procs!Init
  OBVIOUS
<1>1. IInv /\ SInv /\ Running
  BY AInitInv DEF AInit, Init, Running
<1>2. \A p \in Pcbs : seg[p] = 0
  BY DEF AInit, Init
<1>3. Live = {First, Idle} /\ g_current \in Live
  <2>1. state = [p \in Pcbs |-> CASE p = First -> ST_RUNNING
                                  [] p = Idle  -> ST_READY
                                  [] OTHER     -> ST_FREE]
        /\ g_current = First
    BY DEF AInit, Init
  <2> QED BY <2>1, PcbsFinite DEF Live
<1>4. {p \in Live : seg[p] = 0} = {First, Idle}
  BY <1>2, <1>3, PcbsFinite
<1>5. Memory = [p \in Live |-> image[0]] /\ image[0] \in Values
  <2>1. Memory = [p \in Live |-> image[seg[p]]]
    BY <1>1, MemoryFound
  <2>2. 0 \in 0 .. N_SEGMENTS
    BY KernelAssumption
  <2> QED BY <1>1, <1>2, <2>1, <2>2, PcbsFinite DEF SInv, SpacesTypeOK
<1> QED BY <1>3, <1>4, <1>5 DEF Procs!Init, Memory

\* Segments, LDTs and slots implement processes with private memories.
THEOREM ProcessesImplemented == ASpec => ImplementsProcesses
<1>1. ASpec => []EachSegmentHasOneOwner
  BY ImplementsKernel, SegmentsCorrect, PTL
<1> QED BY <1>1, InitRefined, AInvariance, NextRefined, PTL
        DEF ASpec, ImplementsProcesses, Procs!Spec
=============================================================================
