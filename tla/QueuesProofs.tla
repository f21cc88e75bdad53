---------------------------- MODULE QueuesProofs ----------------------------
(***************************************************************************)
(* Proofs about Queues: the linked lists of queues.c hold sequences, share *)
(* no node and lose none, and implement QueueSpec.                         *)
(***************************************************************************)
EXTENDS Queues, QueueSeqsProofs, FiniteSetTheorems

(* Chain is a recursive function: it exists, and follows every path *)

LEMMA WalkDefined ==
  ASSUME NEW nx \in [Nodes -> Links]
  PROVE  Walk(nx) =
           [fuel \in 0 .. N_QNODES |->
              [n \in Links |-> IF n = NULL \/ fuel = 0 THEN <<>>
                               ELSE <<n>> \o Walk(nx)[fuel - 1][nx[n]]]]
<1> DEFINE Row(f, fuel) == [n \in Links |-> IF n = NULL \/ fuel = 0 THEN <<>>
                               ELSE <<n>> \o f[fuel - 1][nx[n]]]
           Solves(f, k) == f = [fuel \in 0 .. k |-> Row(f, fuel)]
           S == {k \in Nat : \E f : Solves(f, k)}
<1>1. 0 \in S
  <2> DEFINE f == [fuel \in 0 .. 0 |-> [n \in Links |-> <<>>]]
  <2>1. Solves(f, 0) OBVIOUS
  <2> QED BY <2>1
<1>2. ASSUME NEW k \in Nat, k \in S PROVE k + 1 \in S
  <2>1. PICK f : Solves(f, k) BY <1>2
  <2> DEFINE g == [fuel \in 0 .. k + 1 |->
                     IF fuel = k + 1 THEN Row(f, k + 1) ELSE f[fuel]]
  <2>2. \A fuel \in 0 .. k : g[fuel] = f[fuel]
    OBVIOUS
  <2>3. g = [fuel \in 0 .. k + 1 |-> g[fuel]] /\ g[k + 1] = Row(f, k + 1)
    OBVIOUS
  <2> HIDE DEF g
  <2>4. ASSUME NEW fuel \in 0 .. k + 1 PROVE g[fuel] = Row(g, fuel)
    <3>1. g[fuel] = Row(f, fuel)
      <4>1. CASE fuel = k + 1 BY <2>3, <4>1
      <4>2. CASE fuel # k + 1
        <5>1. fuel \in 0 .. k BY <4>2
        <5>2. f[fuel] = Row(f, fuel)
          <6> HIDE DEF Row
          <6> QED BY <2>1, <5>1
        <5> QED BY <2>2, <5>1, <5>2
      <4> QED BY <4>1, <4>2
    <3>2. CASE fuel = 0 BY <3>1, <3>2
    <3>3. CASE fuel # 0
      <4>1. fuel - 1 \in 0 .. k BY <3>3
      <4>2. g[fuel - 1] = f[fuel - 1] BY <2>2, <4>1
      <4> QED BY <3>1, <4>2
    <3> QED BY <3>2, <3>3
  <2>5. Solves(g, k + 1)
    <3> HIDE DEF Row
    <3> QED BY <2>3, <2>4
  <2>6. \E h : Solves(h, k + 1) BY <2>5
  <2> HIDE DEF Solves
  <2> QED BY <2>6
<1>3. N_QNODES \in S
  <2> HIDE DEF S
  <2> QED BY <1>1, <1>2, SetInduction, QueuesAssumption
<1>4. PICK f : Solves(f, N_QNODES) BY <1>3
<1>5. Walk(nx) = CHOOSE w : Solves(w, N_QNODES)
  BY DEF Walk
<1>6. Solves(Walk(nx), N_QNODES)
  <2> HIDE DEF Solves
  <2> QED BY <1>4, <1>5
<1> QED BY <1>6

\* c is what is reached from n by nx, to the end.
Path(nx, n, c) ==
  /\ n = IF Len(c) = 0 THEN NULL ELSE c[1]
  /\ \A i \in 1 .. Len(c) : nx[c[i]] = IF i = Len(c) THEN NULL ELSE c[i + 1]

\* A sequence of different nodes is not longer than there are nodes.
LEMMA NodesFit ==
  ASSUME NEW c \in Seq(Nodes), Distinct(c) PROVE Len(c) <= N_QNODES
<1>1. Len(c) \in Nat /\ c \in [1 .. Len(c) -> Nodes]
  BY LenProperties
<1>2. /\ IsFiniteSet(Nodes) /\ Cardinality(Nodes) = N_QNODES
      /\ IsFiniteSet(1 .. Len(c)) /\ Cardinality(1 .. Len(c)) = Len(c)
  <2>1. \A m \in Nat : IsFiniteSet(1 .. m) /\ Cardinality(1 .. m) = m
    <3>1. ASSUME NEW m \in Nat
          PROVE  IsFiniteSet(1 .. m) /\ Cardinality(1 .. m) = m
      <4>1. 1 \in Int /\ m \in Int OBVIOUS
      <4>2. /\ IsFiniteSet(1 .. m)
            /\ Cardinality(1 .. m) = IF 1 > m THEN 0 ELSE m - 1 + 1
        BY <4>1, FS_Interval
      <4> QED BY <4>2
    <3> QED BY <3>1
  <2> QED BY <1>1, <2>1, QueuesAssumption DEF Nodes
<1>3. ASSUME ~(Len(c) <= N_QNODES) PROVE FALSE
  <2>1. Cardinality(Nodes) < Cardinality(1 .. Len(c))
    BY <1>1, <1>2, <1>3, QueuesAssumption
  <2>2. \E i, j \in 1 .. Len(c) : i # j /\ c[i] = c[j]
    BY <1>1, <1>2, <2>1, FS_PigeonHole
  <2> QED BY <2>2 DEF Distinct
<1> QED BY <1>3

\* The chain of a node is the path from it.
LEMMA ChainIsPath ==
  ASSUME NEW nx \in [Nodes -> Links], NEW n, NEW c \in Seq(Nodes),
         Distinct(c), Path(nx, n, c)
  PROVE  Chain(nx, n) = c
<1> DEFINE w == Walk(nx)
           L == Len(c)
           From(k) == IF k = 0 THEN NULL ELSE c[L - k + 1]
           S == {k \in Nat : k <= L => \A fuel \in k .. N_QNODES :
                               w[fuel][From(k)] = SubSeq(c, L - k + 1, L)}
<1>1. /\ L \in Nat /\ L <= N_QNODES
      /\ \A i \in 1 .. L : c[i] \in Nodes /\ c[i] # NULL
  <2>1. L \in Nat /\ \A i \in 1 .. L : c[i] \in Nodes
    BY LenProperties, ElementOfSeq
  <2>2. \A m \in Nodes : m # NULL
    BY DEF Nodes, NULL
  <2> QED BY <2>1, <2>2, NodesFit
<1>2. \A fuel \in 0 .. N_QNODES : \A m \in Links :
        w[fuel][m] = IF m = NULL \/ fuel = 0 THEN <<>>
                     ELSE <<m>> \o w[fuel - 1][nx[m]]
  <2> DEFINE Row(fuel) == [m \in Links |-> IF m = NULL \/ fuel = 0 THEN <<>>
                             ELSE <<m>> \o w[fuel - 1][nx[m]]]
  <2>1. w = [fuel \in 0 .. N_QNODES |-> Row(fuel)]
    BY WalkDefined
  <2>2. ASSUME NEW fuel \in 0 .. N_QNODES PROVE w[fuel] = Row(fuel)
    <3> HIDE DEF w, Row
    <3> QED BY <2>1
  <2> HIDE DEF w
  <2> QED BY <2>2
<1> HIDE DEF w
<1>3. 0 \in S
  <2>1. \A fuel \in 0 .. N_QNODES : w[fuel][NULL] = <<>>
    BY <1>2 DEF Links
  <2>2. SubSeq(c, L - 0 + 1, L) = <<>>
    BY <1>1
  <2> QED BY <2>1, <2>2
<1>4. ASSUME NEW k \in Nat, k \in S PROVE k + 1 \in S
  <2> SUFFICES ASSUME k + 1 <= L, NEW fuel \in k + 1 .. N_QNODES
               PROVE  w[fuel][From(k + 1)] = SubSeq(c, L - (k + 1) + 1, L)
    OBVIOUS
  <2>1. /\ L - k \in 1 .. L /\ From(k + 1) = c[L - k]
        /\ fuel - 1 \in k .. N_QNODES /\ fuel \in 0 .. N_QNODES /\ fuel # 0
    BY <1>1, QueuesAssumption
  <2>2. nx[c[L - k]] = From(k)
    BY <1>1, <2>1 DEF Path
  <2>3. w[fuel - 1][From(k)] = SubSeq(c, L - k + 1, L)
    BY <1>1, <1>4, <2>1
  <2>4. w[fuel][c[L - k]] = <<c[L - k]>> \o SubSeq(c, L - k + 1, L)
    <3>1. c[L - k] \in Links /\ c[L - k] # NULL
      BY <1>1, <2>1 DEF Links
    <3>2. w[fuel][c[L - k]] = <<c[L - k]>> \o w[fuel - 1][nx[c[L - k]]]
      BY <1>2, <2>1, <3>1
    <3> QED BY <2>2, <2>3, <3>2
  <2>5. <<c[L - k]>> \o SubSeq(c, L - k + 1, L) = SubSeq(c, L - k, L)
    BY <1>1, <2>1
  <2>6. L - (k + 1) + 1 = L - k BY <1>1
  <2> QED BY <2>1, <2>4, <2>5, <2>6
<1>5. L \in S
  <2> HIDE DEF S
  <2> QED BY <1>1, <1>3, <1>4, SetInduction
<1>6. w[N_QNODES][From(L)] = SubSeq(c, L - L + 1, L)
  BY <1>1, <1>5, QueuesAssumption
<1>7. From(L) = n /\ SubSeq(c, L - L + 1, L) = c
  <2>1. L - L + 1 = 1 BY <1>1
  <2>2. SubSeq(c, 1, L) = c BY <1>1
  <2> QED BY <1>1, <2>1, <2>2 DEF Path
<1> QED BY <1>6, <1>7 DEF Chain, w
-----------------------------------------------------------------------------
(* The invariant: which node is where *)

Heads == QueueNames \cup {NULL}
First(h) == IF h = NULL THEN g_free_qnodes ELSE front[h]

\* L gives the nodes of each list: every node is in one of them, and once.
Partition(L) ==
  /\ L \in [Heads -> Seq(Nodes)]
  /\ \A h \in Heads : Distinct(L[h])
  /\ \A h, g \in Heads : h # g => \A n : ~(Holds(L[h], n) /\ Holds(L[g], n))
  /\ \A n \in Nodes : \E h \in Heads : Holds(L[h], n)

\* The fields of the nodes and the ends of the queues are as L says.
Threaded(L) ==
  /\ \A h \in Heads : Path(next, First(h), L[h])
  /\ \A k \in QueueNames :
       /\ back[k] = IF Len(L[k]) = 0 THEN NULL ELSE L[k][Len(L[k])]
       /\ \A i \in 1 .. Len(L[k]) :
            /\ prev[L[k][i]] = IF i = 1 THEN NULL ELSE L[k][i - 1]
            /\ data[L[k][i]] \in Data

FieldTypes ==
  /\ data \in [Nodes -> Data \cup {NULL}]
  /\ next \in [Nodes -> Links] /\ prev \in [Nodes -> Links]
  /\ front \in [QueueNames -> Links] /\ back \in [QueueNames -> Links]
  /\ g_free_qnodes \in Links

IInv == FieldTypes /\ \E L : Partition(L) /\ Threaded(L)

LEMMA PartitionFacts ==
  ASSUME NEW L, Partition(L), NEW h \in Heads
  PROVE  /\ L[h] \in Seq(Nodes) /\ Len(L[h]) \in Nat /\ Distinct(L[h])
         /\ \A i \in 1 .. Len(L[h]) : /\ L[h][i] \in Nodes
                                      /\ L[h][i] \in Links /\ L[h][i] # NULL
<1>1. L[h] \in Seq(Nodes) /\ Distinct(L[h])
  BY DEF Partition
<1>2. Len(L[h]) \in Nat /\ \A i \in 1 .. Len(L[h]) : L[h][i] \in Nodes
  BY <1>1, LenProperties, ElementOfSeq
<1>3. \A m \in Nodes : m \in Links /\ m # NULL
  BY DEF Nodes, NULL, Links
<1> QED BY <1>1, <1>2, <1>3

\* The lists of the invariant are those that Chain finds.
LEMMA ListsFound ==
  ASSUME FieldTypes, NEW L, Partition(L), Threaded(L)
  PROVE  /\ \A h \in Heads : Chain(next, First(h)) = L[h]
         /\ \A k \in QueueNames : Chain(next, front[k]) = L[k]
         /\ Chain(next, g_free_qnodes) = L[NULL]
         /\ Lists = L
<1>1. \A h \in Heads : Chain(next, First(h)) = L[h]
  BY PartitionFacts, ChainIsPath DEF FieldTypes, Threaded
<1>2. \A k \in QueueNames : k \in Heads /\ First(k) = front[k]
  BY QueuesAssumption DEF Heads, First
<1>3. NULL \in Heads /\ First(NULL) = g_free_qnodes
  BY DEF Heads, First
<1>4. Lists = [h \in Heads |-> Chain(next, First(h))]
  BY DEF Lists, Heads, First
<1>5. Lists = L
  <2>1. L = [h \in Heads |-> L[h]] BY DEF Partition
  <2> QED BY <1>1, <1>4, <2>1
<1> QED BY <1>1, <1>2, <1>3, <1>5

\* Moving a node from the list g to the list k.
LEMMA NodeMoves ==
  ASSUME NEW L, Partition(L), NEW g \in Heads, NEW k \in Heads, g # k,
         NEW n \in Nodes, Holds(L[g], n),
         NEW s \in Seq(Nodes), NEW t \in Seq(Nodes),
         Distinct(s), \A m : Holds(s, m) <=> Holds(L[g], m) /\ m # n,
         Distinct(t), \A m : Holds(t, m) <=> Holds(L[k], m) \/ m = n
  PROVE  Partition([L EXCEPT ![g] = s, ![k] = t])
<1> DEFINE M == [L EXCEPT ![g] = s, ![k] = t]
<1>1. /\ M \in [Heads -> Seq(Nodes)] /\ M[g] = s /\ M[k] = t
      /\ \A h \in Heads : h # g /\ h # k => M[h] = L[h]
  BY DEF Partition
<1> HIDE DEF M
<1>2. \A h \in Heads : \A m : Holds(M[h], m) <=>
        \/ h = k /\ m = n
        \/ Holds(L[h], m) /\ ~(h = g /\ m = n)
  BY <1>1
<1>3. \A h \in Heads : Distinct(M[h])
  BY <1>1 DEF Partition
<1>4. \A h, j \in Heads : h # j => \A m : ~(Holds(M[h], m) /\ Holds(M[j], m))
  <2>1. ASSUME NEW h \in Heads, NEW j \in Heads, NEW m, h # j,
               Holds(M[h], m), Holds(M[j], m)
        PROVE  FALSE
    <3>1. ~(Holds(L[h], m) /\ Holds(L[j], m)) BY <2>1 DEF Partition
    <3>2. \A i \in Heads : Holds(L[i], n) => i = g BY DEF Partition
    <3> QED BY <1>2, <2>1, <3>1, <3>2
  <2> QED BY <2>1
<1>5. \A m \in Nodes : \E h \in Heads : Holds(M[h], m)
  <2>1. ASSUME NEW m \in Nodes PROVE \E h \in Heads : Holds(M[h], m)
    <3>1. CASE m = n BY <1>2, <3>1
    <3>2. CASE m # n BY <1>2, <3>2 DEF Partition
    <3> QED BY <3>1, <3>2
  <2> QED BY <2>1
<1> QED BY <1>1, <1>3, <1>4, <1>5 DEF Partition, M

\* Putting a node into a list behind the first n.
Inserted(c, n, p) == SubSeq(c, 1, n) \o <<p>> \o SubSeq(c, n + 1, Len(c))

LEMMA InsertedFacts ==
  ASSUME NEW S, NEW c \in Seq(S), NEW n \in 0 .. Len(c), NEW p \in S
  PROVE  /\ Inserted(c, n, p) \in Seq(S)
         /\ Len(Inserted(c, n, p)) = Len(c) + 1
         /\ \A i \in 1 .. n : Inserted(c, n, p)[i] = c[i]
         /\ Inserted(c, n, p)[n + 1] = p
         /\ \A i \in n + 2 .. Len(c) + 1 : Inserted(c, n, p)[i] = c[i - 1]
<1> DEFINE a == SubSeq(c, 1, n)
           b == SubSeq(c, n + 1, Len(c))
           ap == a \o <<p>>
<1>0. Len(c) \in Nat /\ \A i \in 1 .. Len(c) : c[i] \in S
  BY LenProperties, ElementOfSeq
<1>1. a \in Seq(S) /\ Len(a) = n /\ \A i \in 1 .. n : a[i] = c[i]
  BY <1>0
<1>2. /\ b \in Seq(S) /\ Len(b) = Len(c) - n
      /\ \A i \in 1 .. Len(c) - n : b[i] = c[n + i]
  BY <1>0
<1> HIDE DEF a, b
<1>3. /\ ap \in Seq(S) /\ Len(ap) = n + 1
      /\ \A i \in 1 .. n : ap[i] = c[i]
      /\ ap[n + 1] = p
  BY <1>1
<1> HIDE DEF ap
<1>4. /\ ap \o b \in Seq(S) /\ Len(ap \o b) = Len(c) + 1
      /\ \A i \in 1 .. Len(c) + 1 :
           (ap \o b)[i] = IF i <= n + 1 THEN ap[i] ELSE b[i - (n + 1)]
  <2>1. Len(ap) + Len(b) = Len(c) + 1 BY <1>0, <1>2, <1>3
  <2> QED BY <1>2, <1>3, <2>1, ConcatProperties
<1>5. /\ \A i \in 1 .. n : i \in 1 .. Len(c) + 1 /\ i <= n + 1
      /\ n + 1 \in 1 .. Len(c) + 1
      /\ \A i \in n + 2 .. Len(c) + 1 :
           /\ i \in 1 .. Len(c) + 1 /\ ~(i <= n + 1)
           /\ i - (n + 1) \in 1 .. Len(c) - n /\ n + (i - (n + 1)) = i - 1
  BY <1>0
<1>6. Inserted(c, n, p) = ap \o b
  BY DEF Inserted, ap, a, b
<1> DEFINE t == Inserted(c, n, p)
<1> HIDE DEF t
<1>7. /\ t \in Seq(S) /\ Len(t) = Len(c) + 1
      /\ \A i \in 1 .. n : t[i] = c[i]
      /\ t[n + 1] = p
      /\ \A i \in n + 2 .. Len(c) + 1 : t[i] = c[i - 1]
  <2>1. t = ap \o b BY <1>6 DEF t
  <2>2. t \in Seq(S) /\ Len(t) = Len(c) + 1 BY <1>4, <2>1
  <2>3. ASSUME NEW i \in 1 .. n PROVE t[i] = c[i]
    BY <1>3, <1>4, <1>5, <2>1
  <2>4. t[n + 1] = p BY <1>3, <1>4, <1>5, <2>1
  <2>5. ASSUME NEW i \in n + 2 .. Len(c) + 1 PROVE t[i] = c[i - 1]
    <3>1. t[i] = b[i - (n + 1)] BY <1>4, <1>5, <2>1
    <3>2. b[i - (n + 1)] = c[n + (i - (n + 1))] BY <1>2, <1>5
    <3> QED BY <1>5, <3>1, <3>2
  <2> QED BY <2>2, <2>3, <2>4, <2>5
<1> QED BY <1>7 DEF t

LEMMA InsertedHolds ==
  ASSUME NEW S, NEW c \in Seq(S), NEW n \in 0 .. Len(c), NEW p \in S,
         Distinct(c), ~Holds(c, p)
  PROVE  LET t == Inserted(c, n, p)
         IN  /\ \A m : Holds(t, m) <=> Holds(c, m) \/ m = p
             /\ Distinct(t)
<1> DEFINE t == Inserted(c, n, p)
<1>1. /\ t \in Seq(S) /\ Len(t) = Len(c) + 1 /\ Len(c) \in Nat
      /\ \A i \in 1 .. n : t[i] = c[i]
      /\ t[n + 1] = p
      /\ \A i \in n + 2 .. Len(c) + 1 : t[i] = c[i - 1]
  <2>1. Len(c) \in Nat BY LenProperties
  <2>2. t \in Seq(S) /\ Len(t) = Len(c) + 1 BY InsertedFacts
  <2>3. \A i \in 1 .. n : t[i] = c[i] BY InsertedFacts
  <2>4. t[n + 1] = p BY InsertedFacts
  <2>5. \A i \in n + 2 .. Len(c) + 1 : t[i] = c[i - 1] BY InsertedFacts
  <2> QED BY <2>1, <2>2, <2>3, <2>4, <2>5
<1> HIDE DEF t
<1>2. ASSUME NEW m, Holds(t, m) PROVE Holds(c, m) \/ m = p
  <2>1. PICK i \in 1 .. Len(t) : t[i] = m BY <1>2 DEF Holds
  <2>2. CASE i <= n BY <1>1, <2>1, <2>2 DEF Holds
  <2>3. CASE i = n + 1 BY <1>1, <2>1, <2>3
  <2>4. CASE i > n + 1
    <3>1. i - 1 \in 1 .. Len(c) /\ c[i - 1] = m BY <1>1, <2>1, <2>4
    <3> QED BY <3>1 DEF Holds
  <2> QED BY <1>1, <2>2, <2>3, <2>4
<1>3. ASSUME NEW m, Holds(c, m) PROVE Holds(t, m)
  <2>1. PICK i \in 1 .. Len(c) : c[i] = m BY <1>3 DEF Holds
  <2>2. CASE i <= n
    <3>1. i \in 1 .. Len(t) /\ t[i] = m BY <1>1, <2>1, <2>2
    <3> QED BY <3>1 DEF Holds
  <2>3. CASE ~(i <= n)
    <3>1. i + 1 \in n + 2 .. Len(c) + 1 /\ (i + 1) - 1 = i BY <1>1, <2>3
    <3>2. i + 1 \in 1 .. Len(t) /\ t[i + 1] = m BY <1>1, <2>1, <3>1
    <3> QED BY <3>2 DEF Holds
  <2> QED BY <2>2, <2>3
<1>4. Holds(t, p)
  <2>1. n + 1 \in 1 .. Len(t) BY <1>1
  <2> QED BY <1>1, <2>1 DEF Holds
<1>5. ASSUME NEW i \in 1 .. Len(t), NEW j \in 1 .. Len(t), t[i] = t[j], i < j
      PROVE  FALSE
  <2>1. CASE j <= n BY <1>1, <1>5, <2>1 DEF Distinct
  <2>2. CASE i <= n /\ j = n + 1 BY <1>1, <1>5, <2>2 DEF Holds
  <2>3. CASE i <= n /\ j > n + 1
    <3>1. j - 1 \in 1 .. Len(c) /\ i \in 1 .. Len(c) /\ c[j - 1] = c[i] /\ i < j - 1
      BY <1>1, <1>5, <2>3
    <3> QED BY <3>1 DEF Distinct
  <2>4. CASE i = n + 1
    <3>1. j - 1 \in 1 .. Len(c) /\ c[j - 1] = p BY <1>1, <1>5, <2>4
    <3> QED BY <3>1 DEF Holds
  <2>5. CASE i > n + 1
    <3>1. /\ j - 1 \in 1 .. Len(c) /\ i - 1 \in 1 .. Len(c)
          /\ c[j - 1] = c[i - 1] /\ i - 1 < j - 1
      BY <1>1, <1>5, <2>5
    <3> QED BY <3>1 DEF Distinct
  <2> QED BY <1>1, <1>5, <2>1, <2>2, <2>3, <2>4, <2>5
<1>6. Distinct(t)
  <2>1. ASSUME NEW i \in 1 .. Len(t), NEW j \in 1 .. Len(t), t[i] = t[j]
        PROVE  i = j
    <3>1. ~(i < j) /\ ~(j < i) BY <1>5, <2>1
    <3> QED BY <1>1, <3>1
  <2> QED BY <2>1 DEF Distinct
<1> QED BY <1>2, <1>3, <1>4, <1>6 DEF t
-----------------------------------------------------------------------------
(* The actions keep the invariant *)

\* At first all nodes are on the free list, the last in front.
LEMMA InitInv == QInit => IInv
<1> SUFFICES ASSUME QInit PROVE IInv
  OBVIOUS
<1> DEFINE c == [i \in 1 .. N_QNODES |-> N_QNODES + 1 - i]
           L == [h \in Heads |-> IF h = NULL THEN c ELSE <<>>]
<1>1. N_QNODES \in Nat /\ \A m \in Nodes : m \in Nat /\ m # NULL /\ m - 1 \in Links
  BY QueuesAssumption DEF Nodes, Links, NULL
<1>2. FieldTypes
  <2>1. N_QNODES \in Links /\ NULL \in Links
    BY <1>1 DEF Nodes, Links, NULL
  <2> QED BY <1>1, <2>1 DEF QInit, FieldTypes
<1>3. /\ c \in Seq(Nodes) /\ Len(c) = N_QNODES
      /\ \A i \in 1 .. N_QNODES : c[i] = N_QNODES + 1 - i
  BY <1>1 DEF Nodes
<1> HIDE DEF c
<1>4. /\ L \in [Heads -> Seq(Nodes)] /\ L[NULL] = c
      /\ \A k \in QueueNames : L[k] = <<>> /\ Len(L[k]) = 0
      /\ \A h \in Heads : h # NULL => h \in QueueNames
  BY <1>3, QueuesAssumption DEF Heads
<1> HIDE DEF L
<1>5. Partition(L)
  <2>1. Distinct(c)
    BY <1>1, <1>3 DEF Distinct
  <2>2. \A h \in Heads : h # NULL => Distinct(L[h]) /\ \A m : ~Holds(L[h], m)
    BY <1>4 DEF Distinct, Holds
  <2>3. ASSUME NEW m \in Nodes PROVE Holds(c, m)
    <3>1. /\ N_QNODES + 1 - m \in 1 .. N_QNODES
          /\ N_QNODES + 1 - (N_QNODES + 1 - m) = m
      BY <1>1 DEF Nodes
    <3>2. c[N_QNODES + 1 - m] = m BY <1>3, <3>1
    <3> QED BY <1>3, <3>1, <3>2 DEF Holds
  <2>4. NULL \in Heads BY DEF Heads
  <2> QED BY <1>4, <2>1, <2>2, <2>3, <2>4 DEF Partition
<1>6. Path(next, g_free_qnodes, c)
  <2>1. g_free_qnodes = IF Len(c) = 0 THEN NULL ELSE c[1]
    BY <1>1, <1>3 DEF QInit, NULL
  <2>2. ASSUME NEW i \in 1 .. Len(c)
        PROVE  next[c[i]] = IF i = Len(c) THEN NULL ELSE c[i + 1]
    <3>1. c[i] \in Nodes /\ c[i] = N_QNODES + 1 - i
      <4>1. i \in 1 .. N_QNODES BY <1>3
      <4>2. c[i] = N_QNODES + 1 - i BY <1>3, <4>1
      <4>3. N_QNODES + 1 - i \in 1 .. N_QNODES BY <1>1, <4>1
      <4> QED BY <4>2, <4>3 DEF Nodes
    <3>2. next[c[i]] = N_QNODES - i BY <1>1, <1>3, <3>1 DEF QInit
    <3>3. CASE i = Len(c) BY <1>1, <1>3, <3>2, <3>3 DEF NULL
    <3>4. CASE i # Len(c)
      <4>1. i + 1 \in 1 .. N_QNODES BY <1>1, <1>3, <3>4
      <4>2. c[i + 1] = N_QNODES - i BY <1>1, <1>3, <4>1
      <4> QED BY <3>2, <3>4, <4>2
    <3> QED BY <3>3, <3>4
  <2> QED BY <2>1, <2>2 DEF Path
<1>7. Threaded(L)
  <2>1. ASSUME NEW h \in Heads PROVE Path(next, First(h), L[h])
    <3>1. CASE h = NULL BY <1>4, <1>6, <3>1 DEF First
    <3>2. CASE h # NULL
      <4>1. First(h) = NULL /\ Len(L[h]) = 0 BY <1>4, <3>2 DEF QInit, First
      <4> QED BY <4>1 DEF Path
    <3> QED BY <3>1, <3>2
  <2> QED BY <1>4, <2>1 DEF Threaded, QInit
<1> QED BY <1>2, <1>5, <1>7 DEF IInv

\* In the queue k with the nodes c: a place for d behind the first n.
PlaceFor(k, c, d, n) ==
  /\ n \in 0 .. Len(c)
  /\ k \in Ordered => \A i \in 1 .. n : compare(data[c[i]], d) <= 0
  /\ n < Len(c) => k \in Ordered /\ compare(data[c[n + 1]], d) > 0

\* FirstGreater finds it.
LEMMA PlaceFound ==
  ASSUME FieldTypes, NEW L, Partition(L), Threaded(L),
         NEW k \in QueueNames, NEW d \in Data
  PROVE  \E n : /\ PlaceFor(k, L[k], d, n)
                /\ FirstGreater(k, d) = IF n = Len(L[k]) THEN NULL ELSE L[k][n + 1]
<1> DEFINE c == L[k]
           greater == {i \in DOMAIN c : k \in Ordered /\ compare(data[c[i]], d) > 0}
<1>1. /\ c \in Seq(Nodes) /\ Len(c) \in Nat /\ DOMAIN c = 1 .. Len(c)
      /\ \A i \in 1 .. Len(c) : data[c[i]] \in Data
  <2>1. k \in Heads BY DEF Heads
  <2> QED BY <2>1, PartitionFacts, LenProperties DEF Threaded
<1>2. \A i \in 1 .. Len(c) : compare(data[c[i]], d) \in Int
  BY <1>1, QueuesAssumption
<1>3. FirstGreater(k, d) =
        IF greater = {} THEN NULL
        ELSE c[CHOOSE i \in greater : \A j \in greater : i <= j]
  <2> DEFINE Found(s) ==
               LET more == {i \in DOMAIN s : k \in Ordered /\ compare(data[s[i]], d) > 0}
               IN  IF more = {} THEN NULL
                   ELSE s[CHOOSE i \in more : \A j \in more : i <= j]
  <2>1. FirstGreater(k, d) = Found(Chain(next, front[k]))
    BY DEF FirstGreater
  <2>2. Chain(next, front[k]) = c BY ListsFound
  <2>3. FirstGreater(k, d) = Found(c)
    <3> HIDE DEF Found, c
    <3> QED BY <2>1, <2>2
  <2> QED BY <2>3
<1> HIDE DEF c
<1>4. CASE greater = {}
  <2>1. PlaceFor(k, c, d, Len(c))
    BY <1>1, <1>2, <1>4 DEF PlaceFor
  <2> QED BY <1>3, <1>4, <2>1 DEF c
<1>5. CASE greater # {}
  <2>1. greater \subseteq Nat BY <1>1
  <2> DEFINE first == CHOOSE i \in greater : \A j \in greater : i <= j
  <2>2. first \in greater /\ \A j \in greater : first <= j
    <3> HIDE DEF greater
    <3> QED BY <1>5, <2>1, LeastNatural
  <2> HIDE DEF first
  <2>3. first \in 1 .. Len(c) /\ k \in Ordered /\ compare(data[c[first]], d) > 0
    BY <1>1, <2>2
  <2>4. ASSUME NEW i \in 1 .. first - 1 PROVE compare(data[c[i]], d) <= 0
    <3>1. i \in 1 .. Len(c) /\ ~(first <= i) BY <1>1, <2>3
    <3>2. i \notin greater BY <2>2, <3>1
    <3> QED BY <1>1, <1>2, <2>3, <3>1, <3>2
  <2>5. /\ first - 1 \in 0 .. Len(c) /\ (first - 1) + 1 = first
        /\ first - 1 # Len(c)
    BY <1>1, <2>3
  <2>6. PlaceFor(k, c, d, first - 1)
    BY <2>3, <2>4, <2>5 DEF PlaceFor
  <2>7. FirstGreater(k, d) = c[first]
    BY <1>3, <1>5 DEF first
  <2>8. FirstGreater(k, d) = IF first - 1 = Len(c) THEN NULL ELSE c[(first - 1) + 1]
    BY <2>5, <2>7
  <2> QED BY <2>6, <2>8 DEF c
<1> QED BY <1>4, <1>5

\* Putting the first free node into a queue.
LEMMA EnqueSteps ==
  ASSUME FieldTypes, NEW L, Partition(L), Threaded(L),
         NEW k \in QueueNames, NEW d \in Data, _enque(k, d)
  PROVE  \E n : /\ PlaceFor(k, L[k], d, n)
                /\ Len(L[NULL]) > 0
                /\ data' = [data EXCEPT ![L[NULL][1]] = d]
                /\ FieldTypes'
                /\ LET M == [L EXCEPT ![NULL] = Tail(L[NULL]),
                                      ![k] = Inserted(L[k], n, L[NULL][1])]
                   IN  Partition(M) /\ Threaded(M)'
<1> DEFINE c == L[k]
           len == Len(c)
           f == L[NULL]
           qn == f[1]
           current == FirstGreater(k, d)
<1>1. /\ NULL \in Heads /\ k \in Heads /\ k # NULL
      /\ First(NULL) = g_free_qnodes /\ First(k) = front[k]
  BY QueuesAssumption DEF Heads, First
<1>2. /\ c \in Seq(Nodes) /\ len \in Nat /\ Distinct(c)
      /\ \A i \in 1 .. len : c[i] \in Nodes /\ c[i] \in Links /\ c[i] # NULL
      /\ f \in Seq(Nodes) /\ Len(f) \in Nat /\ Distinct(f)
      /\ \A i \in 1 .. Len(f) : f[i] \in Nodes /\ f[i] \in Links /\ f[i] # NULL
      /\ \A m : ~(Holds(c, m) /\ Holds(f, m))
  BY <1>1, PartitionFacts DEF Partition
<1>3. /\ Path(next, g_free_qnodes, f) /\ Path(next, front[k], c)
      /\ back[k] = IF len = 0 THEN NULL ELSE c[len]
      /\ \A i \in 1 .. len : /\ prev[c[i]] = IF i = 1 THEN NULL ELSE c[i - 1]
                             /\ data[c[i]] \in Data
  BY <1>1 DEF Threaded
<1>4. PICK n : /\ PlaceFor(k, c, d, n)
               /\ current = IF n = len THEN NULL ELSE c[n + 1]
  BY PlaceFound
<1> HIDE DEF c, f, current
<1>5. /\ Len(f) > 0 /\ g_free_qnodes = qn /\ qn \in Nodes /\ qn # NULL
      /\ qn \in Links /\ next[qn] = IF Len(f) = 1 THEN NULL ELSE f[2]
  <2>1. g_free_qnodes # NULL BY DEF _enque
  <2>2. Len(f) > 0 /\ g_free_qnodes = qn BY <1>2, <1>3, <2>1 DEF Path
  <2>3. 1 \in 1 .. Len(f) BY <1>2, <2>2
  <2>4. next[qn] = IF 1 = Len(f) THEN NULL ELSE f[1 + 1] BY <1>3, <2>3 DEF Path
  <2> QED BY <1>2, <2>2, <2>3, <2>4
<1> HIDE DEF qn
<1>6. /\ g_free_qnodes' = next[qn]
      /\ data' = [data EXCEPT ![qn] = d]
      /\ IF current = NULL THEN AppendNode(k, qn) ELSE InsertNode(k, qn, current)
  BY <1>5 DEF _enque, current
<1>7. n \in 0 .. len BY <1>4 DEF PlaceFor
<1>8. ~Holds(c, qn) /\ Holds(f, qn) /\ \A i \in 1 .. len : c[i] # qn
  <2>1. Holds(f, qn)
    <3>1. 1 \in 1 .. Len(f) BY <1>2, <1>5
    <3> QED BY <3>1 DEF Holds, qn
  <2> QED BY <1>2, <2>1 DEF Holds
<1>9. /\ next' = [m \in Nodes |->
                    IF m = qn THEN IF n = len THEN NULL ELSE c[n + 1]
                    ELSE IF n > 0 /\ m = c[n] THEN qn ELSE next[m]]
      /\ prev' = [m \in Nodes |->
                    IF m = qn THEN IF n = 0 THEN NULL ELSE c[n]
                    ELSE IF n < len /\ m = c[n + 1] THEN qn ELSE prev[m]]
      /\ front' = [front EXCEPT ![k] = IF n = 0 THEN qn ELSE front[k]]
      /\ back' = [back EXCEPT ![k] = IF n = len THEN qn ELSE back[k]]
  <2>1. CASE n = len
    <3>1. AppendNode(k, qn) BY <1>4, <1>6, <2>1
    <3>2. /\ back[k] = IF n = 0 THEN NULL ELSE c[n]
          /\ n > 0 => c[n] # NULL
      BY <1>2, <1>3, <1>7, <2>1
    <3>3. \A m \in Nodes : m # NULL BY DEF Nodes, NULL
    <3>4. next' = [m \in Nodes |-> IF m = qn THEN NULL
                     ELSE IF n > 0 /\ m = c[n] THEN qn ELSE next[m]]
      BY <1>7, <3>1, <3>2, <3>3 DEF AppendNode
    <3>5. prev' = [m \in Nodes |-> IF m = qn THEN IF n = 0 THEN NULL ELSE c[n]
                                   ELSE prev[m]]
      BY <3>1, <3>2 DEF AppendNode, FieldTypes
    <3>6. front' = [front EXCEPT ![k] = IF n = 0 THEN qn ELSE front[k]]
      <4>1. back[k] = NULL <=> n = 0 BY <1>7, <3>2
      <4>2. CASE n = 0 BY <3>1, <4>1, <4>2 DEF AppendNode
      <4>3. CASE n # 0
        <5>1. front' = front BY <3>1, <4>1, <4>3 DEF AppendNode
        <5> QED BY <4>3, <5>1 DEF FieldTypes
      <4> QED BY <4>2, <4>3
    <3>7. back' = [back EXCEPT ![k] = qn] BY <3>1 DEF AppendNode
    <3> QED BY <1>2, <2>1, <3>4, <3>5, <3>6, <3>7
  <2>2. CASE n # len
    <3>1. n + 1 \in 1 .. len /\ n < len BY <1>2, <1>7, <2>2
    <3>2. /\ current = c[n + 1] /\ current # NULL /\ current \in Nodes
          /\ current # qn
      BY <1>2, <1>4, <1>8, <2>2, <3>1
    <3>3. InsertNode(k, qn, current) BY <1>6, <3>2
    <3>4. /\ prev[current] = IF n = 0 THEN NULL ELSE c[n]
          /\ n > 0 => c[n] # NULL
      <4>1. prev[c[n + 1]] = IF n + 1 = 1 THEN NULL ELSE c[(n + 1) - 1]
        BY <1>3, <3>1
      <4>2. (n + 1 = 1 <=> n = 0) /\ (n + 1) - 1 = n /\ (n > 0 => n \in 1 .. len)
        BY <1>2, <1>7
      <4> QED BY <1>2, <3>2, <4>1, <4>2
    <3>5. \A m \in Nodes : m # NULL BY DEF Nodes, NULL
    <3>6. next' = [m \in Nodes |-> IF m = qn THEN c[n + 1]
                     ELSE IF n > 0 /\ m = c[n] THEN qn ELSE next[m]]
      BY <1>7, <3>2, <3>3, <3>4, <3>5 DEF InsertNode
    <3>7. prev' = [m \in Nodes |-> IF m = qn THEN IF n = 0 THEN NULL ELSE c[n]
                     ELSE IF m = c[n + 1] THEN qn ELSE prev[m]]
      BY <3>2, <3>3, <3>4 DEF InsertNode, FieldTypes
    <3>8. front' = [front EXCEPT ![k] = IF n = 0 THEN qn ELSE front[k]]
      <4>1. prev[current] = NULL <=> n = 0 BY <1>7, <3>4
      <4>2. CASE n = 0 BY <3>3, <4>1, <4>2 DEF InsertNode
      <4>3. CASE n # 0
        <5>1. front' = front BY <3>3, <4>1, <4>3 DEF InsertNode
        <5> QED BY <4>3, <5>1 DEF FieldTypes
      <4> QED BY <4>2, <4>3
    <3>9. back' = [back EXCEPT ![k] = back[k]]
      BY <3>3 DEF InsertNode, FieldTypes
    <3> QED BY <1>2, <2>2, <3>1, <3>6, <3>7, <3>8, <3>9
  <2> QED BY <2>1, <2>2
<1>10. FieldTypes'
  <2>1. \A m : n > 0 /\ m = c[n] => m \in Links BY <1>2, <1>7
  <2>2. n < len => c[n + 1] \in Links BY <1>2, <1>7
  <2>3. n > 0 => c[n] \in Links BY <1>2, <1>7
  <2>4. NULL \in Links BY DEF Links
  <2>5. next' \in [Nodes -> Links]
    BY <1>2, <1>5, <1>7, <1>9, <2>2, <2>4 DEF FieldTypes
  <2>6. prev' \in [Nodes -> Links]
    BY <1>2, <1>5, <1>7, <1>9, <2>3, <2>4 DEF FieldTypes
  <2>7. front' \in [QueueNames -> Links] /\ back' \in [QueueNames -> Links]
    BY <1>5, <1>9 DEF FieldTypes
  <2>8. data' \in [Nodes -> Data \cup {NULL}] /\ g_free_qnodes' \in Links
    BY <1>5, <1>6 DEF FieldTypes
  <2> QED BY <2>5, <2>6, <2>7, <2>8 DEF FieldTypes
<1> DEFINE t == Inserted(c, n, qn)
           s == Tail(f)
           M == [L EXCEPT ![NULL] = s, ![k] = t]
<1>11. /\ t \in Seq(Nodes) /\ Len(t) = len + 1
       /\ \A i \in 1 .. n : t[i] = c[i]
       /\ t[n + 1] = qn
       /\ \A i \in n + 2 .. len + 1 : t[i] = c[i - 1]
  <2>1. c \in Seq(Nodes) /\ n \in 0 .. Len(c) /\ qn \in Nodes
    BY <1>2, <1>5, <1>7
  <2>2. t \in Seq(Nodes) /\ Len(t) = len + 1
    BY <2>1, InsertedFacts
  <2>3. \A i \in 1 .. n : t[i] = c[i]
    BY <2>1, InsertedFacts
  <2>4. t[n + 1] = qn
    BY <2>1, InsertedFacts
  <2>5. \A i \in n + 2 .. len + 1 : t[i] = c[i - 1]
    BY <2>1, InsertedFacts
  <2> QED BY <2>2, <2>3, <2>4, <2>5
<1>12. Distinct(t) /\ \A m : Holds(t, m) <=> Holds(c, m) \/ m = qn
  BY <1>2, <1>5, <1>7, <1>8, InsertedHolds
<1>13. /\ s \in Seq(Nodes) /\ Len(s) = Len(f) - 1
       /\ \A i \in 1 .. Len(f) - 1 : s[i] = f[i + 1]
  BY <1>2, <1>5, HeadTailProperties, EmptySeq
<1>14. Distinct(s) /\ \A m : Holds(s, m) <=> Holds(f, m) /\ m # qn
  <2>1. f # <<>> /\ Head(f) = qn BY <1>2, <1>5 DEF qn
  <2> QED BY <1>2, <2>1, TailHolds
<1> HIDE DEF t, s
<1>15. /\ M[NULL] = s /\ M[k] = t
       /\ \A h \in Heads : h # NULL /\ h # k => M[h] = L[h]
  BY <1>1 DEF Partition
<1>16. Partition(M)
  <2>1. Holds(L[NULL], qn) BY <1>8 DEF f
  <2>2. \A m : Holds(s, m) <=> Holds(L[NULL], m) /\ m # qn BY <1>14 DEF f
  <2>3. \A m : Holds(t, m) <=> Holds(L[k], m) \/ m = qn BY <1>12 DEF c
  <2> QED BY <1>1, <1>5, <1>11, <1>12, <1>13, <1>14, <2>1, <2>2, <2>3, NodeMoves
<1> HIDE DEF M
<1>17. ASSUME NEW m \in Nodes, ~Holds(c, m), m # qn
       PROVE  next'[m] = next[m] /\ prev'[m] = prev[m] /\ data'[m] = data[m]
  <2>1. ~(n > 0 /\ m = c[n]) /\ ~(n < len /\ m = c[n + 1])
    BY <1>2, <1>7, <1>17 DEF Holds
  <2>2. data'[m] = data[m] BY <1>6, <1>17 DEF FieldTypes
  <2> QED BY <1>9, <1>17, <2>1, <2>2
<1>18. Path(next', g_free_qnodes', s)
  <2>1. g_free_qnodes' = IF Len(s) = 0 THEN NULL ELSE s[1]
    BY <1>2, <1>5, <1>6, <1>13
  <2>2. ASSUME NEW i \in 1 .. Len(s)
        PROVE  next'[s[i]] = IF i = Len(s) THEN NULL ELSE s[i + 1]
    <3>1. i + 1 \in 1 .. Len(f) /\ s[i] = f[i + 1] /\ s[i] \in Nodes
      BY <1>2, <1>13
    <3>2. ~Holds(c, s[i]) /\ s[i] # qn
      <4>1. Holds(s, s[i]) BY DEF Holds
      <4> QED BY <1>2, <1>14, <4>1
    <3>3. next'[s[i]] = next[f[i + 1]] BY <1>17, <3>1, <3>2
    <3>4. next[f[i + 1]] = IF i + 1 = Len(f) THEN NULL ELSE f[(i + 1) + 1]
      BY <1>3, <3>1 DEF Path
    <3>5. i # Len(s) => s[i + 1] = f[(i + 1) + 1]
      BY <1>2, <1>13
    <3>6. i + 1 = Len(f) <=> i = Len(s) BY <1>2, <1>13
    <3> QED BY <3>3, <3>4, <3>5, <3>6
  <2> QED BY <2>1, <2>2 DEF Path
<1>19. /\ \A i \in 1 .. n : i \in 1 .. len /\ (i = n <=> c[i] = c[n])
       /\ \A i \in 1 .. len : i # n => c[i] # c[n] \/ n = 0
       /\ \A i \in 1 .. len : i # n + 1 => c[i] # c[n + 1] \/ n = len
  <2>1. n > 0 => n \in 1 .. len BY <1>2, <1>7
  <2>2. n # len => n + 1 \in 1 .. len BY <1>2, <1>7
  <2>3. \A i \in 1 .. n : i \in 1 .. len BY <1>2, <1>7
  <2>4. n \in Nat BY <1>7
  <2> QED BY <1>2, <2>1, <2>2, <2>3, <2>4 DEF Distinct
<1>20. ASSUME NEW i \in 1 .. len + 1
       PROVE  /\ next'[t[i]] = IF i = len + 1 THEN NULL ELSE t[i + 1]
              /\ prev'[t[i]] = IF i = 1 THEN NULL ELSE t[i - 1]
              /\ data'[t[i]] \in Data
  <2>1. CASE i = n + 1
    <3>1. t[i] = qn BY <1>11, <2>1
    <3>2. next'[qn] = IF n = len THEN NULL ELSE c[n + 1]
      BY <1>5, <1>9
    <3>3. i # len + 1 => t[i + 1] = c[n + 1]
      <4>1. ASSUME i # len + 1
            PROVE  i + 1 \in n + 2 .. len + 1 /\ (i + 1) - 1 = n + 1
        BY <1>2, <1>7, <2>1, <4>1
      <4> QED BY <1>11, <4>1
    <3>4. prev'[qn] = IF n = 0 THEN NULL ELSE c[n]
      BY <1>5, <1>9
    <3>5. i # 1 => t[i - 1] = c[n]
      BY <1>2, <1>7, <1>11, <2>1
    <3>6. data'[qn] = d BY <1>5, <1>6 DEF FieldTypes
    <3>7. (i = len + 1 <=> n = len) /\ (i = 1 <=> n = 0)
      BY <1>2, <1>7, <2>1
    <3> QED BY <3>1, <3>2, <3>3, <3>4, <3>5, <3>6, <3>7
  <2>2. CASE i < n + 1
    <3>1. i \in 1 .. n /\ i \in 1 .. len /\ t[i] = c[i] /\ n > 0 /\ i # n + 1
      BY <1>2, <1>7, <1>11, <2>2
    <3>2. /\ c[i] \in Nodes /\ c[i] # qn /\ c[i] # NULL
          /\ data[c[i]] \in Data
      BY <1>2, <1>3, <1>8, <3>1
    <3>3. data'[c[i]] = data[c[i]] BY <1>6, <3>2 DEF FieldTypes
    <3>4. prev'[c[i]] = prev[c[i]]
      <4>1. ~(n < len /\ c[i] = c[n + 1]) BY <1>2, <1>7, <1>19, <3>1
      <4> QED BY <1>9, <3>2, <4>1
    <3>5. prev[c[i]] = IF i = 1 THEN NULL ELSE c[i - 1] BY <1>3, <3>1
    <3>6. i # 1 => t[i - 1] = c[i - 1]
      <4>1. ASSUME i # 1 PROVE i - 1 \in 1 .. n BY <1>7, <3>1, <4>1
      <4> QED BY <1>11, <4>1
    <3>7. next'[c[i]] = t[i + 1]
      <4>1. CASE i = n
        <5>1. next'[c[i]] = qn BY <1>9, <3>1, <3>2, <4>1
        <5>2. t[i + 1] = qn BY <1>11, <4>1
        <5> QED BY <5>1, <5>2
      <4>2. CASE i # n
        <5>1. c[i] # c[n] BY <1>19, <3>1, <4>2
        <5>2. next'[c[i]] = next[c[i]] BY <1>9, <3>2, <5>1
        <5>3. i # len /\ i + 1 \in 1 .. n BY <1>2, <1>7, <3>1, <4>2
        <5>4. next[c[i]] = c[i + 1] BY <1>3, <3>1, <5>3 DEF Path
        <5>5. t[i + 1] = c[i + 1] BY <1>11, <5>3
        <5> QED BY <5>2, <5>4, <5>5
      <4> QED BY <4>1, <4>2
    <3>8. i # len + 1 BY <1>2, <3>1
    <3> QED BY <3>1, <3>2, <3>3, <3>4, <3>5, <3>6, <3>7, <3>8
  <2>3. CASE i > n + 1
    <3>1. /\ i \in n + 2 .. len + 1 /\ i - 1 \in 1 .. len /\ t[i] = c[i - 1]
          /\ i - 1 # n /\ i # 1 /\ (i - 1) + 1 = i /\ n # len
      BY <1>2, <1>7, <1>11, <2>3
    <3>2. /\ c[i - 1] \in Nodes /\ c[i - 1] # qn
          /\ data[c[i - 1]] \in Data
      BY <1>2, <1>3, <1>8, <3>1
    <3>3. data'[c[i - 1]] = data[c[i - 1]] BY <1>6, <3>2 DEF FieldTypes
    <3>4. next'[c[i - 1]] = next[c[i - 1]]
      <4>1. ~(n > 0 /\ c[i - 1] = c[n]) BY <1>19, <1>7, <3>1
      <4> QED BY <1>9, <3>2, <4>1
    <3>5. next[c[i - 1]] = IF i - 1 = len THEN NULL ELSE c[i]
      BY <1>3, <3>1 DEF Path
    <3>6. i # len + 1 => t[i + 1] = c[i]
      <4>1. ASSUME i # len + 1 PROVE i + 1 \in n + 2 .. len + 1 /\ (i + 1) - 1 = i
        BY <1>2, <1>7, <3>1, <4>1
      <4> QED BY <1>11, <4>1
    <3>7. i - 1 = len <=> i = len + 1 BY <1>2
    <3>8. prev'[c[i - 1]] = t[i - 1]
      <4>1. CASE i = n + 2
        <5>1. i - 1 = n + 1 /\ n < len BY <1>7, <1>2, <3>1, <4>1
        <5>2. prev'[c[i - 1]] = qn BY <1>9, <3>2, <5>1
        <5> QED BY <1>11, <5>1, <5>2
      <4>2. CASE i # n + 2
        <5>1. i - 1 # n + 1 /\ i - 1 # 1 /\ i - 1 \in n + 2 .. len + 1
          BY <1>7, <3>1, <4>2
        <5>2. c[i - 1] # c[n + 1] BY <1>19, <3>1, <5>1
        <5>3. prev'[c[i - 1]] = prev[c[i - 1]] BY <1>9, <3>2, <5>2
        <5>4. prev[c[i - 1]] = c[(i - 1) - 1] BY <1>3, <3>1, <5>1
        <5>5. t[i - 1] = c[(i - 1) - 1] BY <1>11, <5>1
        <5> QED BY <5>3, <5>4, <5>5
      <4> QED BY <4>1, <4>2
    <3> QED BY <3>1, <3>2, <3>3, <3>4, <3>5, <3>6, <3>7, <3>8
  <2> QED BY <1>7, <2>1, <2>2, <2>3
<1>21. front'[k] = t[1] /\ back'[k] = t[len + 1]
  <2>1. front'[k] = t[1]
    <3>1. CASE n = 0 BY <1>9, <1>11, <3>1 DEF FieldTypes
    <3>2. CASE n # 0
      <4>1. 1 \in 1 .. n /\ len # 0 BY <1>2, <1>7, <3>2
      <4>2. t[1] = c[1] /\ front[k] = c[1] BY <1>3, <1>11, <4>1 DEF Path
      <4> QED BY <1>9, <3>2, <4>2 DEF FieldTypes
    <3> QED BY <3>1, <3>2
  <2>2. back'[k] = t[len + 1]
    <3>1. CASE n = len BY <1>9, <1>11, <3>1 DEF FieldTypes
    <3>2. CASE n # len
      <4>1. len + 1 \in n + 2 .. len + 1 /\ (len + 1) - 1 = len /\ len # 0
        BY <1>2, <1>7, <3>2
      <4>2. t[len + 1] = c[len] /\ back[k] = c[len] BY <1>3, <1>11, <4>1
      <4> QED BY <1>9, <3>2, <4>2 DEF FieldTypes
    <3> QED BY <3>1, <3>2
  <2> QED BY <2>1, <2>2
<1>22. ASSUME NEW h \in QueueNames, h # k
       PROVE  /\ Path(next', front'[h], L[h])
              /\ back'[h] = IF Len(L[h]) = 0 THEN NULL ELSE L[h][Len(L[h])]
              /\ \A i \in 1 .. Len(L[h]) :
                   /\ prev'[L[h][i]] = IF i = 1 THEN NULL ELSE L[h][i - 1]
                   /\ data'[L[h][i]] \in Data
  <2>1. h \in Heads /\ h # NULL /\ First(h) = front[h]
    BY QueuesAssumption DEF Heads, First
  <2>2. front'[h] = front[h] /\ back'[h] = back[h]
    BY <1>9, <1>22 DEF FieldTypes
  <2>3. \A i \in 1 .. Len(L[h]) :
          /\ next'[L[h][i]] = next[L[h][i]] /\ prev'[L[h][i]] = prev[L[h][i]]
          /\ data'[L[h][i]] = data[L[h][i]]
    <3>1. ASSUME NEW i \in 1 .. Len(L[h])
          PROVE  L[h][i] \in Nodes /\ ~Holds(c, L[h][i]) /\ L[h][i] # qn
      <4>1. L[h][i] \in Nodes BY <2>1, PartitionFacts
      <4>2. Holds(L[h], L[h][i]) BY DEF Holds
      <4> QED BY <1>1, <1>8, <1>22, <2>1, <4>1, <4>2 DEF Partition, c, f
    <3> QED BY <1>17, <3>1
  <2>4. /\ Path(next, front[h], L[h])
        /\ back[h] = IF Len(L[h]) = 0 THEN NULL ELSE L[h][Len(L[h])]
        /\ \A i \in 1 .. Len(L[h]) :
             /\ prev[L[h][i]] = IF i = 1 THEN NULL ELSE L[h][i - 1]
             /\ data[L[h][i]] \in Data
    BY <2>1 DEF Threaded
  <2>5. Path(next', front[h], L[h]) BY <2>3, <2>4 DEF Path
  <2> QED BY <2>2, <2>3, <2>4, <2>5
<1>23. Threaded(M)'
  <2>1. ASSUME NEW h \in Heads PROVE Path(next', First(h)', M[h])
    <3>1. CASE h = NULL
      <4>1. First(h)' = g_free_qnodes' BY <3>1 DEF First
      <4> QED BY <1>15, <1>18, <3>1, <4>1
    <3>2. CASE h = k
      <4>1. First(h)' = front'[k] BY <1>1, <3>2 DEF First
      <4>2. Path(next', front'[k], t)
        BY <1>2, <1>11, <1>20, <1>21 DEF Path
      <4> QED BY <1>15, <3>2, <4>1, <4>2
    <3>3. CASE h # NULL /\ h # k
      <4>1. First(h)' = front'[h] /\ h \in QueueNames
        BY <3>3 DEF First, Heads
      <4> QED BY <1>15, <1>22, <3>3, <4>1
    <3> QED BY <3>1, <3>2, <3>3
  <2>2. ASSUME NEW h \in QueueNames
        PROVE  /\ back'[h] = IF Len(M[h]) = 0 THEN NULL ELSE M[h][Len(M[h])]
               /\ \A i \in 1 .. Len(M[h]) :
                    /\ prev'[M[h][i]] = IF i = 1 THEN NULL ELSE M[h][i - 1]
                    /\ data'[M[h][i]] \in Data
    <3>1. CASE h = k
      BY <1>2, <1>11, <1>15, <1>20, <1>21, <3>1
    <3>2. CASE h # k
      <4>1. h # NULL /\ h \in Heads BY QueuesAssumption DEF Heads
      <4>2. M[h] = L[h] BY <1>15, <3>2, <4>1
      <4> QED BY <1>22, <3>2, <4>2
    <3> QED BY <3>1, <3>2
  <2> QED BY <2>1, <2>2 DEF Threaded
<1> QED BY <1>4, <1>5, <1>6, <1>10, <1>16, <1>23 DEF M, t, s, c, f, qn

\* Giving the first node of a queue back.
LEMMA DequeSteps ==
  ASSUME FieldTypes, NEW L, Partition(L), Threaded(L),
         NEW k \in QueueNames, _deque(k)
  PROVE  /\ Len(L[k]) > 0
         /\ data' = data
         /\ FieldTypes'
         /\ LET M == [L EXCEPT ![k] = Tail(L[k]),
                               ![NULL] = Inserted(L[NULL], 0, L[k][1])]
            IN  Partition(M) /\ Threaded(M)'
<1> DEFINE c == L[k]
           len == Len(c)
           f == L[NULL]
           qn == c[1]
<1>0. \A m \in Nat :
        m > 0 /\ m # 1 => /\ 2 \in 1 .. m /\ (m - 1) + 1 = m
                          /\ 1 \in 1 .. m - 1 /\ m - 1 \in 1 .. m - 1
  OBVIOUS
<1>1. /\ NULL \in Heads /\ k \in Heads /\ k # NULL
      /\ First(NULL) = g_free_qnodes /\ First(k) = front[k]
  BY QueuesAssumption DEF Heads, First
<1>2. /\ c \in Seq(Nodes) /\ len \in Nat /\ Distinct(c)
      /\ \A i \in 1 .. len : c[i] \in Nodes /\ c[i] \in Links /\ c[i] # NULL
      /\ f \in Seq(Nodes) /\ Len(f) \in Nat /\ Distinct(f)
      /\ \A i \in 1 .. Len(f) : f[i] \in Nodes /\ f[i] \in Links /\ f[i] # NULL
      /\ \A m : ~(Holds(c, m) /\ Holds(f, m))
  BY <1>1, PartitionFacts DEF Partition
<1>3. /\ Path(next, g_free_qnodes, f) /\ Path(next, front[k], c)
      /\ back[k] = IF len = 0 THEN NULL ELSE c[len]
      /\ \A i \in 1 .. len : /\ prev[c[i]] = IF i = 1 THEN NULL ELSE c[i - 1]
                             /\ data[c[i]] \in Data
  BY <1>1 DEF Threaded
<1> HIDE DEF c, f
<1>4. /\ len > 0 /\ front[k] = qn /\ qn \in Nodes /\ qn # NULL /\ qn \in Links
      /\ next[qn] = IF len = 1 THEN NULL ELSE c[2]
      /\ next[qn] = NULL <=> len = 1
      /\ next[qn] \in Links
  <2>1. front[k] # NULL BY DEF _deque
  <2>2. len > 0 /\ front[k] = qn BY <1>2, <1>3, <2>1 DEF Path
  <2>3. 1 \in 1 .. len BY <1>2, <2>2
  <2>4. next[qn] = IF 1 = len THEN NULL ELSE c[1 + 1] BY <1>3, <2>3 DEF Path
  <2>5. len # 1 => 2 \in 1 .. len
    <3>1. len \in Nat /\ len > 0 BY <1>2, <2>2
    <3> QED BY <1>0, <3>1
  <2>6. NULL \in Links BY DEF Links
  <2> QED BY <1>2, <2>2, <2>3, <2>4, <2>5, <2>6
<1> HIDE DEF qn
<1>5. /\ front' = [front EXCEPT ![k] = next[qn]]
      /\ back' = [back EXCEPT ![k] = IF len = 1 THEN NULL ELSE back[k]]
      /\ prev' = [n \in Nodes |-> IF n = qn \/ n = next[qn] THEN NULL ELSE prev[n]]
      /\ next' = [next EXCEPT ![qn] = g_free_qnodes]
      /\ g_free_qnodes' = qn
      /\ data' = data
  <2>1. back' = [back EXCEPT ![k] = IF len = 1 THEN NULL ELSE back[k]]
    <3>1. CASE len = 1 BY <1>4, <3>1 DEF _deque
    <3>2. CASE len # 1
      <4>1. back' = back BY <1>4, <3>2 DEF _deque
      <4> QED BY <3>2, <4>1 DEF FieldTypes
    <3> QED BY <3>1, <3>2
  <2> QED BY <1>4, <2>1 DEF _deque
<1>6. FieldTypes'
  BY <1>4, <1>5 DEF FieldTypes, Links
<1> DEFINE s == Tail(c)
           t == Inserted(f, 0, qn)
           M == [L EXCEPT ![k] = s, ![NULL] = t]
<1>7. /\ t \in Seq(Nodes) /\ Len(t) = Len(f) + 1
      /\ t[1] = qn
      /\ \A i \in 2 .. Len(f) + 1 : t[i] = f[i - 1]
  <2>1. f \in Seq(Nodes) /\ 0 \in 0 .. Len(f) /\ qn \in Nodes
    BY <1>2, <1>4
  <2>2. t \in Seq(Nodes) /\ Len(t) = Len(f) + 1
    BY <2>1, InsertedFacts
  <2>3. t[0 + 1] = qn
    BY <2>1, InsertedFacts
  <2>4. \A i \in 0 + 2 .. Len(f) + 1 : t[i] = f[i - 1]
    BY <2>1, InsertedFacts
  <2> HIDE DEF t
  <2> QED BY <2>2, <2>3, <2>4
<1>8. Holds(c, qn) /\ ~Holds(f, qn)
  <2>1. 1 \in 1 .. len BY <1>2, <1>4
  <2>2. Holds(c, qn) BY <2>1 DEF Holds, qn
  <2> QED BY <1>2, <2>2
<1>9. Distinct(t) /\ \A m : Holds(t, m) <=> Holds(f, m) \/ m = qn
  <2>1. f \in Seq(Nodes) /\ 0 \in 0 .. Len(f) /\ qn \in Nodes
    BY <1>2, <1>4
  <2> QED BY <1>2, <1>8, <2>1, InsertedHolds
<1>10. /\ s \in Seq(Nodes) /\ Len(s) = len - 1
       /\ \A i \in 1 .. len - 1 : s[i] = c[i + 1]
  BY <1>2, <1>4, HeadTailProperties, EmptySeq
<1>11. Distinct(s) /\ \A m : Holds(s, m) <=> Holds(c, m) /\ m # qn
  <2>1. c # <<>> /\ Head(c) = qn BY <1>2, <1>4 DEF qn
  <2> QED BY <1>2, <2>1, TailHolds
<1> HIDE DEF t, s
<1>12. /\ M[NULL] = t /\ M[k] = s
       /\ \A h \in Heads : h # NULL /\ h # k => M[h] = L[h]
  BY <1>1 DEF Partition
<1>13. Partition(M)
  <2>1. Holds(L[k], qn) BY <1>8 DEF c
  <2>2. \A m : Holds(s, m) <=> Holds(L[k], m) /\ m # qn BY <1>11 DEF c
  <2>3. \A m : Holds(t, m) <=> Holds(L[NULL], m) \/ m = qn BY <1>9 DEF f
  <2> QED BY <1>1, <1>4, <1>7, <1>9, <1>10, <1>11, <2>1, <2>2, <2>3, NodeMoves
<1> HIDE DEF M
<1>14. ASSUME NEW m \in Nodes, m # qn PROVE next'[m] = next[m]
  BY <1>5, <1>14 DEF FieldTypes
<1>15. Path(next', g_free_qnodes', t)
  <2>1. ASSUME NEW i \in 1 .. Len(t)
        PROVE  next'[t[i]] = IF i = Len(t) THEN NULL ELSE t[i + 1]
    <3>1. CASE i = 1
      <4>1. next'[t[i]] = g_free_qnodes
        BY <1>4, <1>5, <1>7, <3>1 DEF FieldTypes
      <4>2. g_free_qnodes = IF Len(f) = 0 THEN NULL ELSE f[1]
        BY <1>3 DEF Path
      <4>3. Len(f) # 0 => t[2] = f[1]
        <5>1. ASSUME Len(f) # 0 PROVE 2 \in 2 .. Len(f) + 1 BY <1>2, <5>1
        <5> QED BY <1>7, <5>1
      <4> QED BY <1>2, <1>7, <3>1, <4>1, <4>2, <4>3
    <3>2. CASE i # 1
      <4>1. /\ i \in 2 .. Len(f) + 1 /\ i - 1 \in 1 .. Len(f)
            /\ (i - 1) + 1 = i /\ (i + 1) - 1 = i
            /\ (i - 1 = Len(f) <=> i = Len(t))
            /\ i # Len(t) => i + 1 \in 2 .. Len(f) + 1
        BY <1>2, <1>7, <3>2
      <4>2. t[i] = f[i - 1] /\ (i # Len(t) => t[i + 1] = f[i])
        BY <1>7, <4>1
      <4>3. Holds(f, f[i - 1]) BY <4>1 DEF Holds
      <4>4. f[i - 1] \in Nodes /\ f[i - 1] # qn BY <1>2, <1>8, <4>1, <4>3
      <4>5. next[f[i - 1]] = IF i - 1 = Len(f) THEN NULL ELSE f[(i - 1) + 1]
        BY <1>3, <4>1 DEF Path
      <4> QED BY <1>14, <4>1, <4>2, <4>4, <4>5
    <3> QED BY <3>1, <3>2
  <2> QED BY <1>2, <1>5, <1>7, <2>1 DEF Path
<1>16. ASSUME NEW i \in 1 .. Len(s)
       PROVE  /\ next'[s[i]] = IF i = Len(s) THEN NULL ELSE s[i + 1]
              /\ prev'[s[i]] = IF i = 1 THEN NULL ELSE s[i - 1]
              /\ data'[s[i]] \in Data
  <2>1. /\ i + 1 \in 1 .. len /\ i \in 1 .. len - 1 /\ s[i] = c[i + 1]
        /\ (i + 1 = len <=> i = Len(s)) /\ i + 1 # 1 /\ (i + 1) - 1 = i
        /\ 1 \in 1 .. len /\ (i # Len(s) => i + 1 \in 1 .. len - 1)
    BY <1>2, <1>4, <1>10
  <2>2. s[i] \in Nodes /\ s[i] # qn
    BY <1>2, <2>1 DEF Distinct, qn
  <2>3. next'[s[i]] = IF i = Len(s) THEN NULL ELSE s[i + 1]
    <3>1. next[c[i + 1]] = IF i + 1 = len THEN NULL ELSE c[(i + 1) + 1]
      BY <1>3, <2>1 DEF Path
    <3>2. i # Len(s) => s[i + 1] = c[(i + 1) + 1] BY <1>10, <2>1
    <3> QED BY <1>14, <2>1, <2>2, <3>1, <3>2
  <2>4. prev'[s[i]] = IF i = 1 THEN NULL ELSE s[i - 1]
    <3>1. CASE i = 1
      <4>1. s[i] = next[qn]
        <5>1. len # 1 BY <1>2, <2>1, <3>1
        <5> QED BY <1>4, <2>1, <3>1, <5>1
      <4> QED BY <1>5, <2>2, <3>1, <4>1
    <3>2. CASE i # 1
      <4>1. i - 1 \in 1 .. len - 1 /\ (i - 1) + 1 = i /\ i \in 1 .. len
        BY <1>2, <2>1, <3>2
      <4>2. len # 1 /\ 2 \in 1 .. len /\ i + 1 # 2 BY <1>2, <2>1, <3>2
      <4>3. c[i + 1] # c[2] BY <1>2, <2>1, <4>2 DEF Distinct
      <4>4. s[i] # next[qn] BY <1>4, <2>1, <4>2, <4>3
      <4>5. prev'[s[i]] = prev[s[i]] BY <1>5, <2>2, <4>4
      <4>6. prev[c[i + 1]] = c[(i + 1) - 1] BY <1>3, <2>1
      <4>7. s[i - 1] = c[i] BY <1>10, <4>1
      <4> QED BY <2>1, <3>2, <4>5, <4>6, <4>7
    <3> QED BY <3>1, <3>2
  <2>5. data'[s[i]] \in Data BY <1>3, <1>5, <2>1
  <2> QED BY <2>3, <2>4, <2>5
<1>17. /\ front'[k] = IF Len(s) = 0 THEN NULL ELSE s[1]
       /\ back'[k] = IF Len(s) = 0 THEN NULL ELSE s[Len(s)]
  <2>1. front'[k] = next[qn] /\ back'[k] = IF len = 1 THEN NULL ELSE back[k]
    BY <1>5 DEF FieldTypes
  <2>2. Len(s) = 0 <=> len = 1 BY <1>2, <1>10
  <2>3. ASSUME len # 1 PROVE s[1] = c[2] /\ s[Len(s)] = c[len]
    <3>1. len \in Nat /\ len > 0 BY <1>2, <1>4
    <3>2. 1 \in 1 .. len - 1 /\ len - 1 \in 1 .. len - 1 /\ (len - 1) + 1 = len
      BY <1>0, <2>3, <3>1
    <3> QED BY <1>10, <3>2
  <2> QED BY <1>3, <1>4, <2>1, <2>2, <2>3
<1>18. ASSUME NEW h \in QueueNames, h # k
       PROVE  /\ Path(next', front'[h], L[h])
              /\ back'[h] = IF Len(L[h]) = 0 THEN NULL ELSE L[h][Len(L[h])]
              /\ \A i \in 1 .. Len(L[h]) :
                   /\ prev'[L[h][i]] = IF i = 1 THEN NULL ELSE L[h][i - 1]
                   /\ data'[L[h][i]] \in Data
  <2>1. h \in Heads /\ h # NULL /\ First(h) = front[h]
    BY QueuesAssumption DEF Heads, First
  <2>2. front'[h] = front[h] /\ back'[h] = back[h]
    BY <1>5, <1>18 DEF FieldTypes
  <2>3. \A i \in 1 .. Len(L[h]) :
          /\ next'[L[h][i]] = next[L[h][i]] /\ prev'[L[h][i]] = prev[L[h][i]]
          /\ data'[L[h][i]] = data[L[h][i]]
    <3>1. ASSUME NEW i \in 1 .. Len(L[h])
          PROVE  L[h][i] \in Nodes /\ L[h][i] # qn /\ L[h][i] # next[qn]
      <4>1. L[h][i] \in Nodes /\ L[h][i] # NULL BY <2>1, PartitionFacts
      <4>2. Holds(L[h], L[h][i]) BY DEF Holds
      <4>3. ~Holds(c, L[h][i]) BY <1>1, <1>18, <2>1, <4>2 DEF Partition, c
      <4>4. L[h][i] # qn BY <1>8, <4>3
      <4>5. len # 1 => Holds(c, c[2])
        <5>1. len \in Nat /\ len > 0 BY <1>2, <1>4
        <5>2. ASSUME len # 1 PROVE 2 \in 1 .. len BY <1>0, <5>1, <5>2
        <5> QED BY <5>2 DEF Holds
      <4> QED BY <1>4, <4>1, <4>3, <4>4, <4>5
    <3> QED BY <1>5, <1>14, <3>1
  <2>4. /\ Path(next, front[h], L[h])
        /\ back[h] = IF Len(L[h]) = 0 THEN NULL ELSE L[h][Len(L[h])]
        /\ \A i \in 1 .. Len(L[h]) :
             /\ prev[L[h][i]] = IF i = 1 THEN NULL ELSE L[h][i - 1]
             /\ data[L[h][i]] \in Data
    BY <2>1 DEF Threaded
  <2>5. Path(next', front[h], L[h]) BY <2>3, <2>4 DEF Path
  <2> QED BY <2>2, <2>3, <2>4, <2>5
<1>19. Threaded(M)'
  <2>1. ASSUME NEW h \in Heads PROVE Path(next', First(h)', M[h])
    <3>1. CASE h = NULL
      <4>1. First(h)' = g_free_qnodes' BY <3>1 DEF First
      <4> QED BY <1>12, <1>15, <3>1, <4>1
    <3>2. CASE h = k
      <4>1. First(h)' = front'[k] BY <1>1, <3>2 DEF First
      <4>2. Path(next', front'[k], s)
        BY <1>16, <1>17 DEF Path
      <4> QED BY <1>12, <3>2, <4>1, <4>2
    <3>3. CASE h # NULL /\ h # k
      <4>1. First(h)' = front'[h] /\ h \in QueueNames
        BY <3>3 DEF First, Heads
      <4> QED BY <1>12, <1>18, <3>3, <4>1
    <3> QED BY <3>1, <3>2, <3>3
  <2>2. ASSUME NEW h \in QueueNames
        PROVE  /\ back'[h] = IF Len(M[h]) = 0 THEN NULL ELSE M[h][Len(M[h])]
               /\ \A i \in 1 .. Len(M[h]) :
                    /\ prev'[M[h][i]] = IF i = 1 THEN NULL ELSE M[h][i - 1]
                    /\ data'[M[h][i]] \in Data
    <3>1. CASE h = k
      BY <1>12, <1>16, <1>17, <3>1
    <3>2. CASE h # k
      <4>1. h # NULL /\ h \in Heads BY QueuesAssumption DEF Heads
      <4>2. M[h] = L[h] BY <1>12, <3>2, <4>1
      <4> QED BY <1>18, <3>2, <4>2
    <3> QED BY <3>1, <3>2
  <2> QED BY <2>1, <2>2 DEF Threaded
<1> QED BY <1>4, <1>5, <1>6, <1>13, <1>19 DEF M, t, s, c, f, qn

\* A call keeps the invariant, and so does a step without one.
LEMMA NextInv == IInv /\ [QNext]_qvars => IInv'
<1> SUFFICES ASSUME IInv, [QNext]_qvars PROVE IInv'
  OBVIOUS
<1>1. PICK L : Partition(L) /\ Threaded(L) BY DEF IInv
<1>2. FieldTypes BY DEF IInv
<1>3. ASSUME NEW k \in QueueNames, NEW d \in Data, _enque(k, d) PROVE IInv'
  <2>1. FieldTypes' /\ \E M : Partition(M) /\ Threaded(M)'
    BY <1>1, <1>2, <1>3, EnqueSteps
  <2> QED BY <2>1 DEF IInv, Partition
<1>4. ASSUME NEW k \in QueueNames, _deque(k) PROVE IInv'
  <2>1. FieldTypes' /\ \E M : Partition(M) /\ Threaded(M)'
    BY <1>1, <1>2, <1>4, DequeSteps
  <2> QED BY <2>1 DEF IInv, Partition
<1>5. CASE UNCHANGED qvars
  <2>1. /\ UNCHANGED <<data, next, prev, front, back, g_free_qnodes>>
        /\ \A h : First(h)' = First(h)
    BY <1>5 DEF qvars, First
  <2>2. FieldTypes' BY <1>2, <2>1 DEF FieldTypes
  <2>3. Partition(L)' BY <1>1 DEF Partition
  <2>4. Threaded(L)' BY <1>1, <2>1 DEF Threaded, Path
  <2> QED BY <2>2, <2>3, <2>4 DEF IInv
<1> QED BY <1>3, <1>4, <1>5 DEF QNext

LEMMA Invariance == QSpec => []IInv
BY InitInv, NextInv, PTL DEF QSpec
-----------------------------------------------------------------------------
(* What the invariant says of the lists *)

\* Every node is on the free list or in one queue, and only once, whatever the
\* calls of _enque and _deque: the pool neither leaks nor hands a node out twice.
THEOREM NoNodeEverLost == QSpec => []NoNodeLost
<1>1. IInv => NoNodeLost
  <2> SUFFICES ASSUME IInv, NEW n \in Nodes
      PROVE  Cardinality({p \in (DOMAIN Lists) \X Nodes :
                 p[2] <= Len(Lists[p[1]]) /\ Lists[p[1]][p[2]] = n}) = 1
    BY DEF NoNodeLost
  <2>1. PICK L : Partition(L) /\ Threaded(L) BY DEF IInv
  <2>2. Lists = L /\ DOMAIN Lists = Heads
    <3>1. Lists = L BY <2>1, ListsFound DEF IInv
    <3> QED BY <2>1, <3>1 DEF Partition
  <2>3. PICK h \in Heads : Holds(L[h], n) BY <2>1 DEF Partition
  <2>4. PICK i \in 1 .. Len(L[h]) : L[h][i] = n BY <2>3 DEF Holds
  <2>5. i \in Nodes /\ i <= Len(L[h])
    <3>1. L[h] \in Seq(Nodes) /\ Len(L[h]) \in Nat /\ Distinct(L[h])
      BY <2>1, PartitionFacts
    <3>2. Len(L[h]) <= N_QNODES BY <3>1, NodesFit
    <3> QED BY <3>1, <3>2, QueuesAssumption DEF Nodes
  <2>6. ASSUME NEW g \in Heads, NEW j \in Nodes, j <= Len(L[g]), L[g][j] = n
        PROVE  g = h /\ j = i
    <3>1. j \in 1 .. Len(L[g]) BY <2>6 DEF Nodes
    <3>2. Holds(L[g], n) BY <2>6, <3>1 DEF Holds
    <3>3. g = h BY <2>1, <2>3, <3>2 DEF Partition
    <3>4. Distinct(L[h]) BY <2>1 DEF Partition
    <3> QED BY <2>4, <2>6, <3>1, <3>3, <3>4 DEF Distinct
  <2> DEFINE At == {p \in Heads \X Nodes : p[2] <= Len(L[p[1]]) /\ L[p[1]][p[2]] = n}
  <2>7. <<h, i>> \in At BY <2>4, <2>5
  <2>8. ASSUME NEW p \in At PROVE p = <<h, i>>
    <3>1. PICK g \in Heads, j \in Nodes : p = <<g, j>> OBVIOUS
    <3>2. j <= Len(L[g]) /\ L[g][j] = n BY <3>1
    <3> QED BY <2>6, <3>1, <3>2
  <2>9. At = {<<h, i>>}
    <3> HIDE DEF At
    <3> QED BY <2>7, <2>8
  <2> QED BY <2>2, <2>9, FS_Singleton
<1> QED BY Invariance, <1>1, PTL

\* prev undoes next in every queue and back is its last node, so that inserting
\* in front of a node and appending find the node they relink.
THEOREM AlwaysLinked == QSpec => []WellLinked
<1>1. IInv => WellLinked
  <2> SUFFICES ASSUME IInv, NEW k \in QueueNames
      PROVE  LET c == Chain(next, front[k])
             IN  /\ back[k] = IF c = <<>> THEN NULL ELSE c[Len(c)]
                 /\ \A i \in DOMAIN c :
                      prev[c[i]] = IF i = 1 THEN NULL ELSE c[i - 1]
    BY DEF WellLinked
  <2>1. PICK L : Partition(L) /\ Threaded(L) BY DEF IInv
  <2>2. Chain(next, front[k]) = L[k] BY <2>1, ListsFound DEF IInv
  <2>3. /\ L[k] \in Seq(Nodes) /\ Len(L[k]) \in Nat /\ DOMAIN L[k] = 1 .. Len(L[k])
        /\ L[k] = <<>> <=> Len(L[k]) = 0
    <3>1. k \in Heads BY DEF Heads
    <3> QED BY <2>1, <3>1, PartitionFacts, LenProperties, EmptySeq
  <2> QED BY <2>1, <2>2, <2>3 DEF Threaded
<1> QED BY Invariance, <1>1, PTL
-----------------------------------------------------------------------------
(* The lists implement QueueSpec *)

\* The data of the nodes c.
DataOf(dt, c) == [i \in 1 .. Len(c) |-> dt[c[i]]]

\* The state of QueueSpec, from the lists of the invariant.
LEMMA StateIs ==
  \A L : FieldTypes /\ Partition(L) /\ Threaded(L) =>
    /\ \A k \in QueueNames : /\ Contents(k) = DataOf(data, L[k])
                             /\ Contents(k) \in Seq(Data)
                             /\ Len(Contents(k)) = Len(L[k])
    /\ Len(Chain(next, g_free_qnodes)) = Len(L[NULL])
<1> SUFFICES ASSUME NEW L, FieldTypes, Partition(L), Threaded(L)
    PROVE  /\ \A k \in QueueNames : /\ Contents(k) = DataOf(data, L[k])
                                    /\ Contents(k) \in Seq(Data)
                                    /\ Len(Contents(k)) = Len(L[k])
           /\ Len(Chain(next, g_free_qnodes)) = Len(L[NULL])
  OBVIOUS
<1>1. ASSUME NEW k \in QueueNames
      PROVE  /\ Contents(k) = DataOf(data, L[k])
             /\ Contents(k) \in Seq(Data)
             /\ Len(Contents(k)) = Len(L[k])
  <2>1. Len(L[k]) \in Nat /\ DOMAIN L[k] = 1 .. Len(L[k])
    <3>1. k \in Heads BY DEF Heads
    <3> QED BY <3>1, PartitionFacts, LenProperties
  <2>2. Contents(k) = DataOf(data, L[k])
    <3>1. Chain(next, front[k]) = L[k] BY ListsFound
    <3> QED BY <2>1, <3>1 DEF Contents, DataOf
  <2>3. \A i \in 1 .. Len(L[k]) : data[L[k][i]] \in Data BY DEF Threaded
  <2> QED BY <2>1, <2>2, <2>3 DEF DataOf
<1>2. Chain(next, g_free_qnodes) = L[NULL] BY ListsFound
<1> QED BY <1>1, <1>2

\* The data after a node qn for d is put behind the first n.
LEMMA DataInserted ==
  ASSUME NEW dt, NEW du, NEW c \in Seq(Nodes), NEW n \in 0 .. Len(c),
         NEW qn \in Nodes, NEW d \in Data,
         DataOf(dt, c) \in Seq(Data), Len(DataOf(dt, c)) = Len(c),
         du[qn] = d, \A i \in 1 .. Len(c) : du[c[i]] = dt[c[i]]
  PROVE  DataOf(du, Inserted(c, n, qn)) = Inserted(DataOf(dt, c), n, d)
<1> DEFINE s == DataOf(dt, c)
           t == Inserted(s, n, d)
           cc == Inserted(c, n, qn)
           r == DataOf(du, cc)
<1>1. /\ Len(c) \in Nat /\ n \in Nat
      /\ Len(s) = Len(c) /\ \A i \in 1 .. Len(c) : s[i] = dt[c[i]]
  BY LenProperties DEF DataOf
<1>2. /\ t \in Seq(Data) /\ Len(t) = Len(c) + 1
      /\ \A i \in 1 .. n : t[i] = s[i]
      /\ t[n + 1] = d
      /\ \A i \in n + 2 .. Len(c) + 1 : t[i] = s[i - 1]
  <2>1. s \in Seq(Data) /\ n \in 0 .. Len(s) BY <1>1
  <2> HIDE DEF s
  <2>2. t \in Seq(Data) /\ Len(t) = Len(s) + 1 BY <2>1, InsertedFacts
  <2>3. \A i \in 1 .. n : t[i] = s[i] BY <2>1, InsertedFacts
  <2>4. t[n + 1] = d BY <2>1, InsertedFacts
  <2>5. \A i \in n + 2 .. Len(s) + 1 : t[i] = s[i - 1] BY <2>1, InsertedFacts
  <2> QED BY <1>1, <2>2, <2>3, <2>4, <2>5
<1>3. /\ Len(cc) = Len(c) + 1
      /\ \A i \in 1 .. n : cc[i] = c[i]
      /\ cc[n + 1] = qn
      /\ \A i \in n + 2 .. Len(c) + 1 : cc[i] = c[i - 1]
  <2>1. c \in Seq(Nodes) /\ n \in 0 .. Len(c) /\ qn \in Nodes OBVIOUS
  <2>2. Len(cc) = Len(c) + 1 BY <2>1, InsertedFacts
  <2>3. \A i \in 1 .. n : cc[i] = c[i] BY <2>1, InsertedFacts
  <2>4. cc[n + 1] = qn BY <2>1, InsertedFacts
  <2>5. \A i \in n + 2 .. Len(c) + 1 : Inserted(c, n, qn)[i] = c[i - 1]
    BY ONLY <2>1, InsertedFacts
  <2> QED BY <2>2, <2>3, <2>4, <2>5
<1>4. /\ DOMAIN r = 1 .. Len(c) + 1
      /\ \A i \in 1 .. Len(c) + 1 : r[i] = du[cc[i]]
  BY <1>3 DEF DataOf
<1> HIDE DEF s, t, cc, r
<1>5. ASSUME NEW i \in 1 .. Len(c) + 1 PROVE r[i] = t[i]
  <2>1. CASE i <= n
    <3>1. i \in 1 .. n /\ i \in 1 .. Len(c) BY <1>1, <2>1
    <3> QED BY <1>1, <1>2, <1>3, <1>4, <3>1
  <2>2. CASE i = n + 1 BY <1>2, <1>3, <1>4, <2>2
  <2>3. CASE i > n + 1
    <3>1. i \in n + 2 .. Len(c) + 1 /\ i - 1 \in 1 .. Len(c) BY <1>1, <2>3
    <3>2. t[i] = dt[c[i - 1]] BY <1>1, <1>2, <3>1
    <3>3. cc[i] = c[i - 1] BY <1>3, <3>1
    <3>4. r[i] = du[c[i - 1]] BY <1>4, <3>3
    <3> QED BY <3>1, <3>2, <3>4
  <2> QED BY <1>1, <2>1, <2>2, <2>3
<1>6. DOMAIN t = 1 .. Len(c) + 1 /\ t = [i \in 1 .. Len(c) + 1 |-> t[i]]
  BY <1>2, LenProperties
<1>7. r = [i \in 1 .. Len(c) + 1 |-> r[i]]
  BY <1>4 DEF r, DataOf
<1>8. r = t BY <1>5, <1>6, <1>7
<1> QED BY <1>8 DEF r, t, s, cc

LEMMA InitRefined == QInit => AbstractQueues!Init
<1> SUFFICES ASSUME QInit PROVE AbstractQueues!Init
  OBVIOUS
<1>1. IInv BY InitInv
<1>2. PICK L : Partition(L) /\ Threaded(L) BY <1>1 DEF IInv
<1>3. ASSUME NEW k \in QueueNames PROVE Contents(k) = <<>>
  <2>1. Len(L[k]) = 0
    <3>1. k \in Heads /\ First(k) = NULL
      BY QueuesAssumption DEF QInit, Heads, First
    <3>2. Path(next, NULL, L[k]) BY <1>2, <3>1 DEF Threaded
    <3>3. Len(L[k]) \in Nat /\ \A i \in 1 .. Len(L[k]) : L[k][i] # NULL
      BY <1>2, <3>1, PartitionFacts
    <3> QED BY <3>2, <3>3 DEF Path
  <2>2. Contents(k) \in Seq(Data) /\ Len(Contents(k)) = 0
    BY <1>1, <1>2, <2>1, StateIs DEF IInv
  <2> QED BY <2>2, EmptySeq
<1>4. Len(Chain(next, g_free_qnodes)) \in Nat
  <2>1. Len(L[NULL]) \in Nat BY <1>2, PartitionFacts DEF Heads
  <2> QED BY <1>1, <1>2, <2>1, StateIs DEF IInv
<1> QED BY <1>3, <1>4 DEF AbstractQueues!Init

LEMMA NextRefined ==
  IInv /\ [QNext]_qvars
    => [AbstractQueues!Next]_<<[k \in QueueNames |-> Contents(k)],
                         Len(Chain(next, g_free_qnodes))>>
<1> SUFFICES ASSUME IInv, [QNext]_qvars
    PROVE  [AbstractQueues!Next]_<<[k \in QueueNames |-> Contents(k)],
                             Len(Chain(next, g_free_qnodes))>>
  OBVIOUS
<1> DEFINE q == [k \in QueueNames |-> Contents(k)]
           free == Len(Chain(next, g_free_qnodes))
<1>0. (\A L : FieldTypes /\ Partition(L) /\ Threaded(L) =>
         /\ \A k \in QueueNames : /\ Contents(k) = DataOf(data, L[k])
                                  /\ Contents(k) \in Seq(Data)
                                  /\ Len(Contents(k)) = Len(L[k])
         /\ Len(Chain(next, g_free_qnodes)) = Len(L[NULL]))'
  BY StateIs, PTL
<1>1. PICK L : Partition(L) /\ Threaded(L) BY DEF IInv
<1>2. ASSUME NEW M, FieldTypes', Partition(M), Threaded(M)'
      PROVE  /\ \A k \in QueueNames : /\ q'[k] = DataOf(data', M[k])
                                      /\ q'[k] \in Seq(Data)
                                      /\ Len(q'[k]) = Len(M[k])
             /\ free' = Len(M[NULL])
  BY <1>0, <1>2 DEF Partition
<1>3. /\ \A k \in QueueNames : /\ q[k] = DataOf(data, L[k])
                                /\ q[k] \in Seq(Data)
                                /\ Len(q[k]) = Len(L[k])
      /\ free = Len(L[NULL])
  BY <1>1, StateIs DEF IInv
<1>4. /\ q = [k \in QueueNames |-> q[k]] /\ q' = [k \in QueueNames |-> q'[k]]
      /\ NULL \in Heads /\ NULL \notin QueueNames
      /\ \A k \in QueueNames : k \in Heads
  BY QueuesAssumption DEF Heads
<1> HIDE DEF q, free
<1>5. ASSUME NEW k \in QueueNames, NEW d \in Data, _enque(k, d)
      PROVE  AbstractQueues!Enque(k, d)
  <2> DEFINE qn == L[NULL][1]
  <2>1. PICK n : /\ PlaceFor(k, L[k], d, n)
                 /\ Len(L[NULL]) > 0
                 /\ data' = [data EXCEPT ![qn] = d]
                 /\ FieldTypes'
                 /\ LET M == [L EXCEPT ![NULL] = Tail(L[NULL]),
                                       ![k] = Inserted(L[k], n, qn)]
                    IN  Partition(M) /\ Threaded(M)'
    BY <1>1, <1>5, EnqueSteps DEF IInv
  <2> DEFINE M == [L EXCEPT ![NULL] = Tail(L[NULL]), ![k] = Inserted(L[k], n, qn)]
  <2>2. /\ M[NULL] = Tail(L[NULL]) /\ M[k] = Inserted(L[k], n, qn)
        /\ \A h \in QueueNames : h # k => M[h] = L[h]
    BY <1>1, <1>4 DEF Partition
  <2>3. Partition(M) /\ Threaded(M)' /\ FieldTypes' BY <2>1
  <2> HIDE DEF M
  <2>4. /\ L[NULL] \in Seq(Nodes) /\ Len(L[NULL]) \in Nat
        /\ qn \in Nodes /\ Holds(L[NULL], qn)
    <3>1. L[NULL] \in Seq(Nodes) /\ Len(L[NULL]) \in Nat
      BY <1>1, <1>4, PartitionFacts
    <3>2. 1 \in 1 .. Len(L[NULL]) BY <2>1, <3>1
    <3>3. qn \in Nodes BY <1>1, <1>4, <3>2, PartitionFacts
    <3> QED BY <3>1, <3>2, <3>3 DEF Holds
  <2>5. ASSUME NEW h \in QueueNames, NEW i \in 1 .. Len(L[h])
        PROVE  data'[L[h][i]] = data[L[h][i]]
    <3>1. Holds(L[h], L[h][i]) BY DEF Holds
    <3>2. L[h][i] # qn BY <1>1, <1>4, <2>4, <3>1 DEF Partition
    <3>3. L[h][i] \in Nodes BY <1>1, <1>4, PartitionFacts
    <3> QED BY <2>1, <3>2, <3>3 DEF IInv, FieldTypes
  <2>6. /\ L[k] \in Seq(Nodes) /\ Len(L[k]) \in Nat
        /\ n \in 0 .. Len(L[k]) /\ Len(q[k]) = Len(L[k])
        /\ q[k] \in Seq(Data) /\ q[k] = DataOf(data, L[k])
        /\ \A i \in 1 .. Len(L[k]) : q[k][i] = data[L[k][i]]
    <3>1. L[k] \in Seq(Nodes) /\ Len(L[k]) \in Nat
      BY <1>1, <1>4, PartitionFacts
    <3>2. q[k] = DataOf(data, L[k]) /\ q[k] \in Seq(Data) /\ Len(q[k]) = Len(L[k])
      BY <1>3
    <3> QED BY <2>1, <3>1, <3>2 DEF PlaceFor, DataOf
  <2>7. n \in AbstractQueues!Place(q[k], d, k \in Ordered)
    <3>1. \A i \in 1 .. n : i \in 1 .. Len(L[k]) BY <2>6
    <3>2. n < Len(L[k]) => n + 1 \in 1 .. Len(L[k]) BY <2>6
    <3> QED BY <2>1, <2>6, <3>1, <3>2 DEF PlaceFor, AbstractQueues!Place
  <2>8. q'[k] = AbstractQueues!InsertAfter(q[k], n, d)
    <3>1. data'[qn] = d BY <2>1, <2>4 DEF IInv, FieldTypes
    <3>2. DataOf(data', Inserted(L[k], n, qn)) = Inserted(DataOf(data, L[k]), n, d)
      <4>1. /\ L[k] \in Seq(Nodes) /\ n \in 0 .. Len(L[k]) /\ qn \in Nodes
            /\ DataOf(data, L[k]) \in Seq(Data)
            /\ Len(DataOf(data, L[k])) = Len(L[k])
            /\ \A i \in 1 .. Len(L[k]) : data'[L[k][i]] = data[L[k][i]]
        BY <2>4, <2>5, <2>6
      <4> HIDE DEF qn
      <4> QED BY <3>1, <4>1, DataInserted
    <3>3. q'[k] = DataOf(data', M[k]) BY <1>2, <2>3
    <3> QED BY <2>2, <2>6, <3>2, <3>3 DEF Inserted, AbstractQueues!InsertAfter
  <2>9. ASSUME NEW h \in QueueNames, h # k PROVE q'[h] = q[h]
    <3>1. q'[h] = DataOf(data', L[h]) /\ q[h] = DataOf(data, L[h])
      BY <1>2, <1>3, <2>2, <2>3, <2>9
    <3> QED BY <2>5, <3>1 DEF DataOf
  <2>10. q' = [q EXCEPT ![k] = AbstractQueues!InsertAfter(q[k], n, d)]
    BY <1>4, <2>8, <2>9
  <2>11. free > 0 /\ free' = free - 1
    <3>1. free' = Len(Tail(L[NULL])) BY <1>2, <2>2, <2>3
    <3>2. Len(Tail(L[NULL])) = Len(L[NULL]) - 1
      BY <2>1, <2>4, HeadTailProperties, EmptySeq
    <3> QED BY <1>3, <2>1, <3>1, <3>2
  <2> QED BY <2>7, <2>10, <2>11 DEF AbstractQueues!Enque, q, free
<1>6. ASSUME NEW k \in QueueNames, _deque(k) PROVE AbstractQueues!Deque(k)
  <2> DEFINE qn == L[k][1]
             M == [L EXCEPT ![k] = Tail(L[k]), ![NULL] = Inserted(L[NULL], 0, qn)]
  <2>1. /\ Len(L[k]) > 0 /\ data' = data
        /\ Partition(M) /\ Threaded(M)' /\ FieldTypes'
    BY <1>1, <1>6, DequeSteps DEF IInv
  <2>2. /\ M[NULL] = Inserted(L[NULL], 0, qn) /\ M[k] = Tail(L[k])
        /\ \A h \in QueueNames : h # k => M[h] = L[h]
    BY <1>1, <1>4 DEF Partition
  <2> HIDE DEF M
  <2>3. /\ L[k] \in Seq(Nodes) /\ Len(L[k]) \in Nat /\ L[k] # <<>>
        /\ Tail(L[k]) \in Seq(Nodes) /\ Len(Tail(L[k])) = Len(L[k]) - 1
        /\ \A i \in 1 .. Len(L[k]) - 1 : Tail(L[k])[i] = L[k][i + 1]
    <3>1. L[k] \in Seq(Nodes) /\ Len(L[k]) \in Nat
      BY <1>1, <1>4, PartitionFacts
    <3>2. L[k] # <<>> BY <2>1, <3>1
    <3> QED BY <3>1, <3>2, HeadTailProperties
  <2>4. q[k] \in Seq(Data) /\ Len(q[k]) = Len(L[k]) /\ q[k] # <<>>
        /\ \A i \in 1 .. Len(L[k]) : q[k][i] = data[L[k][i]]
    <3>1. q[k] \in Seq(Data) /\ Len(q[k]) = Len(L[k]) /\ q[k] = DataOf(data, L[k])
      BY <1>3
    <3>2. q[k] # <<>> BY <2>1, <3>1
    <3> QED BY <3>1, <3>2 DEF DataOf
  <2>5. q'[k] = Tail(q[k])
    <3>1. /\ q'[k] = DataOf(data', Tail(L[k])) /\ q'[k] \in Seq(Data)
          /\ Len(q'[k]) = Len(Tail(L[k]))
      BY <1>2, <2>1, <2>2
    <3>2. /\ Tail(q[k]) \in Seq(Data) /\ Len(Tail(q[k])) = Len(q[k]) - 1
          /\ \A i \in 1 .. Len(q[k]) - 1 : Tail(q[k])[i] = q[k][i + 1]
      BY <2>4, HeadTailProperties
    <3>3. ASSUME NEW i \in 1 .. Len(L[k]) - 1 PROVE q'[k][i] = Tail(q[k])[i]
      <4>1. i + 1 \in 1 .. Len(L[k]) BY <2>3
      <4>2. q'[k][i] = data'[Tail(L[k])[i]] BY <2>3, <3>1 DEF DataOf
      <4> QED BY <2>1, <2>3, <2>4, <3>2, <4>1, <4>2
    <3>4. /\ Len(q'[k]) = Len(L[k]) - 1 /\ Len(Tail(q[k])) = Len(L[k]) - 1
          /\ q'[k] \in Seq(Data) /\ Tail(q[k]) \in Seq(Data)
      BY <2>3, <2>4, <3>1, <3>2
    <3>5. /\ Len(q'[k]) = Len(Tail(q[k]))
          /\ \A i \in 1 .. Len(q'[k]) : q'[k][i] = Tail(q[k])[i]
      BY <3>3, <3>4
    <3> QED BY <3>4, <3>5, SeqEqual
  <2>6. ASSUME NEW h \in QueueNames, h # k PROVE q'[h] = q[h]
    BY <1>2, <1>3, <2>1, <2>2, <2>6
  <2>7. q' = [q EXCEPT ![k] = Tail(q[k])] BY <1>4, <2>5, <2>6
  <2>8. free' = free + 1
    <3>1. L[NULL] \in Seq(Nodes) /\ 0 \in 0 .. Len(L[NULL]) /\ qn \in Nodes
      <4>1. 1 \in 1 .. Len(L[k]) BY <2>1, <2>3
      <4> QED BY <1>1, <1>4, <4>1, PartitionFacts
    <3> HIDE DEF qn
    <3>2. Len(Inserted(L[NULL], 0, qn)) = Len(L[NULL]) + 1
      BY <3>1, InsertedFacts
    <3>3. free' = Len(Inserted(L[NULL], 0, qn)) BY <1>2, <2>1, <2>2
    <3> QED BY <1>3, <3>2, <3>3
  <2> QED BY <2>4, <2>7, <2>8 DEF AbstractQueues!Deque, q, free
<1>7. CASE UNCHANGED qvars
  BY <1>7 DEF qvars, q, free, Contents
<1> QED BY <1>5, <1>6, <1>7 DEF QNext, AbstractQueues!Next, q, free

\* The linked lists of queues.c are the queues the kernel relies on: _enque puts
\* a datum behind all that do not compare greater, or last without a comparison,
\* _deque takes the first, and no call touches another queue.
THEOREM QueuesImplemented == QSpec => ImplementsQueues
BY InitRefined, NextRefined, Invariance, PTL
DEF QSpec, ImplementsQueues, AbstractQueues!Spec
-----------------------------------------------------------------------------
(* An order makes the ordered queues sorted *)

\* What a comparison must be for a queue to be sorted by it.
ComparesAsOrder ==
  /\ \A a, b \in Data : compare(a, b) > 0 => compare(b, a) <= 0
  /\ \A a, b, c \in Data :
       compare(a, b) <= 0 /\ compare(b, c) <= 0 => compare(a, c) <= 0

\* cmp_wakeup, the difference of two times taken for a signed number, is that
\* on times that lie, from some moment on, within half the range of the clock.
LEMMA WakeupsCompareAsOrder ==
  ASSUME NEW half \in Nat \ {0}, Data \subseteq 0 .. 2 * half - 1,
         \A a, b \in Data :
           compare(a, b) = LET d == (a - b) % (2 * half)
                           IN  IF d >= half THEN d - 2 * half ELSE d,
         NEW moment \in 0 .. 2 * half - 1,
         \A a \in Data : (a - moment) % (2 * half) < half
  PROVE  ComparesAsOrder
<1> DEFINE full == 2 * half
           age(a) == (a - moment) % full
<1>1. /\ full \in Nat \ {0} /\ half \in Nat /\ full = half + half
      /\ moment \in 0 .. full - 1
      /\ \A a \in Data : a \in 0 .. full - 1 /\ age(a) < half
      /\ \A a, b \in Data :
           compare(a, b) = LET d == (a - b) % full
                           IN  IF d >= half THEN d - full ELSE d
  OBVIOUS
<1> HIDE DEF full
<1>2. \A x, y \in 0 .. full - 1 :
        (x - y) % full = IF x >= y THEN x - y ELSE x - y + full
  <2>1. ASSUME NEW x \in 0 .. full - 1, NEW y \in 0 .. full - 1, x >= y
        PROVE  (x - y) % full = x - y
    BY <1>1, <2>1
  <2>2. ASSUME NEW x \in 0 .. full - 1, NEW y \in 0 .. full - 1, ~(x >= y)
        PROVE  (x - y) % full = x - y + full
    BY <1>1, <2>2
  <2> QED BY <2>1, <2>2
<1>3. ASSUME NEW a \in Data, NEW b \in Data
      PROVE  compare(a, b) = age(a) - age(b)
  <2>1. /\ a \in 0 .. full - 1 /\ b \in 0 .. full - 1
        /\ age(a) < half /\ age(b) < half
    BY <1>1
  <2>2. /\ age(a) = IF a >= moment THEN a - moment ELSE a - moment + full
        /\ age(b) = IF b >= moment THEN b - moment ELSE b - moment + full
        /\ (a - b) % full = IF a >= b THEN a - b ELSE a - b + full
    BY <1>1, <1>2
  <2> DEFINE d == (a - b) % full
  <2>3. compare(a, b) = IF d >= half THEN d - full ELSE d
    BY <1>1
  <2> HIDE DEF age, d
  <2>4. d = IF a >= b THEN a - b ELSE a - b + full BY <2>2 DEF d
  <2> QED BY <1>1, <2>1, <2>2, <2>3, <2>4
<1>4. \A a \in Data : age(a) \in Int
  BY <1>1
<1> HIDE DEF age
<1> QED BY <1>3, <1>4 DEF ComparesAsOrder

InOrder(s) == \A i, j \in 1 .. Len(s) : i < j => compare(s[i], s[j]) <= 0

\* The place of a datum is one where the order is kept.
LEMMA InsertedInOrder ==
  ASSUME ComparesAsOrder, NEW s \in Seq(Data), InOrder(s), NEW d \in Data,
         NEW n \in AbstractQueues!Place(s, d, TRUE)
  PROVE  InOrder(AbstractQueues!InsertAfter(s, n, d))
<1> DEFINE t == AbstractQueues!InsertAfter(s, n, d)
<1>1. /\ n \in 0 .. Len(s) /\ Len(s) \in Nat
      /\ \A i \in 1 .. n : compare(s[i], d) <= 0
      /\ n < Len(s) => compare(s[n + 1], d) > 0
  BY LenProperties DEF AbstractQueues!Place
<1>2. t = Inserted(s, n, d) BY DEF AbstractQueues!InsertAfter, Inserted
<1> HIDE DEF t
<1>3. /\ Len(t) = Len(s) + 1
      /\ \A i \in 1 .. n : t[i] = s[i]
      /\ t[n + 1] = d
      /\ \A i \in n + 2 .. Len(s) + 1 : t[i] = s[i - 1]
  <2>1. s \in Seq(Data) /\ n \in 0 .. Len(s) /\ d \in Data BY <1>1
  <2>2. Len(Inserted(s, n, d)) = Len(s) + 1 BY ONLY <2>1, InsertedFacts
  <2>3. \A i \in 1 .. n : Inserted(s, n, d)[i] = s[i]
    BY ONLY <2>1, InsertedFacts
  <2>4. Inserted(s, n, d)[n + 1] = d BY ONLY <2>1, InsertedFacts
  <2>5. \A i \in n + 2 .. Len(s) + 1 : Inserted(s, n, d)[i] = s[i - 1]
    BY ONLY <2>1, InsertedFacts
  <2> QED BY <1>2, <2>2, <2>3, <2>4, <2>5
<1>4. \A i \in 1 .. Len(s) : s[i] \in Data BY ElementOfSeq
<1>5. ASSUME NEW j \in n + 1 .. Len(s) PROVE compare(d, s[j]) <= 0
  <2>1. /\ n + 1 \in 1 .. Len(s) /\ j \in 1 .. Len(s) /\ n < Len(s)
        /\ (j = n + 1 \/ n + 1 < j)
    BY <1>1
  <2>2. compare(d, s[n + 1]) <= 0 BY <1>1, <1>4, <2>1 DEF ComparesAsOrder
  <2>3. CASE j = n + 1 BY <2>2, <2>3
  <2>4. CASE n + 1 < j
    <3>1. compare(s[n + 1], s[j]) <= 0 BY <2>1, <2>4 DEF InOrder
    <3> QED BY <1>4, <2>1, <2>2, <3>1 DEF ComparesAsOrder
  <2> QED BY <2>1, <2>3, <2>4
<1>6. ASSUME NEW i \in 1 .. Len(t), NEW j \in 1 .. Len(t), i < j
      PROVE  compare(t[i], t[j]) <= 0
  <2>1. CASE j <= n
    <3>1. i \in 1 .. n /\ j \in 1 .. n /\ i \in 1 .. Len(s) /\ j \in 1 .. Len(s)
      BY <1>1, <1>6, <2>1
    <3> QED BY <1>3, <1>6, <3>1 DEF InOrder
  <2>2. CASE j = n + 1
    <3>1. i \in 1 .. n BY <1>1, <1>6, <2>2
    <3> QED BY <1>1, <1>3, <2>2, <3>1
  <2>3. CASE j > n + 1
    <3>1. /\ j \in n + 2 .. Len(s) + 1 /\ j - 1 \in 1 .. Len(s)
          /\ j - 1 \in n + 1 .. Len(s) /\ t[j] = s[j - 1]
      BY <1>1, <1>3, <2>3
    <3>2. CASE i <= n
      <4>1. i \in 1 .. n /\ i \in 1 .. Len(s) /\ i < j - 1
        BY <1>1, <1>6, <2>3, <3>2
      <4> QED BY <1>3, <3>1, <4>1 DEF InOrder
    <3>3. CASE i = n + 1 BY <1>3, <1>5, <3>1, <3>3
    <3>4. CASE i > n + 1
      <4>1. i \in n + 2 .. Len(s) + 1 /\ i - 1 \in 1 .. Len(s) /\ i - 1 < j - 1
        BY <1>1, <1>3, <1>6, <3>4
      <4>2. t[i] = s[i - 1] BY <1>3, <4>1
      <4> QED BY <3>1, <4>1, <4>2 DEF InOrder
    <3> QED BY <1>1, <3>2, <3>3, <3>4
  <2> QED BY <1>1, <2>1, <2>2, <2>3
<1> QED BY <1>6 DEF InOrder, t

\* Whatever the order of the sleep calls, the sleepers are sorted by the time
\* they wake at, provided that cmp_wakeup orders those times.
THEOREM SleepersEverSorted == ComparesAsOrder => (QSpec => []SleepersSorted)
<1> SUFFICES ASSUME ComparesAsOrder PROVE QSpec => []SleepersSorted
  OBVIOUS
<1> DEFINE q == [k \in QueueNames |-> Contents(k)]
           free == Len(Chain(next, g_free_qnodes))
           SInv == \A k \in QueueNames :
                     q[k] \in Seq(Data) /\ (k \in Ordered => InOrder(q[k]))
<1>1. IInv => \A k \in QueueNames : q[k] \in Seq(Data)
  BY StateIs DEF IInv
<1>2. QInit => SInv
  <2>1. ASSUME QInit PROVE SInv
    <3>1. q = [k \in QueueNames |-> <<>>]
      BY <2>1, InitRefined DEF AbstractQueues!Init
    <3>2. InOrder(<<>>) /\ <<>> \in Seq(Data)
      BY DEF InOrder
    <3> QED BY <3>1, <3>2
  <2> QED BY <2>1
<1>3. IInv /\ SInv /\ [QNext]_qvars /\ IInv' => SInv'
  <2> SUFFICES ASSUME IInv, SInv, [QNext]_qvars, IInv' PROVE SInv'
    OBVIOUS
  <2>1. [AbstractQueues!Next]_<<q, free>> BY NextRefined
  <2>2. \A k \in QueueNames : q'[k] \in Seq(Data)
    <3>1. (IInv => \A k \in QueueNames : q[k] \in Seq(Data))' BY <1>1, PTL
    <3> QED BY <3>1
  <2>3. /\ q = [k \in QueueNames |-> q[k]]
        /\ \A k \in QueueNames : /\ q[k] \in Seq(Data)
                                /\ k \in Ordered => InOrder(q[k])
    OBVIOUS
  <2> SUFFICES ASSUME NEW h \in QueueNames, h \in Ordered PROVE InOrder(q'[h])
    BY <2>2
  <2> HIDE DEF q, free
  <2>4. ASSUME NEW k \in QueueNames, NEW d \in Data, AbstractQueues!Enque(k, d)
        PROVE  InOrder(q'[h])
    <3>1. PICK n \in AbstractQueues!Place(q[k], d, k \in Ordered) :
            q' = [q EXCEPT ![k] = AbstractQueues!InsertAfter(@, n, d)]
      BY <2>4 DEF AbstractQueues!Enque, q, free
    <3>2. CASE h = k
      <4>1. AbstractQueues!Place(q[k], d, k \in Ordered) = AbstractQueues!Place(q[k], d, TRUE)
        BY <3>2
      <4>2. n \in AbstractQueues!Place(q[h], d, TRUE) BY <3>1, <3>2, <4>1
      <4>3. q'[h] = AbstractQueues!InsertAfter(q[h], n, d) BY <2>3, <3>1, <3>2
      <4> QED BY <2>3, <4>2, <4>3, InsertedInOrder
    <3>3. CASE h # k BY <2>3, <3>1, <3>3
    <3> QED BY <3>2, <3>3
  <2>5. ASSUME NEW k \in QueueNames, AbstractQueues!Deque(k)
        PROVE  InOrder(q'[h])
    <3>1. q[k] # <<>> /\ q' = [q EXCEPT ![k] = Tail(@)]
      BY <2>5 DEF AbstractQueues!Deque, q
    <3>2. CASE h = k
      <4>1. /\ q'[h] = Tail(q[h]) /\ q[h] \in Seq(Data) /\ q[h] # <<>>
            /\ InOrder(q[h])
        BY <2>3, <3>1, <3>2
      <4>2. /\ Len(q[h]) \in Nat /\ Len(Tail(q[h])) = Len(q[h]) - 1
            /\ \A i \in 1 .. Len(Tail(q[h])) : Tail(q[h])[i] = q[h][i + 1]
        BY <4>1, HeadTailProperties, LenProperties
      <4>3. ASSUME NEW i \in 1 .. Len(Tail(q[h])), NEW j \in 1 .. Len(Tail(q[h])),
                   i < j
            PROVE  compare(Tail(q[h])[i], Tail(q[h])[j]) <= 0
        <5>1. i + 1 \in 1 .. Len(q[h]) /\ j + 1 \in 1 .. Len(q[h]) /\ i + 1 < j + 1
          BY <4>2, <4>3
        <5> QED BY <4>1, <4>2, <5>1 DEF InOrder
      <4> QED BY <4>1, <4>3 DEF InOrder
    <3>3. CASE h # k BY <2>3, <3>1, <3>3
    <3> QED BY <3>2, <3>3
  <2>6. CASE UNCHANGED <<q, free>> BY <2>3, <2>6
  <2> QED BY <2>1, <2>4, <2>5, <2>6 DEF AbstractQueues!Next, q, free
<1>4. IInv /\ SInv => SleepersSorted
  BY QueuesAssumption DEF SleepersSorted, AbstractQueues!Sorted, InOrder
<1> QED BY <1>2, <1>3, <1>4, Invariance, PTL DEF QSpec
=============================================================================
