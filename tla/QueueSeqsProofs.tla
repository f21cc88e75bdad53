-------------------------- MODULE QueueSeqsProofs ---------------------------
(***************************************************************************)
(* What the queue operations do to the members of a queue without          *)
(* repetition, and induction on the natural numbers: the facts that the    *)
(* proofs about the other modules cite.                                    *)
(***************************************************************************)
EXTENDS QueueSeqs, Integers, SequencesExt, SequenceTheorems, WellFoundedInduction,
        TLAPS

(* Induction on sets of natural numbers *)

\* Every set of natural numbers that is not empty has a least one.
LEMMA LeastNatural ==
  ASSUME NEW T, T \subseteq Nat, T # {}
  PROVE  \E n \in T : \A m \in T : n <= m
<1> DEFINE R == {ss \in Nat \X Nat : ss[1] < ss[2]}
<1>1. IsWellFoundedOn(R, Nat)
  BY NatLessThanWellFounded DEF OpToRel
<1> HIDE DEF R
<1>2. PICK n \in T : \A m \in T : <<m, n>> \notin R
  BY <1>1, WFMin
<1>3. ASSUME NEW m \in T PROVE n <= m
  <2>1. m \in Nat /\ n \in Nat /\ <<m, n>> \notin R BY <1>2
  <2>2. ~(m < n) BY <2>1 DEF R
  <2> QED BY <2>1, <2>2
<1> QED BY <1>3

\* A set with zero and with every successor holds all natural numbers.
LEMMA SetInduction ==
  ASSUME NEW S, 0 \in S, \A n \in Nat : n \in S => n + 1 \in S
  PROVE  \A n \in Nat : n \in S
<1>1. SUFFICES ASSUME Nat \ S # {} PROVE FALSE
  OBVIOUS
<1>2. PICK n \in Nat \ S : \A m \in Nat \ S : n <= m
  BY <1>1, LeastNatural
<1>3. n - 1 \in Nat /\ n - 1 \in S BY <1>2
<1> QED BY <1>2, <1>3

\* A set of numbers up to N that is not empty has a greatest one.
LEMMA GreatestIn ==
  ASSUME NEW N \in Nat, NEW S, S \subseteq 0 .. N, S # {}
  PROVE  \E m \in S : \A i \in S : m >= i
<1> DEFINE T == {n \in Nat : N - n \in S}
<1>1. \A i \in S : i \in Int /\ N - i \in Nat /\ N - (N - i) = i OBVIOUS
<1>2. T \subseteq Nat /\ T # {} BY <1>1
<1>3. PICK n \in T : \A m \in T : n <= m
  <2> HIDE DEF T
  <2> QED BY <1>2, LeastNatural
<1>4. N - n \in S /\ n \in Nat BY <1>3
<1>5. ASSUME NEW i \in S PROVE N - n >= i
  <2>1. N - i \in T BY <1>1
  <2>2. n <= N - i /\ i \in Int BY <1>1, <1>3, <2>1
  <2> QED BY <1>4, <2>2
<1> QED BY <1>4, <1>5

(* Recursive functions on 0 .. N *)

\* A step whose results are of the same kind as what it is applied to can be
\* repeated.
Repeats(f, b, G, N) == f[0] = b /\ \A n \in 1 .. N : f[n] = G[n][f[n - 1]]

LEMMA Repetition ==
  ASSUME NEW X, NEW N \in Nat, NEW G \in [1 .. N -> [X -> X]], NEW b \in X
  PROVE  \E f \in [0 .. N -> X] : Repeats(f, b, G, N)
<1> DEFINE Fits(f, k) == /\ f \in [0 .. k -> X] /\ f[0] = b
                         /\ \A n \in 1 .. k : f[n] = G[n][f[n - 1]]
           S == {k \in Nat : k <= N => \E f : Fits(f, k)}
<1>1. 0 \in S
  <2> DEFINE f == [n \in 0 .. 0 |-> b]
  <2>1. Fits(f, 0) OBVIOUS
  <2> HIDE DEF Fits
  <2> QED BY <2>1
<1>2. ASSUME NEW k \in Nat, k \in S PROVE k + 1 \in S
  <2>1. SUFFICES ASSUME k + 1 <= N PROVE \E f : Fits(f, k + 1)
    OBVIOUS
  <2>2. PICK f : Fits(f, k) BY <1>2, <2>1
  <2>3. k \in 0 .. k /\ k + 1 \in 1 .. N BY <2>1
  <2>4. f[k] \in X BY <2>2, <2>3
  <2>5. G[k + 1][f[k]] \in X BY <2>3, <2>4
  <2> DEFINE last == G[k + 1][f[k]]
             g == [n \in 0 .. k + 1 |-> IF n = k + 1 THEN last ELSE f[n]]
  <2> HIDE DEF last
  <2>6. /\ g[k + 1] = last /\ \A n \in 0 .. k : g[n] = f[n]
        /\ \A n \in 0 .. k + 1 : n = k + 1 \/ n \in 0 .. k
    OBVIOUS
  <2>7. g \in [0 .. k + 1 -> X]
    <3>1. last \in X BY <2>5 DEF last
    <3>2. \A n \in 0 .. k : f[n] \in X BY <2>2
    <3> QED BY <2>6, <3>1, <3>2
  <2> HIDE DEF g
  <2>8. ASSUME NEW n \in 1 .. k + 1 PROVE g[n] = G[n][g[n - 1]]
    <3>1. CASE n = k + 1
      <4>1. g[n - 1] = f[k] BY <2>3, <2>6, <3>1
      <4> QED BY <2>6, <3>1, <4>1 DEF last
    <3>2. CASE n # k + 1
      <4>1. n \in 1 .. k /\ n \in 0 .. k /\ n - 1 \in 0 .. k BY <3>2
      <4>2. f[n] = G[n][f[n - 1]] BY <2>2, <4>1
      <4> QED BY <2>6, <4>1, <4>2
    <3> QED BY <3>1, <3>2
  <2>9. g[0] = b
    <3>1. 0 \in 0 .. k OBVIOUS
    <3> QED BY <2>2, <2>6, <3>1
  <2>10. Fits(g, k + 1) BY <2>7, <2>8, <2>9
  <2> HIDE DEF Fits
  <2> QED BY <2>10
<1>3. N \in S
  <2> HIDE DEF S
  <2> QED BY <1>1, <1>2, SetInduction
<1> QED BY <1>3 DEF Repeats

\* What each step keeps holds at the end.
LEMMA StepInduction ==
  ASSUME NEW S, NEW N \in Nat, NEW f, f[0] \in S,
         \A n \in 1 .. N : f[n - 1] \in S => f[n] \in S
  PROVE  \A n \in 0 .. N : f[n] \in S
<1> DEFINE T == {n \in Nat : n <= N => f[n] \in S}
<1>1. 0 \in T OBVIOUS
<1>2. ASSUME NEW n \in Nat, n \in T PROVE n + 1 \in T
  <2>1. SUFFICES ASSUME n + 1 <= N PROVE f[n + 1] \in S
    OBVIOUS
  <2>2. n + 1 \in 1 .. N /\ (n + 1) - 1 = n /\ f[n] \in S BY <1>2, <2>1
  <2> QED BY <2>2
<1>3. \A n \in Nat : n \in T
  <2> HIDE DEF T
  <2> QED BY <1>1, <1>2, SetInduction
<1> QED BY <1>3
-----------------------------------------------------------------------------
(* FlattenSeq is a recursive function: it exists, and grows at the end *)

\* Its function, for the sequences ss.
Flattens(f, ss) ==
  f = [i \in 1 .. Len(ss) |-> IF i = 1 THEN ss[i] ELSE f[i - 1] \o ss[i]]

LEMMA FlattenDefined ==
  ASSUME NEW ss, Len(ss) \in Nat, Len(ss) # 0
  PROVE  \E f : Flattens(f, ss) /\ FlattenSeq(ss) = f[Len(ss)]
<1> DEFINE Row(f, i) == IF i = 1 THEN ss[i] ELSE f[i - 1] \o ss[i]
           Solves(f, k) == f = [i \in 1 .. k |-> Row(f, i)]
           S == {k \in Nat : \E f : Solves(f, k)}
<1>1. 0 \in S
  <2> DEFINE f == [i \in 1 .. 0 |-> <<>>]
  <2>1. Solves(f, 0) OBVIOUS
  <2>2. \E h : Solves(h, 0) BY <2>1
  <2> HIDE DEF Solves
  <2> QED BY <2>2
<1>2. ASSUME NEW k \in Nat, k \in S PROVE k + 1 \in S
  <2>1. PICK f : Solves(f, k) BY <1>2
  <2> DEFINE g == [i \in 1 .. k + 1 |-> IF i = k + 1 THEN Row(f, k + 1) ELSE f[i]]
  <2>2. \A i \in 1 .. k : g[i] = f[i]
    OBVIOUS
  <2>3. g = [i \in 1 .. k + 1 |-> g[i]] /\ g[k + 1] = Row(f, k + 1)
    OBVIOUS
  <2> HIDE DEF g
  <2>4. ASSUME NEW i \in 1 .. k + 1 PROVE g[i] = Row(g, i)
    <3>1. g[i] = Row(f, i)
      <4>1. CASE i = k + 1 BY <2>3, <4>1
      <4>2. CASE i # k + 1
        <5>1. i \in 1 .. k BY <4>2
        <5>2. f[i] = Row(f, i)
          <6> HIDE DEF Row
          <6> QED BY <2>1, <5>1
        <5> QED BY <2>2, <5>1, <5>2
      <4> QED BY <4>1, <4>2
    <3>2. CASE i = 1 BY <3>1, <3>2
    <3>3. CASE i # 1
      <4>1. i - 1 \in 1 .. k BY <3>3
      <4>2. g[i - 1] = f[i - 1] BY <2>2, <4>1
      <4> QED BY <3>1, <4>2
    <3> QED BY <3>2, <3>3
  <2>5. Solves(g, k + 1)
    <3> HIDE DEF Row
    <3> QED BY <2>3, <2>4
  <2>6. \E h : Solves(h, k + 1) BY <2>5
  <2> HIDE DEF Solves
  <2> QED BY <2>6
<1>3. Len(ss) \in S
  <2> HIDE DEF S
  <2> QED BY <1>1, <1>2, SetInduction
<1>4. PICK f : Solves(f, Len(ss)) BY <1>3
<1> DEFINE F == CHOOSE h : Solves(h, Len(ss))
<1>5. FlattenSeq(ss) = F[Len(ss)]
  BY DEF FlattenSeq
<1>6. Solves(F, Len(ss))
  <2> HIDE DEF Solves
  <2> QED BY <1>4
<1>7. Flattens(F, ss) BY <1>6 DEF Flattens
<1> QED BY <1>5, <1>7

LEMMA FlattenFacts ==
  ASSUME NEW S, NEW ss \in Seq(Seq(S)), ss # <<>>
  PROVE  /\ FlattenSeq(ss) \in Seq(S)
         /\ Len(ss) = 1 => FlattenSeq(ss) = ss[1]
         /\ \A s \in Seq(S) : FlattenSeq(Append(ss, s)) = FlattenSeq(ss) \o s
<1> DEFINE n == Len(ss)
<1>1. n \in Nat /\ n >= 1 /\ \A i \in 1 .. n : ss[i] \in Seq(S)
  BY EmptySeq, LenProperties, ElementOfSeq
<1>2. PICK f : Flattens(f, ss) /\ FlattenSeq(ss) = f[n]
  BY <1>1, FlattenDefined
<1>3. \A i \in 1 .. n : f[i] = IF i = 1 THEN ss[i] ELSE f[i - 1] \o ss[i]
  <2> DEFINE Row(i) == IF i = 1 THEN ss[i] ELSE f[i - 1] \o ss[i]
  <2>1. f = [i \in 1 .. n |-> Row(i)] BY <1>2 DEF Flattens
  <2>2. ASSUME NEW i \in 1 .. n PROVE f[i] = Row(i)
    <3> HIDE DEF Row, n
    <3> QED BY <2>1
  <2> QED BY <2>2
<1>4. FlattenSeq(ss) \in Seq(S)
  <2> DEFINE T == {k \in Nat : k \in 1 .. n => f[k] \in Seq(S)}
  <2>1. 0 \in T BY <1>1
  <2>2. ASSUME NEW k \in Nat, k \in T PROVE k + 1 \in T
    <3> SUFFICES ASSUME k + 1 \in 1 .. n PROVE f[k + 1] \in Seq(S)
      OBVIOUS
    <3>1. CASE k + 1 = 1 BY <1>1, <1>3, <3>1
    <3>2. CASE k + 1 # 1
      <4>1. k \in 1 .. n /\ (k + 1) - 1 = k BY <1>1, <3>2
      <4>2. f[k] \in Seq(S) BY <2>2, <4>1
      <4>3. f[k + 1] = f[k] \o ss[k + 1] BY <1>3, <3>2, <4>1
      <4> QED BY <1>1, <4>2, <4>3, ConcatProperties
    <3> QED BY <3>1, <3>2
  <2>3. n \in T
    <3> HIDE DEF T
    <3> QED BY <1>1, <2>1, <2>2, SetInduction
  <2> QED BY <1>1, <1>2, <2>3
<1>5. n = 1 => FlattenSeq(ss) = ss[1]
  BY <1>1, <1>2, <1>3
<1>6. ASSUME NEW s \in Seq(S)
      PROVE  FlattenSeq(Append(ss, s)) = FlattenSeq(ss) \o s
  <2> DEFINE tt == Append(ss, s)
  <2>1. /\ Len(tt) = n + 1 /\ tt[n + 1] = s
        /\ \A i \in 1 .. n : tt[i] = ss[i]
    BY AppendProperties
  <2> HIDE DEF tt
  <2>2. PICK h : Flattens(h, tt) /\ FlattenSeq(tt) = h[n + 1]
    <3>1. Len(tt) \in Nat /\ Len(tt) # 0 BY <1>1, <2>1
    <3> QED BY <2>1, <3>1, FlattenDefined
  <2>3. \A i \in 1 .. n + 1 : h[i] = IF i = 1 THEN tt[i] ELSE h[i - 1] \o tt[i]
    <3> DEFINE Row(i) == IF i = 1 THEN tt[i] ELSE h[i - 1] \o tt[i]
    <3>1. h = [i \in 1 .. n + 1 |-> Row(i)] BY <2>1, <2>2 DEF Flattens
    <3>2. ASSUME NEW i \in 1 .. n + 1 PROVE h[i] = Row(i)
      <4> HIDE DEF Row, n
      <4> QED BY <3>1
    <3> QED BY <3>2
  <2> DEFINE T == {k \in Nat : k \in 1 .. n => h[k] = f[k]}
  <2>4. 0 \in T BY <1>1
  <2>5. ASSUME NEW k \in Nat, k \in T PROVE k + 1 \in T
    <3> SUFFICES ASSUME k + 1 \in 1 .. n PROVE h[k + 1] = f[k + 1]
      OBVIOUS
    <3>0. k + 1 \in 1 .. n + 1 /\ tt[k + 1] = ss[k + 1] BY <1>1, <2>1
    <3>1. CASE k + 1 = 1 BY <1>3, <2>3, <3>0, <3>1
    <3>2. CASE k + 1 # 1
      <4>1. k \in 1 .. n /\ (k + 1) - 1 = k BY <1>1, <3>2
      <4>2. h[k] = f[k] BY <2>5, <4>1
      <4>3. f[k + 1] = f[k] \o ss[k + 1] BY <1>3, <3>2, <4>1
      <4>4. h[k + 1] = h[k] \o tt[k + 1] BY <2>3, <3>0, <3>2, <4>1
      <4> QED BY <3>0, <4>2, <4>3, <4>4
    <3> QED BY <3>1, <3>2
  <2>6. n \in T
    <3> HIDE DEF T
    <3> QED BY <1>1, <2>4, <2>5, SetInduction
  <2>7. h[n] = f[n] BY <1>1, <2>6
  <2>8. h[n + 1] = h[n] \o s
    <3>1. n + 1 \in 1 .. n + 1 /\ n + 1 # 1 /\ (n + 1) - 1 = n BY <1>1
    <3> QED BY <2>1, <2>3, <3>1
  <2> QED BY <1>2, <2>2, <2>7, <2>8 DEF tt
<1> QED BY <1>4, <1>5, <1>6
-----------------------------------------------------------------------------
(* Queues *)

\* Appending: the new element is held beside the old ones.
LEMMA AppendHolds ==
  ASSUME NEW S, NEW s \in Seq(S), NEW p \in S
  PROVE  /\ Append(s, p) \in Seq(S)
         /\ \A q : Holds(Append(s, p), q) <=> Holds(s, q) \/ q = p
         /\ Distinct(s) /\ ~Holds(s, p) => Distinct(Append(s, p))
<1>1. /\ Append(s, p) \in Seq(S)
      /\ Len(Append(s, p)) = Len(s) + 1
      /\ \A i \in 1 .. Len(s) : Append(s, p)[i] = s[i]
      /\ Append(s, p)[Len(s) + 1] = p
  BY AppendProperties
<1>2. ASSUME NEW q PROVE Holds(Append(s, p), q) <=> Holds(s, q) \/ q = p
  BY <1>1, Len(s) \in Nat DEF Holds
<1>3. ASSUME Distinct(s), ~Holds(s, p) PROVE Distinct(Append(s, p))
  BY <1>1, <1>3, Len(s) \in Nat DEF Holds, Distinct
<1> QED BY <1>1, <1>2, <1>3

\* Dequeuing: the head is gone and nothing else.
LEMMA TailHolds ==
  ASSUME NEW S, NEW s \in Seq(S), s # <<>>, Distinct(s)
  PROVE  /\ Tail(s) \in Seq(S) /\ Head(s) \in S /\ Holds(s, Head(s))
         /\ Distinct(Tail(s))
         /\ \A q : Holds(Tail(s), q) <=> Holds(s, q) /\ q # Head(s)
<1>1. /\ Len(s) \in Nat /\ Len(s) >= 1
      /\ Tail(s) \in Seq(S) /\ Len(Tail(s)) = Len(s) - 1
      /\ Head(s) = s[1] /\ s[1] \in S
      /\ \A i \in 1 .. Len(Tail(s)) : Tail(s)[i] = s[i + 1]
  BY HeadTailProperties, EmptySeq, LenProperties
<1>2. Distinct(Tail(s))
  BY <1>1 DEF Distinct
<1>3. ASSUME NEW q PROVE Holds(Tail(s), q) <=> Holds(s, q) /\ q # Head(s)
  <2>1. ASSUME Holds(Tail(s), q) PROVE Holds(s, q) /\ q # Head(s)
    BY <1>1, <2>1 DEF Holds, Distinct
  <2>2. ASSUME Holds(s, q), q # Head(s) PROVE Holds(Tail(s), q)
    <3>1. PICK i \in 1 .. Len(s) : s[i] = q BY <2>2 DEF Holds
    <3>2. i - 1 \in 1 .. Len(Tail(s)) /\ Tail(s)[i - 1] = q
      BY <1>1, <2>2, <3>1
    <3> QED BY <3>2 DEF Holds
  <2> QED BY <2>1, <2>2
<1> QED BY <1>1, <1>2, <1>3 DEF Holds

\* Joining two queues that share no element.
LEMMA ConcatHolds ==
  ASSUME NEW S, NEW s \in Seq(S), NEW t \in Seq(S)
  PROVE  /\ s \o t \in Seq(S)
         /\ \A q : Holds(s \o t, q) <=> Holds(s, q) \/ Holds(t, q)
         /\ (Distinct(s) /\ Distinct(t) /\ \A q : ~(Holds(s, q) /\ Holds(t, q)))
              => Distinct(s \o t)
<1>1. /\ Len(s) \in Nat /\ Len(t) \in Nat
      /\ s \o t \in Seq(S) /\ Len(s \o t) = Len(s) + Len(t)
      /\ \A i \in 1 .. Len(s) + Len(t) :
           (s \o t)[i] = IF i <= Len(s) THEN s[i] ELSE t[i - Len(s)]
  BY ConcatProperties, LenProperties
<1>2. ASSUME NEW q PROVE Holds(s \o t, q) <=> Holds(s, q) \/ Holds(t, q)
  <2>1. ASSUME Holds(s \o t, q) PROVE Holds(s, q) \/ Holds(t, q)
    BY <1>1, <2>1 DEF Holds
  <2>2. ASSUME Holds(s, q) PROVE Holds(s \o t, q)
    BY <1>1, <2>2 DEF Holds
  <2>3. ASSUME Holds(t, q) PROVE Holds(s \o t, q)
    <3>1. PICK i \in 1 .. Len(t) : t[i] = q BY <2>3 DEF Holds
    <3>2. i + Len(s) \in 1 .. Len(s \o t) /\ (s \o t)[i + Len(s)] = q
      BY <1>1, <3>1
    <3> QED BY <3>2 DEF Holds
  <2> QED BY <2>1, <2>2, <2>3
<1>3. ASSUME Distinct(s), Distinct(t), \A q : ~(Holds(s, q) /\ Holds(t, q))
      PROVE  Distinct(s \o t)
  <2> DEFINE st == s \o t
  <2>0. SUFFICES \A i, j \in 1 .. Len(st) : st[i] = st[j] /\ i <= j => i = j
    <3>1. Len(st) \in Nat BY <1>1
    <3> HIDE DEF st
    <3>2. SUFFICES ASSUME \A i, j \in 1 .. Len(st) :
                            st[i] = st[j] /\ i <= j => i = j,
                          NEW i \in 1 .. Len(st), NEW j \in 1 .. Len(st),
                          st[i] = st[j]
                   PROVE  i = j
      BY DEF Distinct, st
    <3> QED BY <3>1, <3>2
  <2> SUFFICES ASSUME NEW i \in 1 .. Len(s \o t), NEW j \in 1 .. Len(s \o t),
                      (s \o t)[i] = (s \o t)[j], i <= j
               PROVE  i = j
    BY <2>0
  <2>1. CASE j <= Len(s)
    BY <1>1, <1>3, <2>1 DEF Distinct
  <2>2. CASE i > Len(s)
    <3>1. i - Len(s) \in 1 .. Len(t) /\ j - Len(s) \in 1 .. Len(t)
      BY <1>1, <2>2
    <3>2. t[i - Len(s)] = t[j - Len(s)]
      BY <1>1, <2>2
    <3> QED BY <1>1, <1>3, <3>1, <3>2 DEF Distinct
  <2>3. CASE i <= Len(s) /\ j > Len(s)
    <3>1. j - Len(s) \in 1 .. Len(t) /\ t[j - Len(s)] = s[i] /\ i \in 1 .. Len(s)
      BY <1>1, <2>3
    <3> QED BY <1>3, <3>1 DEF Holds
  <2> QED BY <1>1, <2>1, <2>2, <2>3
<1> QED BY <1>1, <1>2, <1>3

\* Cutting a queue in two.
LEMMA SubSeqHolds ==
  ASSUME NEW S, NEW s \in Seq(S), NEW n \in 0 .. Len(s), Distinct(s)
  PROVE  LET a == SubSeq(s, 1, n)
             b == SubSeq(s, n + 1, Len(s))
         IN  /\ a \in Seq(S) /\ b \in Seq(S) /\ Len(a) = n
             /\ Distinct(a) /\ Distinct(b)
             /\ \A q : Holds(a, q) <=> q \in {s[i] : i \in 1 .. n}
             /\ \A q : Holds(s, q) <=> Holds(a, q) \/ Holds(b, q)
             /\ \A q : ~(Holds(a, q) /\ Holds(b, q))
<1> DEFINE a == SubSeq(s, 1, n)
           b == SubSeq(s, n + 1, Len(s))
<1>1. /\ Len(s) \in Nat /\ \A i \in 1 .. Len(s) : s[i] \in S
  BY LenProperties, ElementOfSeq
<1>2. a \in Seq(S) /\ Len(a) = n /\ \A i \in 1 .. n : a[i] = s[i]
  BY <1>1
<1>3. b \in Seq(S) /\ Len(b) = Len(s) - n
      /\ \A i \in 1 .. Len(s) - n : b[i] = s[n + i]
  BY <1>1
<1> HIDE DEF a, b
<1>4. Distinct(a) /\ Distinct(b)
  <2>1. Distinct(a)
    BY <1>1, <1>2 DEF Distinct
  <2>2. ASSUME NEW i \in 1 .. Len(b), NEW j \in 1 .. Len(b), b[i] = b[j]
        PROVE  i = j
    <3>1. /\ n + i \in 1 .. Len(s) /\ n + j \in 1 .. Len(s)
          /\ s[n + i] = s[n + j]
      BY <1>1, <1>3, <2>2
    <3>2. n + i = n + j BY <3>1 DEF Distinct
    <3> QED BY <1>3, <3>2
  <2> QED BY <2>1, <2>2 DEF Distinct
<1>5. ASSUME NEW q PROVE Holds(a, q) <=> q \in {s[i] : i \in 1 .. n}
  BY <1>2 DEF Holds
<1>6. ASSUME NEW q PROVE Holds(s, q) <=> Holds(a, q) \/ Holds(b, q)
  <2>1. ASSUME Holds(s, q) PROVE Holds(a, q) \/ Holds(b, q)
    <3>1. PICK i \in 1 .. Len(s) : s[i] = q BY <2>1 DEF Holds
    <3>2. CASE i <= n BY <1>1, <1>2, <3>1, <3>2 DEF Holds
    <3>3. CASE i > n
      <4>1. i - n \in 1 .. Len(b) /\ b[i - n] = q BY <1>1, <1>3, <3>1, <3>3
      <4> QED BY <4>1 DEF Holds
    <3> QED BY <1>1, <3>2, <3>3
  <2>2. ASSUME Holds(a, q) \/ Holds(b, q) PROVE Holds(s, q)
    BY <1>1, <1>2, <1>3, <2>2 DEF Holds
  <2> QED BY <2>1, <2>2
<1>7. ASSUME NEW q, Holds(a, q), Holds(b, q) PROVE FALSE
  <2>1. PICK i \in 1 .. Len(a) : a[i] = q BY <1>7 DEF Holds
  <2>2. PICK j \in 1 .. Len(b) : b[j] = q BY <1>7 DEF Holds
  <2>3. /\ i \in 1 .. Len(s) /\ n + j \in 1 .. Len(s)
        /\ s[i] = s[n + j] /\ i < n + j
    BY <1>1, <1>2, <1>3, <2>1, <2>2
  <2>4. i = n + j BY <2>3 DEF Distinct
  <2> QED BY <1>1, <1>2, <1>3, <2>3, <2>4
<1> QED BY <1>2, <1>3, <1>4, <1>5, <1>6, <1>7 DEF a, b
=============================================================================
