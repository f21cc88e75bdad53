--------------------------- MODULE PhysMemProofs ----------------------------
(***************************************************************************)
(* Proofs about PhysMem, for any amount of memory, any sizes and any       *)
(* number of list nodes: the free list is sorted and merged, no node and   *)
(* no unit of memory is lost or shared, the nodes suffice, and the free    *)
(* list implements the allocator of MemorySpec.                            *)
(***************************************************************************)
EXTENDS PhysMem, SequenceTheorems, FiniteSetTheorems, TLAPS

Blocks == [offset : Int, length : Nat \ {0}]

-----------------------------------------------------------------------------
(* Sequences and counting *)

\* s with what lies between its elements a and b replaced by x.
Patched(s, a, x, b) == SubSeq(s, 1, a) \o <<x>> \o SubSeq(s, b, Len(s))

LEMMA Splice ==
  ASSUME NEW s \in Seq(Blocks), NEW x \in Blocks,
         NEW a \in 0 .. Len(s), NEW b \in a + 1 .. Len(s) + 1
  PROVE  /\ Patched(s, a, x, b) \in Seq(Blocks)
         /\ Len(Patched(s, a, x, b)) = a + 1 + (Len(s) - b + 1)
         /\ \A i \in 1 .. a : Patched(s, a, x, b)[i] = s[i]
         /\ Patched(s, a, x, b)[a + 1] = x
         /\ \A i \in a + 2 .. Len(Patched(s, a, x, b)) :
              Patched(s, a, x, b)[i] = s[i - a - 2 + b]
<1> DEFINE l == SubSeq(s, 1, a)
           r == SubSeq(s, b, Len(s))
           p == l \o <<x>>
           t == p \o r
<1>1. Len(s) \in Nat /\ \A i \in 1 .. Len(s) : s[i] \in Blocks
  BY LenProperties
<1>2. l \in Seq(Blocks) /\ Len(l) = a /\ \A i \in 1 .. a : l[i] = s[i]
  <2>1. \A i \in 1 .. a : s[i] \in Blocks BY <1>1
  <2> QED BY <1>1, <2>1, SubSeqProperties
<1>3. /\ r \in Seq(Blocks) /\ Len(r) = Len(s) - b + 1
      /\ \A i \in 1 .. Len(s) - b + 1 : r[i] = s[b + i - 1]
  <2>1. \A i \in b .. Len(s) : s[i] \in Blocks BY <1>1
  <2> QED BY <1>1, <2>1, SubSeqProperties
<1>4. <<x>> \in Seq(Blocks) /\ Len(<<x>>) = 1 /\ <<x>>[1] = x
  OBVIOUS
<1> HIDE DEF l, r
<1>5. /\ p \in Seq(Blocks) /\ Len(p) = a + 1
      /\ \A i \in 1 .. a + 1 : p[i] = IF i <= a THEN l[i] ELSE x
  <2>1. /\ p \in Seq(Blocks) /\ Len(p) = a + 1
        /\ \A i \in 1 .. a + 1 :
             p[i] = IF i <= a THEN l[i] ELSE <<x>>[i - a]
    BY <1>2, <1>4, ConcatProperties
  <2> QED BY <1>1, <2>1, <1>4
<1> HIDE DEF p
<1>6. /\ t \in Seq(Blocks) /\ Len(t) = a + 1 + Len(r)
      /\ \A i \in 1 .. a + 1 + Len(r) :
           t[i] = IF i <= a + 1 THEN p[i] ELSE r[i - (a + 1)]
  <2>1. /\ t \in Seq(Blocks) /\ Len(t) = Len(p) + Len(r)
        /\ \A i \in 1 .. Len(p) + Len(r) :
             t[i] = IF i <= Len(p) THEN p[i] ELSE r[i - Len(p)]
    BY <1>3, <1>5, ConcatProperties
  <2> QED BY <1>5, <2>1
<1> HIDE DEF t
<1>7. ASSUME NEW i \in 1 .. Len(t)
      PROVE  t[i] = IF i <= a THEN s[i]
                    ELSE IF i = a + 1 THEN x ELSE s[i - a - 2 + b]
  <2>1. CASE i <= a BY <2>1, <1>1, <1>2, <1>3, <1>5, <1>6
  <2>2. CASE i = a + 1 BY <2>2, <1>1, <1>3, <1>5, <1>6
  <2>3. CASE i > a + 1
    <3>0. i \in 1 .. a + 1 + Len(r) /\ ~(i <= a + 1) BY <2>3, <1>3, <1>6
    <3>1. t[i] = r[i - (a + 1)] BY <3>0, <1>6
    <3>2. i - (a + 1) \in 1 .. Len(s) - b + 1
      BY <2>3, <1>1, <1>3, <1>6
    <3>3. r[i - (a + 1)] = s[b + (i - (a + 1)) - 1] BY <1>3, <3>2
    <3>4. b + (i - (a + 1)) - 1 = i - a - 2 + b BY <1>1, <3>2
    <3> QED BY <2>3, <3>1, <3>3, <3>4, <1>1
  <2> QED BY <2>1, <2>2, <2>3, <1>1, <1>3, <1>6
<1>8. /\ \A i \in 1 .. a : t[i] = s[i]
      /\ t[a + 1] = x
      /\ \A i \in a + 2 .. Len(t) : t[i] = s[i - a - 2 + b]
  <2>1. Len(t) = a + 1 + (Len(s) - b + 1) BY <1>3, <1>6
  <2> QED BY <2>1, <1>1, <1>7
<1> QED BY <1>1, <1>3, <1>6, <1>8 DEF t, p, l, r, Patched

\* A sequence with one element removed.
LEMMA Removed ==
  ASSUME NEW S, NEW s \in Seq(S), NEW i \in 1 .. Len(s)
  PROVE  /\ RemoveAt(s, i) \in Seq(S)
         /\ Len(RemoveAt(s, i)) = Len(s) - 1
         /\ \A j \in 1 .. Len(s) - 1 :
              RemoveAt(s, i)[j] = IF j < i THEN s[j] ELSE s[j + 1]
<1> DEFINE l == SubSeq(s, 1, i - 1)
           r == SubSeq(s, i + 1, Len(s))
<1>1. Len(s) \in Nat /\ \A j \in 1 .. Len(s) : s[j] \in S
  BY LenProperties
<1>2. l \in Seq(S) /\ Len(l) = i - 1 /\ \A j \in 1 .. i - 1 : l[j] = s[j]
  <2>1. \A j \in 1 .. i - 1 : s[j] \in S BY <1>1
  <2> QED BY <1>1, <2>1, SubSeqProperties
<1>3. /\ r \in Seq(S) /\ Len(r) = Len(s) - i
      /\ \A j \in 1 .. Len(s) - i : r[j] = s[i + j]
  <2>1. \A j \in i + 1 .. Len(s) : s[j] \in S BY <1>1
  <2>2. /\ r \in Seq(S)
        /\ Len(r) = IF i + 1 <= Len(s) THEN Len(s) - (i + 1) + 1 ELSE 0
        /\ \A j \in 1 .. Len(s) - (i + 1) + 1 : r[j] = s[i + 1 + j - 1]
    BY <1>1, <2>1, SubSeqProperties
  <2> QED BY <1>1, <2>2
<1> HIDE DEF l, r
<1>4. /\ l \o r \in Seq(S) /\ Len(l \o r) = Len(s) - 1
      /\ \A j \in 1 .. Len(s) - 1 :
           (l \o r)[j] = IF j <= i - 1 THEN l[j] ELSE r[j - (i - 1)]
  <2>1. /\ l \o r \in Seq(S) /\ Len(l \o r) = Len(l) + Len(r)
        /\ \A j \in 1 .. Len(l) + Len(r) :
             (l \o r)[j] = IF j <= Len(l) THEN l[j] ELSE r[j - Len(l)]
    BY <1>2, <1>3, ConcatProperties
  <2>2. Len(l) = i - 1 /\ Len(l) + Len(r) = Len(s) - 1
    BY <1>1, <1>2, <1>3
  <2> QED BY <2>1, <2>2
<1>5. ASSUME NEW j \in 1 .. Len(s) - 1
      PROVE  (l \o r)[j] = IF j < i THEN s[j] ELSE s[j + 1]
  <2>1. CASE j < i BY <2>1, <1>1, <1>2, <1>4
  <2>2. CASE j >= i
    <3>1. j - (i - 1) \in 1 .. Len(s) - i BY <2>2, <1>1
    <3>2. r[j - (i - 1)] = s[i + (j - (i - 1))] BY <1>3, <3>1
    <3>3. i + (j - (i - 1)) = j + 1 BY <1>1
    <3>4. ~(j <= i - 1) /\ ~(j < i) BY <2>2, <1>1
    <3>5. (l \o r)[j] = r[j - (i - 1)] BY <3>4, <1>4
    <3>6. r[j - (i - 1)] = s[j + 1] BY <3>2, <3>3, Zenon
    <3> QED BY <3>4, <3>5, <3>6, Zenon
  <2>3. j < i \/ j >= i BY <1>1
  <2> QED BY <2>1, <2>2, <2>3, Zenon
<1> QED BY <1>4, <1>5 DEF l, r, RemoveAt

\* A set of numbers 1, 2, ... without a gap ends at its cardinality.
LEMMA Counted ==
  ASSUME NEW n \in Nat, NEW S \in SUBSET (1 .. n),
         \A k \in S : 1 .. k \subseteq S
  PROVE  Cardinality(S) \in 0 .. n /\ S = 1 .. Cardinality(S)
<1>1. IsFiniteSet(1 .. n) /\ Cardinality(1 .. n) = n
  BY FS_Interval
<1>2. IsFiniteSet(S) /\ Cardinality(S) <= n /\ Cardinality(S) \in Nat
  BY <1>1, FS_Subset, FS_CardinalityType
<1> DEFINE c == Cardinality(S)
<1>3. IsFiniteSet(1 .. c) /\ Cardinality(1 .. c) = c
  BY <1>2, FS_Interval
<1>4. ASSUME NEW k \in S PROVE k <= c
  <2>1. k \in Nat /\ 1 .. k \in SUBSET S OBVIOUS
  <2>2. Cardinality(1 .. k) <= c BY <2>1, <1>2, FS_Subset
  <2>3. Cardinality(1 .. k) = k BY <2>1, FS_Interval
  <2> QED BY <2>2, <2>3
<1>5. S \in SUBSET (1 .. c) BY <1>2, <1>4
<1>6. S = 1 .. c BY <1>3, <1>5, FS_Subset
<1> QED BY <1>2, <1>6

-----------------------------------------------------------------------------
(* Free lists *)

Held(f) == UNION {f[i].offset .. End(f[i]) - 1 : i \in DOMAIN f}
Sorted(f) == \A i, j \in 1 .. Len(f) : i < j => End(f[i]) < f[j].offset

LEMMA BlockEnds ==
  ASSUME NEW f \in Seq(Blocks)
  PROVE  /\ Len(f) \in Nat
         /\ \A i \in 1 .. Len(f) : /\ f[i] \in Blocks
                                  /\ f[i].offset \in Int /\ End(f[i]) \in Int
                                  /\ f[i].offset < End(f[i])
<1>1. ASSUME NEW b \in Blocks
      PROVE  b.offset \in Int /\ End(b) \in Int /\ b.offset < End(b)
  BY DEF Blocks, End
<1> QED BY <1>1, LenProperties

LEMMA HeldUnits ==
  ASSUME NEW f \in Seq(Blocks)
  PROVE  \A u : u \in Held(f) <=>
           /\ u \in Int
           /\ \E i \in 1 .. Len(f) : f[i].offset <= u /\ u < End(f[i])
<1>1. DOMAIN f = 1 .. Len(f) /\ \A i \in 1 .. Len(f) : f[i] \in Blocks
  BY LenProperties
<1>2. ASSUME NEW u
      PROVE  u \in Held(f) <=> \E i \in DOMAIN f :
                                 u \in f[i].offset .. End(f[i]) - 1
  BY DEF Held
<1>3. ASSUME NEW u, NEW i \in 1 .. Len(f)
      PROVE  u \in f[i].offset .. End(f[i]) - 1
               <=> u \in Int /\ f[i].offset <= u /\ u < End(f[i])
  BY <1>1 DEF End, Blocks
<1> QED BY <1>1, <1>2, <1>3

\* Taking a whole block, or the low end of one, from a sorted list.
LEMMA TakenWhole ==
  ASSUME NEW f \in Seq(Blocks), Sorted(f), NEW i \in 1 .. Len(f)
  PROVE  /\ RemoveAt(f, i) \in Seq(Blocks)
         /\ Sorted(RemoveAt(f, i))
         /\ Held(RemoveAt(f, i)) = Held(f) \ (f[i].offset .. End(f[i]) - 1)
<1> DEFINE g == RemoveAt(f, i)
<1>1. /\ Len(f) \in Nat /\ \A j \in 1 .. Len(f) : f[j] \in Blocks
  BY LenProperties
<1>2. /\ g \in Seq(Blocks) /\ Len(g) = Len(f) - 1
      /\ \A j \in 1 .. Len(g) : g[j] = IF j < i THEN f[j] ELSE f[j + 1]
  BY Removed
<1> HIDE DEF g
<1>3. Sorted(g)
  BY <1>1, <1>2 DEF Sorted
<1>4. ASSUME NEW u \in Int
      PROVE  (\E j \in 1 .. Len(g) : g[j].offset <= u /\ u < End(g[j]))
               <=> /\ \E j \in 1 .. Len(f) : f[j].offset <= u /\ u < End(f[j])
                   /\ ~(f[i].offset <= u /\ u < End(f[i]))
  <2>1. ASSUME NEW j \in 1 .. Len(g), g[j].offset <= u, u < End(g[j])
        PROVE  /\ \E k \in 1 .. Len(f) : f[k].offset <= u /\ u < End(f[k])
               /\ ~(f[i].offset <= u /\ u < End(f[i]))
    <3>1. PICK k \in 1 .. Len(f) : k # i /\ g[j] = f[k]
      <4>1. CASE j < i BY <4>1, <1>1, <1>2
      <4>2. CASE j >= i
        <5>1. j + 1 \in 1 .. Len(f) /\ j + 1 # i /\ ~(j < i)
          BY <4>2, <1>1, <1>2
        <5> QED BY <5>1, <1>2
      <4>3. j < i \/ j >= i BY <1>1
      <4> QED BY <4>1, <4>2, <4>3
    <3>2. f[k].offset <= u /\ u < End(f[k]) BY <2>1, <3>1
    <3>3. /\ f[k].offset \in Int /\ End(f[k]) \in Int
          /\ f[i].offset \in Int /\ End(f[i]) \in Int
      BY BlockEnds
    <3>4. k < i => End(f[k]) < f[i].offset BY DEF Sorted
    <3>5. k > i => End(f[i]) < f[k].offset BY DEF Sorted
    <3>6. ~(f[i].offset <= u /\ u < End(f[i]))
      BY <3>1, <3>2, <3>3, <3>4, <3>5, <1>1
    <3> QED BY <3>2, <3>6
  <2>2. ASSUME NEW k \in 1 .. Len(f), f[k].offset <= u, u < End(f[k]),
               ~(f[i].offset <= u /\ u < End(f[i]))
        PROVE  \E j \in 1 .. Len(g) : g[j].offset <= u /\ u < End(g[j])
    <3>1. k # i BY <2>2
    <3>2. CASE k < i
      <4>1. k \in 1 .. Len(g) /\ g[k] = f[k] BY <3>2, <1>1, <1>2
      <4> QED BY <2>2, <4>1
    <3>3. CASE k > i
      <4>1. k - 1 \in 1 .. Len(g) /\ ~(k - 1 < i) /\ k - 1 + 1 = k
        BY <3>3, <1>1, <1>2
      <4>2. g[k - 1] = f[k] BY <4>1, <1>2
      <4> QED BY <2>2, <4>1, <4>2
    <3> QED BY <3>1, <3>2, <3>3, <1>1
  <2> QED BY <2>1, <2>2
<1>5. f[i].offset \in Int /\ End(f[i]) \in Int BY <1>1 DEF Blocks, End
<1>6. ASSUME NEW u
      PROVE  u \in Held(g) <=> u \in Held(f) \ (f[i].offset .. End(f[i]) - 1)
  <2>1. u \in f[i].offset .. End(f[i]) - 1
          <=> u \in Int /\ f[i].offset <= u /\ u < End(f[i])
    BY <1>5
  <2>2. u \in Held(g) <=>
          u \in Int /\ \E j \in 1 .. Len(g) : g[j].offset <= u /\ u < End(g[j])
    BY <1>2, HeldUnits
  <2>3. u \in Held(f) <=>
          u \in Int /\ \E j \in 1 .. Len(f) : f[j].offset <= u /\ u < End(f[j])
    BY HeldUnits
  <2> QED BY <1>4, <2>1, <2>2, <2>3, Zenon
<1> QED BY <1>2, <1>3, <1>6 DEF g

LEMMA TakenLow ==
  ASSUME NEW f \in Seq(Blocks), Sorted(f), NEW i \in 1 .. Len(f),
         NEW size \in Nat \ {0}, size < f[i].length
  PROVE  LET b == Block(f[i].offset + size, f[i].length - size)
             g == [f EXCEPT ![i] = b]
         IN  /\ g \in Seq(Blocks)
             /\ Sorted(g)
             /\ Len(g) = Len(f)
             /\ Held(g) = Held(f) \ (f[i].offset .. f[i].offset + size - 1)
<1> DEFINE b == Block(f[i].offset + size, f[i].length - size)
           g == [f EXCEPT ![i] = b]
<1>1. /\ Len(f) \in Nat /\ \A j \in 1 .. Len(f) : f[j] \in Blocks
  BY LenProperties
<1>2. b \in Blocks /\ End(b) = End(f[i]) /\ b.offset = f[i].offset + size
  <2>1. f[i] \in Blocks BY <1>1
  <2> QED BY <2>1 DEF Block, Blocks, End
<1> HIDE DEF b
<1>3. /\ g \in Seq(Blocks) /\ Len(g) = Len(f)
      /\ \A j \in 1 .. Len(f) : g[j] = IF j = i THEN b ELSE f[j]
  BY <1>2, ExceptSeq
<1> HIDE DEF g
<1>4. f[i].offset \in Int /\ End(f[i]) \in Int /\ f[i].offset + size < End(f[i])
  <2>1. f[i] \in Blocks BY <1>1
  <2> QED BY <2>1 DEF Blocks, End
<1>5. ASSUME NEW j \in 1 .. Len(f), NEW k \in 1 .. Len(f), j < k
      PROVE  End(g[j]) < g[k].offset
  <2>1. End(f[j]) < f[k].offset BY <1>5 DEF Sorted
  <2>2. /\ f[j].offset \in Int /\ End(f[j]) \in Int
        /\ f[k].offset \in Int /\ End(f[k]) \in Int
    BY BlockEnds
  <2>3. CASE k = i
    <3>1. j # i /\ g[j] = f[j] /\ g[k] = b BY <2>3, <1>1, <1>3, <1>5
    <3> QED BY <2>1, <2>2, <2>3, <3>1, <1>2, <1>4
  <2>4. CASE j = i
    <3>1. k # i /\ g[k] = f[k] /\ g[j] = b BY <2>4, <1>1, <1>3, <1>5
    <3> QED BY <2>1, <2>2, <2>4, <3>1, <1>2, <1>4
  <2>5. CASE k # i /\ j # i
    BY <2>1, <2>5, <1>3
  <2> QED BY <2>3, <2>4, <2>5
<1>6. Sorted(g) BY <1>3, <1>5 DEF Sorted
<1>7. ASSUME NEW u \in Int
      PROVE  (\E j \in 1 .. Len(f) : g[j].offset <= u /\ u < End(g[j]))
               <=> /\ \E j \in 1 .. Len(f) : f[j].offset <= u /\ u < End(f[j])
                   /\ ~(f[i].offset <= u /\ u < f[i].offset + size)
  <2>1. ASSUME NEW j \in 1 .. Len(f), g[j].offset <= u, u < End(g[j])
        PROVE  /\ \E k \in 1 .. Len(f) : f[k].offset <= u /\ u < End(f[k])
               /\ ~(f[i].offset <= u /\ u < f[i].offset + size)
    <3>1. CASE j = i BY <2>1, <3>1, <1>2, <1>3, <1>4
    <3>2. CASE j # i
      <4>1. f[j].offset <= u /\ u < End(f[j]) BY <2>1, <3>2, <1>3
      <4>2. f[j].offset \in Int /\ End(f[j]) \in Int BY BlockEnds
      <4>3. j < i => End(f[j]) < f[i].offset BY DEF Sorted
      <4>4. j > i => End(f[i]) < f[j].offset BY DEF Sorted
      <4>5. ~(f[i].offset <= u /\ u < f[i].offset + size)
        BY <3>2, <4>1, <4>2, <4>3, <4>4, <1>1, <1>4
      <4> QED BY <4>1, <4>5
    <3> QED BY <3>1, <3>2
  <2>2. ASSUME NEW k \in 1 .. Len(f), f[k].offset <= u, u < End(f[k]),
               ~(f[i].offset <= u /\ u < f[i].offset + size)
        PROVE  \E j \in 1 .. Len(f) : g[j].offset <= u /\ u < End(g[j])
    <3>1. CASE k = i BY <2>2, <3>1, <1>2, <1>3, <1>4
    <3>2. CASE k # i BY <2>2, <3>2, <1>3
    <3> QED BY <3>1, <3>2
  <2> QED BY <2>1, <2>2
<1>8. ASSUME NEW u
      PROVE  u \in Held(g)
               <=> u \in Held(f) \ (f[i].offset .. f[i].offset + size - 1)
  <2>1. u \in f[i].offset .. f[i].offset + size - 1
          <=> u \in Int /\ f[i].offset <= u /\ u < f[i].offset + size
    BY <1>4
  <2>2. u \in Held(g) <=>
          u \in Int /\ \E j \in 1 .. Len(f) : g[j].offset <= u /\ u < End(g[j])
    BY <1>3, HeldUnits
  <2>3. u \in Held(f) <=>
          u \in Int /\ \E j \in 1 .. Len(f) : f[j].offset <= u /\ u < End(f[j])
    BY HeldUnits
  <2> QED BY <1>7, <2>1, <2>2, <2>3, Zenon
<1> QED BY <1>3, <1>6, <1>8 DEF g, b

\* Putting a block between block a and block b of a sorted list, in place of
\* those between them.
LEMMA Inserted ==
  ASSUME NEW f \in Seq(Blocks), Sorted(f), NEW x \in Blocks,
         NEW a \in 0 .. Len(f), NEW b \in a + 1 .. Len(f) + 1,
         \A i \in 1 .. a : End(f[i]) < x.offset,
         \A i \in b .. Len(f) : End(x) < f[i].offset
  PROVE  LET g == Patched(f, a, x, b)
         IN  /\ g \in Seq(Blocks)
             /\ Sorted(g)
             /\ Len(g) = a + 1 + (Len(f) - b + 1)
             /\ \A u : u \in Held(g) <=>
                  /\ u \in Int
                  /\ \/ x.offset <= u /\ u < End(x)
                     \/ \E i \in 1 .. a : f[i].offset <= u /\ u < End(f[i])
                     \/ \E i \in b .. Len(f) :
                          f[i].offset <= u /\ u < End(f[i])
<1> DEFINE g == Patched(f, a, x, b)
<1>1. /\ g \in Seq(Blocks)
      /\ Len(g) = a + 1 + (Len(f) - b + 1)
      /\ \A i \in 1 .. a : g[i] = f[i]
      /\ g[a + 1] = x
      /\ \A i \in a + 2 .. Len(g) : g[i] = f[i - a - 2 + b]
  BY Splice
<1> HIDE DEF g
<1>2. /\ Len(f) \in Nat
      /\ \A i \in 1 .. Len(f) : /\ f[i].offset \in Int /\ End(f[i]) \in Int
                                /\ f[i].offset < End(f[i])
  BY BlockEnds
<1>3. x.offset \in Int /\ End(x) \in Int /\ x.offset < End(x)
  BY DEF Blocks, End
<1>4. \A i \in 1 .. Len(g) : \/ i <= a /\ g[i] = f[i] /\ i \in 1 .. a
                             \/ i = a + 1 /\ g[i] = x
                             \/ /\ i > a + 1 /\ g[i] = f[i - a - 2 + b]
                                /\ i - a - 2 + b \in b .. Len(f)
  BY <1>1, <1>2
<1>5. ASSUME NEW i \in 1 .. Len(g), NEW j \in 1 .. Len(g), i < j
      PROVE  End(g[i]) < g[j].offset
  <2>0. /\ 1 .. a \subseteq 1 .. Len(f) /\ b .. Len(f) \subseteq 1 .. Len(f)
        /\ i \in Int /\ j \in Int /\ a \in Int /\ b \in Int
    BY <1>1, <1>2
  <2>1. CASE i <= a /\ g[i] = f[i] /\ i \in 1 .. a
    <3>1. CASE j <= a /\ g[j] = f[j] /\ j \in 1 .. a
      BY <2>0, <2>1, <3>1, <1>5 DEF Sorted
    <3>2. CASE j = a + 1 /\ g[j] = x
      BY <2>1, <3>2
    <3>3. CASE /\ j > a + 1 /\ g[j] = f[j - a - 2 + b]
               /\ j - a - 2 + b \in b .. Len(f)
      <4>1. i < j - a - 2 + b BY <2>0, <2>1, <3>3
      <4>2. i \in 1 .. Len(f) /\ j - a - 2 + b \in 1 .. Len(f)
        BY <2>0, <2>1, <3>3
      <4> QED BY <2>1, <3>3, <4>1, <4>2 DEF Sorted
    <3> QED BY <3>1, <3>2, <3>3, <1>4
  <2>2. CASE i = a + 1 /\ g[i] = x
    <3>1. /\ g[j] = f[j - a - 2 + b]
          /\ j - a - 2 + b \in b .. Len(f)
      BY <2>0, <2>2, <1>4, <1>5
    <3> QED BY <2>2, <3>1
  <2>3. CASE /\ i > a + 1 /\ g[i] = f[i - a - 2 + b]
             /\ i - a - 2 + b \in b .. Len(f)
    <3>1. /\ g[j] = f[j - a - 2 + b]
          /\ j - a - 2 + b \in b .. Len(f)
      BY <2>0, <2>3, <1>4, <1>5
    <3>2. i - a - 2 + b < j - a - 2 + b BY <2>0, <1>5
    <3>3. i - a - 2 + b \in 1 .. Len(f) /\ j - a - 2 + b \in 1 .. Len(f)
      BY <2>0, <2>3, <3>1
    <3> QED BY <2>3, <3>1, <3>2, <3>3 DEF Sorted
  <2> QED BY <2>1, <2>2, <2>3, <1>4
<1>6. Sorted(g) BY <1>5 DEF Sorted
<1>7. ASSUME NEW u \in Int
      PROVE  (\E j \in 1 .. Len(g) : g[j].offset <= u /\ u < End(g[j])) <=>
               \/ x.offset <= u /\ u < End(x)
               \/ \E i \in 1 .. a : f[i].offset <= u /\ u < End(f[i])
               \/ \E i \in b .. Len(f) : f[i].offset <= u /\ u < End(f[i])
  <2>1. ASSUME NEW j \in 1 .. Len(g), g[j].offset <= u, u < End(g[j])
        PROVE  \/ x.offset <= u /\ u < End(x)
               \/ \E i \in 1 .. a : f[i].offset <= u /\ u < End(f[i])
               \/ \E i \in b .. Len(f) : f[i].offset <= u /\ u < End(f[i])
    BY <2>1, <1>4
  <2>2. ASSUME x.offset <= u, u < End(x)
        PROVE  \E j \in 1 .. Len(g) : g[j].offset <= u /\ u < End(g[j])
    <3>1. a + 1 \in 1 .. Len(g) BY <1>1, <1>2
    <3>2. g[a + 1] = x BY <1>1
    <3> QED BY <2>2, <3>1, <3>2
  <2>3. ASSUME NEW i \in 1 .. a, f[i].offset <= u, u < End(f[i])
        PROVE  \E j \in 1 .. Len(g) : g[j].offset <= u /\ u < End(g[j])
    <3>1. i \in 1 .. Len(g) BY <1>1, <1>2
    <3>2. g[i] = f[i] BY <1>1
    <3> QED BY <2>3, <3>1, <3>2
  <2>4. ASSUME NEW i \in b .. Len(f), f[i].offset <= u, u < End(f[i])
        PROVE  \E j \in 1 .. Len(g) : g[j].offset <= u /\ u < End(g[j])
    <3> DEFINE j == i - b + a + 2
    <3>1. /\ j \in 1 .. Len(g) /\ j \in a + 2 .. Len(g)
          /\ j - a - 2 + b = i
      BY <1>1, <1>2
    <3> HIDE DEF j
    <3>2. g[j] = f[j - a - 2 + b] BY <3>1, <1>1, Zenon
    <3>3. g[j] = f[i] BY <3>1, <3>2
    <3> QED BY <2>4, <3>1, <3>3
  <2> QED BY <2>1, <2>2, <2>3, <2>4
<1>8. \A u : u \in Held(g) <=>
        /\ u \in Int
        /\ \E j \in 1 .. Len(g) : g[j].offset <= u /\ u < End(g[j])
  BY <1>1, HeldUnits
<1>9. \A u : u \in Held(g) <=>
                  /\ u \in Int
                  /\ \/ x.offset <= u /\ u < End(x)
                     \/ \E i \in 1 .. a : f[i].offset <= u /\ u < End(f[i])
                     \/ \E i \in b .. Len(f) :
                          f[i].offset <= u /\ u < End(f[i])
  BY <1>7, <1>8, Zenon
<1> QED BY <1>1, <1>6, <1>9, Zenon DEF g

\* Where a block that is not free belongs in a sorted list.
LEMMA Between ==
  ASSUME NEW f \in Seq(Blocks), Sorted(f), NEW mem \in Blocks,
         \A u \in mem.offset .. End(mem) - 1 : u \notin Held(f)
  PROVE  LET n == Cardinality({i \in DOMAIN f : f[i].offset <= mem.offset})
         IN  /\ n \in 0 .. Len(f)
             /\ \A i \in 1 .. n : End(f[i]) <= mem.offset
             /\ \A i \in n + 1 .. Len(f) : End(mem) <= f[i].offset
<1> DEFINE S == {i \in DOMAIN f : f[i].offset <= mem.offset}
           n == Cardinality(S)
<1>1. /\ Len(f) \in Nat /\ DOMAIN f = 1 .. Len(f)
      /\ \A i \in 1 .. Len(f) : /\ f[i].offset \in Int /\ End(f[i]) \in Int
                                /\ f[i].offset < End(f[i])
  BY BlockEnds, LenProperties
<1>2. mem.offset \in Int /\ End(mem) \in Int /\ mem.offset < End(mem)
  BY DEF Blocks, End
<1>3. S \in SUBSET (1 .. Len(f)) BY <1>1
<1>4. ASSUME NEW k \in S, NEW j \in 1 .. k PROVE j \in S
  <2>1. k \in 1 .. Len(f) /\ j \in 1 .. Len(f) BY <1>1
  <2>2. CASE j = k BY <2>2
  <2>3. CASE j < k
    <3>1. End(f[j]) < f[k].offset BY <2>1, <2>3 DEF Sorted
    <3>2. f[k].offset <= mem.offset OBVIOUS
    <3>3. f[j].offset <= mem.offset BY <1>1, <1>2, <2>1, <3>1, <3>2
    <3> QED BY <1>1, <2>1, <3>3
  <2> QED BY <1>1, <2>1, <2>2, <2>3
<1> HIDE DEF S
<1>5. n \in 0 .. Len(f) /\ S = 1 .. n
  BY <1>1, <1>3, <1>4, Counted
<1> HIDE DEF n
<1>6. \A u : u \in Held(f) <=>
           /\ u \in Int
           /\ \E i \in 1 .. Len(f) : f[i].offset <= u /\ u < End(f[i])
  BY HeldUnits
<1>7. ASSUME NEW i \in 1 .. n PROVE End(f[i]) <= mem.offset
  <2>1. i \in 1 .. Len(f) /\ i \in S BY <1>1, <1>5
  <2>2. f[i].offset <= mem.offset BY <2>1 DEF S
  <2>3. mem.offset \notin Held(f) BY <1>2
  <2>4. ~(mem.offset < End(f[i])) BY <1>2, <1>6, <2>1, <2>2, <2>3
  <2> QED BY <1>1, <1>2, <2>1, <2>4
<1>8. ASSUME NEW i \in n + 1 .. Len(f) PROVE End(mem) <= f[i].offset
  <2>1. i \in 1 .. Len(f) /\ i \notin S BY <1>1, <1>5
  <2>2. ~(f[i].offset <= mem.offset) BY <1>1, <2>1 DEF S
  <2>3. f[i].offset \in Int /\ f[i].offset < End(f[i]) /\ End(f[i]) \in Int
    BY <1>1, <2>1
  <2>4. f[i].offset \in Held(f) BY <1>6, <2>1, <2>3
  <2>5. f[i].offset \notin mem.offset .. End(mem) - 1 BY <2>4
  <2> QED BY <1>2, <2>2, <2>3, <2>5
<1> QED BY <1>5, <1>7, <1>8 DEF n, S

\* _phys_free on a list: the units of the block are free, the list is still
\* sorted and merged, and it has one block more for each neighbour that is
\* not merged.
LEMMA Given ==
  ASSUME NEW f \in Seq(Blocks), Sorted(f), NEW mem \in Blocks,
         NEW n \in 0 .. Len(f),
         \A i \in 1 .. n : End(f[i]) <= mem.offset,
         \A i \in n + 1 .. Len(f) : End(mem) <= f[i].offset
  PROVE  LET below == n > 0 /\ End(f[n]) = mem.offset
             above == n < Len(f) /\ f[n + 1].offset = End(mem)
             lo == IF below THEN f[n].offset ELSE mem.offset
             hi == IF above THEN End(f[n + 1]) ELSE End(mem)
             g == Patched(f, IF below THEN n - 1 ELSE n, Block(lo, hi - lo),
                          IF above THEN n + 2 ELSE n + 1)
         IN  /\ g \in Seq(Blocks)
             /\ Sorted(g)
             /\ Len(g) = Len(f) + 1 - (IF below THEN 1 ELSE 0)
                                    - (IF above THEN 1 ELSE 0)
             /\ Held(g) = Held(f) \cup (mem.offset .. End(mem) - 1)
             /\ below \/ above <=>
                  \E i \in 1 .. Len(f) : \/ End(f[i]) = mem.offset
                                         \/ f[i].offset = End(mem)
<1> DEFINE below == n > 0 /\ End(f[n]) = mem.offset
           above == n < Len(f) /\ f[n + 1].offset = End(mem)
           lo == IF below THEN f[n].offset ELSE mem.offset
           hi == IF above THEN End(f[n + 1]) ELSE End(mem)
           a == IF below THEN n - 1 ELSE n
           b == IF above THEN n + 2 ELSE n + 1
           x == Block(lo, hi - lo)
           g == Patched(f, a, x, b)
<1>1. /\ Len(f) \in Nat /\ n \in Nat
      /\ \A i \in 1 .. Len(f) : /\ f[i].offset \in Int /\ End(f[i]) \in Int
                                /\ f[i].offset < End(f[i])
  BY BlockEnds
<1>2. mem.offset \in Int /\ End(mem) \in Int /\ mem.offset < End(mem)
  BY DEF Blocks, End
<1>3. /\ below => n \in 1 .. n /\ n \in 1 .. Len(f)
      /\ above => n + 1 \in n + 1 .. Len(f) /\ n + 1 \in 1 .. Len(f)
  BY <1>1
<1>4. /\ lo \in Int /\ hi \in Int /\ lo <= mem.offset /\ End(mem) <= hi
      /\ below => lo < mem.offset
      /\ above => End(mem) < hi
  BY <1>1, <1>2, <1>3
<1>5. x \in Blocks /\ x.offset = lo /\ End(x) = hi
  <2>1. hi - lo \in Nat \ {0} /\ lo + (hi - lo) = hi BY <1>2, <1>4
  <2> HIDE DEF lo, hi
  <2> QED BY <1>4, <2>1 DEF Block, Blocks, End
<1>6. a \in 0 .. Len(f) /\ b \in a + 1 .. Len(f) + 1
  BY <1>1, <1>3
<1>7. ASSUME NEW i \in 1 .. a PROVE End(f[i]) < lo
  <2>1. i \in 1 .. n /\ i \in 1 .. Len(f) BY <1>1, <1>6
  <2>2. CASE below
    <3>1. i < n /\ n \in 1 .. Len(f) BY <2>2, <1>1, <1>3
    <3> QED BY <2>1, <2>2, <3>1 DEF Sorted
  <2>3. CASE ~below
    <3>1. End(f[i]) <= mem.offset BY <2>1
    <3>2. CASE i = n BY <2>1, <2>3, <3>1, <3>2, <1>1, <1>2
    <3>3. CASE i < n
      <4>1. n \in 1 .. Len(f) /\ n \in 1 .. n BY <3>3, <2>1, <1>1
      <4>2. End(f[i]) < f[n].offset BY <2>1, <3>3, <4>1 DEF Sorted
      <4>3. End(f[n]) <= mem.offset BY <4>1
      <4> QED BY <2>1, <2>3, <4>1, <4>2, <4>3, <1>1, <1>2
    <3> QED BY <2>1, <3>2, <3>3, <1>1
  <2> QED BY <2>2, <2>3
<1>8. ASSUME NEW i \in b .. Len(f) PROVE hi < f[i].offset
  <2>1. i \in n + 1 .. Len(f) /\ i \in 1 .. Len(f) BY <1>1, <1>6
  <2>2. CASE above
    <3>1. n + 1 < i /\ n + 1 \in 1 .. Len(f) BY <2>2, <1>1, <1>3
    <3> QED BY <2>1, <2>2, <3>1 DEF Sorted
  <2>3. CASE ~above
    <3>1. End(mem) <= f[i].offset BY <2>1
    <3>2. CASE i = n + 1 BY <2>1, <2>3, <3>1, <3>2, <1>1, <1>2
    <3>3. CASE i > n + 1
      <4>1. n + 1 \in 1 .. Len(f) /\ n + 1 \in n + 1 .. Len(f)
        BY <3>3, <2>1, <1>1
      <4>2. End(f[n + 1]) < f[i].offset BY <2>1, <3>3, <4>1 DEF Sorted
      <4>3. End(mem) <= f[n + 1].offset BY <4>1
      <4> QED BY <2>1, <2>3, <4>1, <4>2, <4>3, <1>1, <1>2
    <3> QED BY <2>1, <3>2, <3>3, <1>1
  <2> QED BY <2>2, <2>3
<1>9. /\ g \in Seq(Blocks) /\ Sorted(g)
      /\ Len(g) = a + 1 + (Len(f) - b + 1)
      /\ \A u : u \in Held(g) <=>
                  /\ u \in Int
                  /\ \/ x.offset <= u /\ u < End(x)
                     \/ \E i \in 1 .. a : f[i].offset <= u /\ u < End(f[i])
                     \/ \E i \in b .. Len(f) :
                          f[i].offset <= u /\ u < End(f[i])
  <2> HIDE DEF a, b, x, lo, hi
  <2>1. \A i \in 1 .. a : End(f[i]) < x.offset BY <1>5, <1>7
  <2>2. \A i \in b .. Len(f) : End(x) < f[i].offset BY <1>5, <1>8
  <2> QED BY <1>5, <1>6, <2>1, <2>2, Inserted
<1> HIDE DEF g, x
<1>10. Len(g) = Len(f) + 1 - (IF below THEN 1 ELSE 0)
                           - (IF above THEN 1 ELSE 0)
  <2>1. Len(g) = a + 1 + (Len(f) - b + 1) BY <1>9
  <2> HIDE DEF below, above
  <2> QED BY <2>1, <1>1
<1>11. ASSUME NEW u \in Int
       PROVE  \/ lo <= u /\ u < hi
              \/ \E i \in 1 .. a : f[i].offset <= u /\ u < End(f[i])
              \/ \E i \in b .. Len(f) : f[i].offset <= u /\ u < End(f[i])
              <=>
              \/ mem.offset <= u /\ u < End(mem)
              \/ \E i \in 1 .. Len(f) : f[i].offset <= u /\ u < End(f[i])
  <2>1. ASSUME lo <= u, u < hi
        PROVE  \/ mem.offset <= u /\ u < End(mem)
               \/ \E i \in 1 .. Len(f) : f[i].offset <= u /\ u < End(f[i])
    <3>1. CASE u < mem.offset
      <4>1. below BY <2>1, <3>1, <1>2
      <4> QED BY <2>1, <3>1, <4>1, <1>3
    <3>2. CASE u >= End(mem)
      <4>1. above BY <2>1, <3>2, <1>2
      <4> QED BY <2>1, <3>2, <4>1, <1>3
    <3> QED BY <3>1, <3>2, <1>2
  <2>2. 1 .. a \subseteq 1 .. Len(f) /\ b .. Len(f) \subseteq 1 .. Len(f)
    BY <1>1, <1>6
  <2>3. ASSUME mem.offset <= u, u < End(mem)
        PROVE  lo <= u /\ u < hi
    <3> HIDE DEF lo, hi, below, above
    <3> QED BY <2>3, <1>2, <1>4
  <2>4. ASSUME NEW i \in 1 .. Len(f), f[i].offset <= u, u < End(f[i])
        PROVE  \/ lo <= u /\ u < hi
               \/ i \in 1 .. a
               \/ i \in b .. Len(f)
    <3>1. CASE i <= a BY <3>1, <1>1, <1>6
    <3>2. CASE i >= b BY <3>2, <1>1, <1>6
    <3>3. CASE a < i /\ i < b
      <4>1. (below /\ i = n) \/ (above /\ i = n + 1) BY <3>3, <1>1
      <4>2. CASE below /\ i = n
        <5>1. f[i].offset = lo /\ End(f[i]) = mem.offset BY <4>2
        <5> HIDE DEF lo, hi, below, above
        <5> QED BY <5>1, <2>4, <1>2, <1>4
      <4>3. CASE above /\ i = n + 1
        <5>1. End(f[i]) = hi /\ f[i].offset = End(mem) BY <4>3
        <5> HIDE DEF lo, hi, below, above
        <5> QED BY <5>1, <2>4, <1>2, <1>4
      <4> QED BY <4>1, <4>2, <4>3
    <3> QED BY <3>1, <3>2, <3>3, <1>1, <1>6
  <2> HIDE DEF lo, hi, a, b
  <2> QED BY <2>1, <2>2, <2>3, <2>4
<1>12. Held(g) = Held(f) \cup (mem.offset .. End(mem) - 1)
  <2> HIDE DEF lo, hi, a, b, below, above
  <2>1. ASSUME NEW u
        PROVE  u \in Held(g)
                 <=> u \in Held(f) \cup (mem.offset .. End(mem) - 1)
    <3>1. u \in mem.offset .. End(mem) - 1
            <=> u \in Int /\ mem.offset <= u /\ u < End(mem)
      BY <1>2
    <3>2. u \in Held(f) <=>
            u \in Int /\ \E i \in 1 .. Len(f) :
                           f[i].offset <= u /\ u < End(f[i])
      BY HeldUnits
    <3>3. u \in Held(g) <=>
                  /\ u \in Int
                  /\ \/ lo <= u /\ u < hi
                     \/ \E i \in 1 .. a : f[i].offset <= u /\ u < End(f[i])
                     \/ \E i \in b .. Len(f) :
                          f[i].offset <= u /\ u < End(f[i])
      <4>1. x.offset = lo /\ End(x) = hi BY <1>5
      <4> QED BY <4>1, <1>9
    <3> QED BY <1>11, <3>1, <3>2, <3>3, Zenon
  <2> QED BY <2>1
<1>13. below \/ above <=>
         \E i \in 1 .. Len(f) : \/ End(f[i]) = mem.offset
                                \/ f[i].offset = End(mem)
  <2>1. below \/ above =>
          \E i \in 1 .. Len(f) : \/ End(f[i]) = mem.offset
                                 \/ f[i].offset = End(mem)
    BY <1>3
  <2>2. ASSUME NEW i \in 1 .. Len(f), End(f[i]) = mem.offset
        PROVE  below
    <3>1. i <= n
      <4>1. SUFFICES ASSUME i > n PROVE FALSE BY <1>1
      <4>2. i \in n + 1 .. Len(f) BY <4>1, <1>1
      <4> QED BY <2>2, <4>2, <1>1, <1>2
    <3>2. n > 0 /\ n \in 1 .. n /\ n \in 1 .. Len(f) BY <3>1, <1>1
    <3>3. i = n
      <4>1. SUFFICES ASSUME i < n PROVE FALSE BY <3>1, <1>1
      <4>2. End(f[i]) < f[n].offset BY <3>2, <4>1 DEF Sorted
      <4>3. End(f[n]) <= mem.offset BY <3>2
      <4> QED BY <2>2, <3>2, <4>2, <4>3, <1>1, <1>2
    <3> QED BY <2>2, <3>2, <3>3
  <2>3. ASSUME NEW i \in 1 .. Len(f), f[i].offset = End(mem)
        PROVE  above
    <3>1. i >= n + 1
      <4>1. SUFFICES ASSUME i \in 1 .. n PROVE FALSE BY <1>1
      <4> QED BY <2>3, <4>1, <1>1, <1>2
    <3>2. n < Len(f) /\ n + 1 \in n + 1 .. Len(f) /\ n + 1 \in 1 .. Len(f)
      BY <3>1, <1>1
    <3>3. i = n + 1
      <4>1. SUFFICES ASSUME n + 1 < i PROVE FALSE BY <3>1, <1>1
      <4>2. End(f[n + 1]) < f[i].offset BY <3>2, <4>1 DEF Sorted
      <4>3. End(mem) <= f[n + 1].offset BY <3>2
      <4> QED BY <2>3, <3>2, <4>2, <4>3, <1>1, <1>2
    <3> QED BY <2>3, <3>2, <3>3
  <2> QED BY <2>1, <2>2, <2>3
<1> QED BY <1>9, <1>10, <1>12, <1>13 DEF g, x

-----------------------------------------------------------------------------
(* Free and allocated units *)

Units == Bottom .. g_physical_memory - 1
RunOf(b) == Abstract!Run(b.offset, b.length)

\* Every unit of U is in F or in one block of O, and no other unit is.
Fair(F, O) ==
  /\ F \subseteq Units
  /\ \A b \in O : RunOf(b) \subseteq Units /\ RunOf(b) \cap F = {}
  /\ \A u \in Units : u \in F \/ \E b \in O : u \in RunOf(b)
  /\ \A a, b \in O : RunOf(a) \cap RunOf(b) # {} => a = b

LEMMA TakeFair ==
  ASSUME NEW F, NEW O, Fair(F, O), NEW b, RunOf(b) \subseteq F
  PROVE  Fair(F \ RunOf(b), O \cup {b})
BY DEF Fair

LEMMA GiveFair ==
  ASSUME NEW F, NEW O, Fair(F, O), NEW b \in O
  PROVE  Fair(F \cup RunOf(b), O \ {b})
BY DEF Fair

LEMMA FairIsShared ==
  ASSUME Fair(FreeUnits, owned)
  PROVE  NoneLostNoneShared
BY DEF Fair, RunOf, NoneLostNoneShared, Abstract!NoneLostNoneShared, Units

LEMMA RunUnits ==
  ASSUME NEW b \in Blocks
  PROVE  /\ RunOf(b) = b.offset .. End(b) - 1
         /\ \A u : u \in RunOf(b) <=> u \in Int /\ b.offset <= u /\ u < End(b)
<1>1. RunOf(b) = b.offset .. b.offset + b.length - 1
  BY DEF RunOf, Abstract!Run
<1>2. b.offset \in Int /\ b.length \in Int /\ End(b) = b.offset + b.length
  BY DEF Blocks, End
<1> QED BY <1>1, <1>2

-----------------------------------------------------------------------------
(* The inductive invariant *)

IInv ==
  /\ g_freemem \in Seq(Blocks)
  /\ g_nodepool \in Nat
  /\ mstat \in {"running", "panic_range", "panic_nodes"}
  /\ owned \in SUBSET Blocks
  /\ IsFiniteSet(owned)
  /\ Sorted(g_freemem)
  /\ NodesKept
  /\ Fair(Held(g_freemem), owned)

LEMMA FreeIsHeld == FreeUnits = Held(g_freemem)
BY DEF FreeUnits, Held

LEMMA InitInv == Init => IInv /\ FreeUnits = Units
<1> SUFFICES ASSUME Init PROVE IInv /\ FreeUnits = Units
  OBVIOUS
<1> DEFINE b == Block(Bottom, g_physical_memory - Bottom)
<1>1. g_freemem = <<b>> /\ g_nodepool = MAX_BLOCKS - 1 /\ owned = {}
  BY DEF Init
<1>2. /\ Bottom \in Int /\ g_physical_memory \in Int /\ MAX_BLOCKS \in Nat \ {0}
      /\ Bottom < g_physical_memory
  BY MemoryAssumption DEF Bottom
<1>3. b \in Blocks /\ b.offset = Bottom /\ End(b) = g_physical_memory
  BY <1>2 DEF Block, Blocks, End
<1> HIDE DEF b
<1>4. /\ g_freemem \in Seq(Blocks) /\ Len(g_freemem) = 1
      /\ g_freemem[1] = b /\ 1 .. Len(g_freemem) = {1}
  BY <1>1, <1>3
<1>5. Sorted(g_freemem)
  BY <1>4 DEF Sorted
<1>6. NodesKept
  BY <1>1, <1>2, <1>4 DEF NodesKept
<1>7. Held(g_freemem) = Units
  <2>1. \A u : u \in Held(g_freemem) <=>
           /\ u \in Int
           /\ \E i \in 1 .. Len(g_freemem) :
                g_freemem[i].offset <= u /\ u < End(g_freemem[i])
    BY <1>4, HeldUnits
  <2>2. \A u : u \in Units <=> u \in Int /\ Bottom <= u /\ u < g_physical_memory
    BY <1>2 DEF Units
  <2> QED BY <2>1, <2>2, <1>3, <1>4
<1>8. Fair(Held(g_freemem), owned)
  BY <1>1, <1>7 DEF Fair
<1>9. IsFiniteSet(owned) /\ owned \in SUBSET Blocks
  BY <1>1, FS_EmptySet
<1>10. g_nodepool \in Nat BY <1>1, <1>2
<1> QED BY <1>4, <1>5, <1>6, <1>7, <1>8, <1>9, <1>10, FreeIsHeld DEF IInv, Init

\* What _phys_alloc does to the free list.
LEMMA AllocList ==
  ASSUME IInv, NEW size \in Sizes, NEW i \in FirstFit(size), TakeLow(i, size)
  PROVE  /\ g_freemem' \in Seq(Blocks)
         /\ Sorted(g_freemem')
         /\ g_nodepool' \in Nat
         /\ NodesKept'
         /\ Block(g_freemem[i].offset, size) \in Blocks
         /\ RunOf(Block(g_freemem[i].offset, size)) \subseteq Held(g_freemem)
         /\ Held(g_freemem') =
              Held(g_freemem) \ RunOf(Block(g_freemem[i].offset, size))
<1> DEFINE f == g_freemem
           b == Block(f[i].offset, size)
<1>1. /\ f \in Seq(Blocks) /\ Sorted(f) /\ Len(f) \in Nat
      /\ g_nodepool \in Nat
      /\ Len(f) + g_nodepool = MAX_BLOCKS
  BY LenProperties DEF IInv, NodesKept
<1>2. size \in Nat \ {0} BY MemoryAssumption
<1>3. i \in 1 .. Len(f) /\ f[i].length >= size
  <2>1. DOMAIN f = 1 .. Len(f) BY <1>1, LenProperties
  <2> QED BY <2>1 DEF FirstFit
<1>4. f[i] \in Blocks BY <1>1, <1>3, LenProperties
<1>5. /\ f[i].offset \in Int /\ f[i].length \in Int
      /\ End(f[i]) = f[i].offset + f[i].length
  BY <1>4 DEF Blocks, End
<1>6. b \in Blocks /\ b.offset = f[i].offset /\ End(b) = f[i].offset + size
  BY <1>2, <1>5 DEF Block, Blocks, End
<1>7. /\ RunOf(b) = f[i].offset .. f[i].offset + size - 1
      /\ \A u \in RunOf(b) : u \in Int /\ f[i].offset <= u /\ u < End(f[i])
  <2>1. /\ RunOf(b) = b.offset .. End(b) - 1
        /\ \A u \in RunOf(b) : u \in Int /\ b.offset <= u /\ u < End(b)
    BY <1>6, RunUnits
  <2> QED BY <2>1, <1>2, <1>3, <1>5, <1>6
<1> HIDE DEF b
<1>8. RunOf(b) \subseteq Held(f)
  BY <1>1, <1>3, <1>7, HeldUnits
<1>9. CASE f[i].length = size
  <2>1. f' = RemoveAt(f, i) /\ g_nodepool' = g_nodepool + 1
    BY <1>9 DEF TakeLow
  <2>2. RunOf(b) = f[i].offset .. End(f[i]) - 1 BY <1>5, <1>7, <1>9
  <2>3. /\ f' \in Seq(Blocks) /\ Sorted(f') /\ Held(f') = Held(f) \ RunOf(b)
    BY <2>1, <2>2, <1>1, <1>3, TakenWhole
  <2>4. Len(f') = Len(f) - 1 BY <2>1, <1>1, <1>3, Removed
  <2>5. NodesKept' /\ g_nodepool' \in Nat BY <2>1, <2>4, <1>1 DEF NodesKept
  <2> QED BY <2>3, <2>5, <1>6, <1>8 DEF b
<1>10. CASE f[i].length # size
  <2>1. /\ f' = [f EXCEPT ![i] = Block(f[i].offset + size, f[i].length - size)]
        /\ g_nodepool' = g_nodepool
    BY <1>10 DEF TakeLow
  <2>2. size < f[i].length BY <1>2, <1>3, <1>5, <1>10
  <2>3. /\ f' \in Seq(Blocks) /\ Sorted(f') /\ Len(f') = Len(f)
        /\ Held(f') = Held(f) \ (f[i].offset .. f[i].offset + size - 1)
    BY <2>1, <2>2, <1>1, <1>2, <1>3, TakenLow
  <2>4. NodesKept' /\ g_nodepool' \in Nat BY <2>1, <2>3, <1>1 DEF NodesKept
  <2> QED BY <2>3, <2>4, <1>6, <1>7, <1>8 DEF b
<1> QED BY <1>9, <1>10

\* What _phys_free does to it, unless it panics.
LEMMA FreeList ==
  ASSUME IInv, NEW mem \in owned,
         ~(NeedsNode(mem) /\ g_nodepool = 0),
         GiveBack(mem, InFront(mem))
  PROVE  /\ g_freemem' \in Seq(Blocks)
         /\ Sorted(g_freemem')
         /\ g_nodepool' \in Nat
         /\ NodesKept'
         /\ Held(g_freemem') = Held(g_freemem) \cup RunOf(mem)
<1> DEFINE f == g_freemem
           n == InFront(mem)
           below == n > 0 /\ End(f[n]) = mem.offset
           above == n < Len(f) /\ f[n + 1].offset = End(mem)
           lo == IF below THEN f[n].offset ELSE mem.offset
           hi == IF above THEN End(f[n + 1]) ELSE End(mem)
           g == Patched(f, IF below THEN n - 1 ELSE n, Block(lo, hi - lo),
                        IF above THEN n + 2 ELSE n + 1)
<1>1. /\ f \in Seq(Blocks) /\ Sorted(f) /\ Len(f) \in Nat
      /\ g_nodepool \in Nat
      /\ Len(f) + g_nodepool = MAX_BLOCKS
  BY LenProperties DEF IInv, NodesKept
<1>2. mem \in Blocks BY DEF IInv
<1>3. RunOf(mem) = mem.offset .. End(mem) - 1 BY <1>2, RunUnits
<1>4. \A u \in mem.offset .. End(mem) - 1 : u \notin Held(f)
  BY <1>3 DEF IInv, Fair
<1>5. /\ n \in 0 .. Len(f)
      /\ \A i \in 1 .. n : End(f[i]) <= mem.offset
      /\ \A i \in n + 1 .. Len(f) : End(mem) <= f[i].offset
  BY <1>1, <1>2, <1>4, Between DEF InFront
<1>6. /\ f' = g
      /\ g_nodepool' = g_nodepool + (IF below THEN 1 ELSE 0)
                                  + (IF above THEN 1 ELSE 0) - 1
  BY DEF GiveBack, Patched
<1> HIDE DEF n
<1>7. /\ g \in Seq(Blocks) /\ Sorted(g)
      /\ Len(g) = Len(f) + 1 - (IF below THEN 1 ELSE 0)
                             - (IF above THEN 1 ELSE 0)
      /\ Held(g) = Held(f) \cup (mem.offset .. End(mem) - 1)
      /\ below \/ above <=> \E i \in 1 .. Len(f) : \/ End(f[i]) = mem.offset
                                                   \/ f[i].offset = End(mem)
  BY <1>1, <1>2, <1>5, Given
<1> HIDE DEF g, below, above
<1>8. NodesKept' /\ g_nodepool' \in Nat
  <2>1. DOMAIN f = 1 .. Len(f) BY <1>1, LenProperties
  <2>2. below \/ above \/ g_nodepool # 0 BY <1>7, <2>1 DEF NeedsNode
  <2> QED BY <2>2, <1>1, <1>6, <1>7 DEF NodesKept
<1> QED BY <1>3, <1>6, <1>7, <1>8

Takes(size, i) ==
  /\ TakeLow(i, size)
  /\ owned' = owned \cup {Block(g_freemem[i].offset, size)}

Gives(mem) ==
  /\ ~(NeedsNode(mem) /\ g_nodepool = 0)
  /\ GiveBack(mem, InFront(mem))
  /\ owned' = owned \ {mem}

\* A step that does not stop the system takes or gives a run of units.
LEMMA Steps ==
  ASSUME IInv, Next
  PROVE  \/ \E size \in Sizes : \E i \in FirstFit(size) : Takes(size, i)
         \/ \E mem \in owned : Gives(mem)
         \/ UNCHANGED <<g_freemem, g_nodepool, owned>>
BY DEF Next, _phys_alloc, _phys_free, Panic, Takes, Gives

LEMMA StatusKept ==
  ASSUME IInv, [Next]_vars
  PROVE  mstat' \in {"running", "panic_range", "panic_nodes"}
BY DEF IInv, Next, vars, _phys_alloc, _phys_free, Panic

LEMMA NextInv == IInv /\ [Next]_vars => IInv'
<1> SUFFICES ASSUME IInv, [Next]_vars PROVE IInv'
  OBVIOUS
<1>1. CASE \E size \in Sizes : \E i \in FirstFit(size) : Takes(size, i)
  <2>1. PICK size \in Sizes, i \in DOMAIN g_freemem :
          i \in FirstFit(size) /\ Takes(size, i)
    BY <1>1 DEF FirstFit
  <2> DEFINE b == Block(g_freemem[i].offset, size)
  <2>2. /\ g_freemem' \in Seq(Blocks)
        /\ Sorted(g_freemem')
        /\ g_nodepool' \in Nat
        /\ NodesKept'
        /\ b \in Blocks
        /\ RunOf(b) \subseteq Held(g_freemem)
        /\ Held(g_freemem') = Held(g_freemem) \ RunOf(b)
    BY <2>1, AllocList DEF Takes
  <2> HIDE DEF b
  <2>3. owned' = owned \cup {b} BY <2>1 DEF b, Takes
  <2>4. Fair(Held(g_freemem), owned) BY DEF IInv
  <2>5. Fair(Held(g_freemem'), owned') BY <2>2, <2>3, <2>4, TakeFair
  <2>6. IsFiniteSet(owned') /\ owned' \in SUBSET Blocks
    BY <2>2, <2>3, FS_AddElement DEF IInv
  <2> QED BY <2>2, <2>5, <2>6, StatusKept DEF IInv
<1>2. CASE \E mem \in owned : Gives(mem)
  <2>1. PICK mem \in owned : Gives(mem)
    BY <1>2
  <2>2. /\ g_freemem' \in Seq(Blocks)
        /\ Sorted(g_freemem')
        /\ g_nodepool' \in Nat
        /\ NodesKept'
        /\ Held(g_freemem') = Held(g_freemem) \cup RunOf(mem)
    BY <2>1, FreeList DEF Gives
  <2>3. Fair(Held(g_freemem), owned) BY DEF IInv
  <2>4. Fair(Held(g_freemem'), owned')
    <3>1. Fair(Held(g_freemem) \cup RunOf(mem), owned \ {mem})
      BY <2>3, GiveFair
    <3>2. owned' = owned \ {mem} BY <2>1 DEF Gives
    <3> QED BY <2>2, <3>1, <3>2
  <2>5. IsFiniteSet(owned') /\ owned' \in SUBSET Blocks
    BY <2>1, FS_RemoveElement DEF IInv, Gives
  <2> QED BY <2>2, <2>4, <2>5, StatusKept DEF IInv
<1>3. CASE UNCHANGED <<g_freemem, g_nodepool, owned>>
  BY <1>3, StatusKept DEF IInv, NodesKept
<1> QED BY <1>1, <1>2, <1>3, Steps DEF vars

LEMMA Invariance == Spec => []IInv
BY InitInv, NextInv, PTL DEF Spec

-----------------------------------------------------------------------------
(* Theorems *)

\* The blocks of the list have a length and lie in memory, and the pool is
\* neither overdrawn nor larger than it was made.
THEOREM Typed == Spec => []TypeOK
<1>1. ASSUME IInv PROVE TypeOK
  <2>1. /\ DOMAIN g_freemem = 1 .. Len(g_freemem) /\ Len(g_freemem) \in Nat
        /\ \A i \in 1 .. Len(g_freemem) :
             /\ g_freemem[i] \in Blocks
             /\ g_freemem[i].offset \in Int /\ End(g_freemem[i]) \in Int
             /\ g_freemem[i].offset < End(g_freemem[i])
    BY <1>1, BlockEnds, LenProperties DEF IInv
  <2>2. ASSUME NEW i \in 1 .. Len(g_freemem)
        PROVE  g_freemem[i] \in [offset : Nat, length : Nat \ {0}]
    <3>1. g_freemem[i].offset \in Held(g_freemem)
      <4>1. \A u : u \in Held(g_freemem) <=>
              /\ u \in Int
              /\ \E j \in 1 .. Len(g_freemem) :
                   g_freemem[j].offset <= u /\ u < End(g_freemem[j])
        BY <1>1, HeldUnits DEF IInv
      <4> QED BY <2>1, <4>1
    <3>2. g_freemem[i].offset \in Units
      BY <1>1, <3>1 DEF IInv, Fair
    <3>3. Bottom \in Nat /\ g_physical_memory \in Int
      BY MemoryAssumption DEF Bottom
    <3>4. g_freemem[i].offset \in Nat
      BY <2>1, <3>2, <3>3 DEF Units
    <3> QED BY <2>1, <3>4 DEF Blocks
  <2>3. g_nodepool \in 0 .. MAX_BLOCKS
    BY <1>1, <2>1, MemoryAssumption DEF IInv, NodesKept
  <2> QED BY <1>1, <2>1, <2>2, <2>3 DEF IInv, TypeOK
<1> QED BY <1>1, Invariance, PTL

\* The free list of _phys_alloc and _phys_free is sorted, and no two of its
\* blocks touch, whatever is allocated and freed in whatever order.
THEOREM ListSortedAndMerged == Spec => []SortedAndMerged
<1>1. ASSUME IInv PROVE SortedAndMerged
  <2>1. Sorted(g_freemem) /\ Len(g_freemem) \in Nat
    BY <1>1, LenProperties DEF IInv
  <2> QED BY <2>1 DEF SortedAndMerged, Sorted
<1> QED BY <1>1, Invariance, PTL

\* _new_memblock and _free_memblock lose no list node.
THEOREM EveryNodeKept == Spec => []NodesKept
<1>1. IInv => NodesKept BY DEF IInv
<1> QED BY <1>1, Invariance, PTL

\* Every unit of memory is free or in exactly one allocated block.
THEOREM MemoryKept == Spec => []NoneLostNoneShared
<1>1. IInv => NoneLostNoneShared
  BY FreeIsHeld, FairIsShared DEF IInv
<1> QED BY <1>1, Invariance, PTL

\* Between two free blocks lies an allocated one: the list has at most one
\* node more than there are allocated blocks.
THEOREM NodesSufficeAlways == Spec => []NodesSuffice
<1>1. ASSUME IInv PROVE NodesSuffice
  <2> DEFINE f == g_freemem
             L == Len(f) - 1
  <2>1. /\ f \in Seq(Blocks) /\ Sorted(f) /\ Len(f) \in Nat
        /\ \A i \in 1 .. Len(f) : /\ f[i].offset \in Int /\ End(f[i]) \in Int
                                  /\ f[i].offset < End(f[i])
    BY <1>1, BlockEnds DEF IInv
  <2>2. Fair(Held(f), owned) /\ owned \in SUBSET Blocks
        /\ IsFiniteSet(owned) /\ Cardinality(owned) \in Nat
    BY <1>1, FS_CardinalityType DEF IInv
  <2>3. \A u : u \in Held(f) <=>
           /\ u \in Int
           /\ \E i \in 1 .. Len(f) : f[i].offset <= u /\ u < End(f[i])
    BY <2>1, HeldUnits
  <2>4. \A i \in 1 .. Len(f) : f[i].offset \in Held(f)
    BY <2>1, <2>3
  <2>5. ASSUME NEW i \in 1 .. L
        PROVE  \E b \in owned : End(f[i]) \in RunOf(b)
    <3>1. i \in 1 .. Len(f) /\ i + 1 \in 1 .. Len(f) BY <2>1
    <3>2. End(f[i]) < f[i + 1].offset BY <2>1, <3>1 DEF Sorted
    <3>3. End(f[i]) \in Units
      <4>1. f[i].offset \in Units /\ f[i + 1].offset \in Units
        BY <2>2, <2>4, <3>1 DEF Fair
      <4>2. Bottom \in Int /\ g_physical_memory \in Int
        BY MemoryAssumption DEF Bottom
      <4> QED BY <2>1, <3>1, <3>2, <4>1, <4>2 DEF Units
    <3>4. ASSUME NEW j \in 1 .. Len(f)
          PROVE  ~(f[j].offset <= End(f[i]) /\ End(f[i]) < End(f[j]))
      <4>1. CASE j < i
        <5>1. End(f[j]) < f[i].offset BY <2>1, <3>1, <4>1 DEF Sorted
        <5> QED BY <2>1, <3>1, <5>1
      <4>2. CASE j = i BY <2>1, <3>1, <4>2
      <4>3. CASE j > i
        <5>1. End(f[i]) < f[j].offset BY <2>1, <3>1, <4>3 DEF Sorted
        <5> QED BY <2>1, <3>1, <5>1
      <4> QED BY <2>1, <3>1, <4>1, <4>2, <4>3
    <3>5. End(f[i]) \notin Held(f) BY <2>3, <3>4
    <3> QED BY <2>2, <3>3, <3>5 DEF Fair
  <2> DEFINE h == [i \in 1 .. L |-> CHOOSE b \in owned : End(f[i]) \in RunOf(b)]
  <2>6. h \in [1 .. L -> owned]
    BY <2>5
  <2>7. \A i \in 1 .. L : h[i] \in owned /\ End(f[i]) \in RunOf(h[i])
    BY <2>5
  <2> HIDE DEF h
  <2>8. ASSUME NEW i \in 1 .. L, NEW j \in 1 .. L, i < j
        PROVE  h[i] # h[j]
    <3>1. SUFFICES ASSUME h[i] = h[j] PROVE FALSE
      OBVIOUS
    <3>2. i \in 1 .. Len(f) /\ j \in 1 .. Len(f) BY <2>1
    <3>3. h[j] \in owned /\ End(f[i]) \in RunOf(h[j]) /\ End(f[j]) \in RunOf(h[j])
      BY <2>7, <3>1
    <3>4. h[j] \in Blocks BY <2>2, <3>3
    <3>5. End(f[i]) < f[j].offset BY <2>1, <3>2, <2>8 DEF Sorted
    <3>6. \A u : u \in RunOf(h[j]) <=>
                   u \in Int /\ h[j].offset <= u /\ u < End(h[j])
      BY <3>4, RunUnits
    <3>7. h[j].offset \in Int /\ End(h[j]) \in Int BY <3>4 DEF Blocks, End
    <3>8. f[j].offset \in RunOf(h[j])
      BY <2>1, <3>2, <3>3, <3>5, <3>6, <3>7
    <3> QED BY <2>2, <2>4, <3>2, <3>3, <3>8 DEF Fair
  <2>9. CASE Len(f) = 0
    BY <2>2, <2>9 DEF NodesSuffice
  <2>10. CASE Len(f) # 0
    <3>1. L \in Nat BY <2>1, <2>10
    <3>2. IsFiniteSet(1 .. L) /\ Cardinality(1 .. L) = L
      BY <3>1, FS_Interval
    <3>3. ~(Cardinality(owned) < L)
      <4>1. SUFFICES ASSUME Cardinality(owned) < L PROVE FALSE
        OBVIOUS
      <4>2. \E i, j \in 1 .. L : i # j /\ h[i] = h[j]
        BY <2>2, <2>6, <3>2, <4>1, FS_PigeonHole
      <4>3. PICK i, j \in 1 .. L : i # j /\ h[i] = h[j]
        BY <4>2
      <4>4. i < j \/ j < i BY <4>3
      <4> QED BY <2>8, <4>3, <4>4
    <3> QED BY <2>1, <2>2, <3>1, <3>3 DEF NodesSuffice
  <2> QED BY <2>9, <2>10
<1> QED BY <1>1, Invariance, PTL

\* The first-fit list implements an allocator that may hand out any run of
\* free units and takes back any block that is allocated.
THEOREM MemoryImplemented == Spec => ImplementsMemory
<1>1. Init => Abstract!Init
  <2>1. ASSUME Init PROVE Abstract!Init
    <3>1. FreeUnits = Units /\ owned = {}
      BY <2>1, InitInv DEF Init
    <3> QED BY <3>1 DEF Abstract!Init, Units
  <2> QED BY <2>1
<1>2. IInv /\ [Next]_vars => [Abstract!Next]_<<FreeUnits, owned>>
  <2> SUFFICES ASSUME IInv, [Next]_vars
               PROVE  [Abstract!Next]_<<FreeUnits, owned>>
    OBVIOUS
  <2>0. FreeUnits = Held(g_freemem) /\ FreeUnits' = Held(g_freemem')
    BY DEF FreeUnits, Held
  <2>1. CASE \E size \in Sizes : \E i \in FirstFit(size) : Takes(size, i)
    <3>1. PICK size \in Sizes, i \in DOMAIN g_freemem :
            i \in FirstFit(size) /\ Takes(size, i)
      BY <2>1 DEF FirstFit
    <3> DEFINE o == g_freemem[i].offset
    <3>2. /\ Block(o, size) \in Blocks
          /\ RunOf(Block(o, size)) \subseteq FreeUnits
          /\ FreeUnits' = FreeUnits \ RunOf(Block(o, size))
      BY <2>0, <3>1, AllocList DEF Takes
    <3>3. owned' = owned \cup {Block(o, size)} BY <3>1 DEF Takes
    <3> HIDE DEF o
    <3>4. RunOf(Block(o, size)) = Abstract!Run(o, size)
      BY DEF RunOf, Block
    <3>5. o \in RunOf(Block(o, size))
      <4>1. /\ Block(o, size).offset \in Int
            /\ Block(o, size).offset < End(Block(o, size))
        BY <3>2 DEF Blocks, End
      <4>2. Block(o, size).offset = o BY DEF Block
      <4> QED BY <3>2, <4>1, <4>2, RunUnits
    <3>6. Abstract!Alloc(size)
      BY <3>2, <3>3, <3>4, <3>5 DEF Abstract!Alloc, Block
    <3> QED BY <3>6 DEF Abstract!Next
  <2>2. CASE \E mem \in owned : Gives(mem)
    <3>1. PICK mem \in owned : Gives(mem)
      BY <2>2
    <3>2. FreeUnits' = FreeUnits \cup RunOf(mem)
      BY <2>0, <3>1, FreeList DEF Gives
    <3>3. Abstract!Free(mem)
      BY <3>1, <3>2 DEF Abstract!Free, RunOf, Gives
    <3> QED BY <3>1, <3>3 DEF Abstract!Next
  <2>3. CASE UNCHANGED <<g_freemem, g_nodepool, owned>>
    BY <2>0, <2>3
  <2> QED BY <2>1, <2>2, <2>3, Steps DEF vars
<1> QED BY <1>1, <1>2, Invariance, PTL
        DEF Spec, ImplementsMemory, Abstract!Spec
=============================================================================
