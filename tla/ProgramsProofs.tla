--------------------------- MODULE ProgramsProofs ---------------------------
(***************************************************************************)
(* Proofs about the user programs, for any numbers of PCBs, segments and   *)
(* rounds and any workloads: as long as pids do not wrap around, they make *)
(* only the calls that Kernel takes for granted, and print what they       *)
(* should.                                                                 *)
(***************************************************************************)
EXTENDS Programs, KernelProofs

(* Statements *)

ProgramNames == DOMAIN Text
Plain(progs) ==
  [op : {"write"}, ch : Chars] \cup [op : {"read", "exit", "bogus", "hotswap"}]
    \cup [op : {"sleep"}, ticks : {1, 2}] \cup [op : {"exec", "execve"}, prog : progs]
Forking(progs) ==
  [op : {"fork"}, fails : Seq(Plain(progs)), child : Seq(Plain(progs)),
   parent : Seq(Plain(progs))]
Finite(progs) == Plain(progs) \cup Forking(progs)
Looping == [op : {"forever"}, body : Seq(Plain({}))]
Stmts(progs) == Finite(progs) \cup Looping

LEMMA PlainFacts ==
  ASSUME NEW progs, NEW s \in Plain(progs)
  PROVE  /\ s.op \in {"write", "read", "exit", "bogus", "hotswap", "sleep",
                      "exec", "execve"}
         /\ s.op = "write" => s.ch \in Chars
         /\ s.op = "sleep" => s.ticks \in {1, 2}
         /\ s.op \in {"exec", "execve"} => s.prog \in progs
BY DEF Plain

LEMMA StmtFacts ==
  ASSUME NEW progs, NEW s \in Stmts(progs)
  PROVE  /\ s.op \notin {"fork", "forever"} => s \in Plain(progs)
         /\ s.op = "fork" =>
              /\ s.fails \in Seq(Plain(progs)) /\ s.child \in Seq(Plain(progs))
              /\ s.parent \in Seq(Plain(progs))
         /\ s.op = "forever" => s.body \in Seq(Plain({}))
BY DEF Stmts, Finite, Plain, Forking, Looping

-----------------------------------------------------------------------------
(* What may be written *)

Counts == [Chars -> Nat]
Results == SUBSET Counts

LEMMA BothFacts ==
  ASSUME NEW a \in Counts, NEW b \in Counts
  PROVE  /\ Both(a, b) \in Counts /\ Nothing \in Counts
         /\ \A ch \in Chars : Both(a, b)[ch] = a[ch] + b[ch] /\ Nothing[ch] = 0
BY DEF Both, Counts, Nothing

LEMMA PlainResults ==
  ASSUME NEW progs, NEW s \in Plain(progs), NEW after \in Results,
         NEW runs, \A prog \in progs : runs[prog] \in Results
  PROVE  OfPlain(s, after, runs) \in Results
<1>1. Nothing \in Counts BY DEF Nothing, Counts
<1>2. CASE s.op = "write"
  <2>1. OfPlain(s, after, runs) = {[o EXCEPT ![s.ch] = @ + 1] : o \in after}
    BY <1>2 DEF OfPlain
  <2> QED BY <2>1 DEF Results, Counts
<1>3. CASE s.op \in {"exec", "execve"}
  <2>1. OfPlain(s, after, runs) = runs[s.prog] BY <1>3 DEF OfPlain
  <2> QED BY <1>3, <2>1, PlainFacts
<1>4. CASE s.op \in {"exit", "bogus"}
  <2>1. OfPlain(s, after, runs) = {Nothing} BY <1>4 DEF OfPlain
  <2> QED BY <1>1, <2>1 DEF Results
<1>5. CASE s.op \notin {"write", "exec", "execve", "exit", "bogus"}
  BY <1>5 DEF OfPlain
<1> QED BY <1>2, <1>3, <1>4, <1>5

\* The values that the recursive definition of OfBranch goes through.
BranchValues(of, c, after, runs) ==
  /\ of \in [0 .. Len(c) -> Results] /\ of[0] = after
  /\ \A i \in 1 .. Len(c) : of[i] = OfPlain(c[Len(c) + 1 - i], of[i - 1], runs)
  /\ OfBranch(c, after, runs) = of[Len(c)]

LEMMA BranchFacts ==
  ASSUME NEW progs, NEW runs, \A prog \in progs : runs[prog] \in Results,
         NEW c \in Seq(Plain(progs)), NEW after \in Results
  PROVE  \E of : BranchValues(of, c, after, runs)
<1> DEFINE N == Len(c)
           Of(i, x) == OfPlain(c[N + 1 - i], x, runs)
           G == [i \in 1 .. N |-> [x \in Results |-> Of(i, x)]]
           Row(of, i) == IF i = 0 THEN after ELSE Of(i, of[i - 1])
           Solves(of) == of = [i \in 0 .. N |-> Row(of, i)]
           F == CHOOSE of : Solves(of)
<1>1. N \in Nat /\ \A i \in 1 .. N : c[N + 1 - i] \in Plain(progs)
  <2>1. N \in Nat /\ \A i \in 1 .. N : N + 1 - i \in 1 .. N BY LenProperties
  <2> QED BY <2>1, ElementOfSeq
<1>2. \A i \in 1 .. N, x \in Results : Of(i, x) \in Results
  BY <1>1, PlainResults
<1> HIDE DEF N, Of
<1>3. G \in [1 .. N -> [Results -> Results]] BY <1>2
<1>4. \A i \in 1 .. N, x \in Results : G[i][x] = Of(i, x) OBVIOUS
<1> HIDE DEF G
<1>5. PICK of \in [0 .. N -> Results] : Repeats(of, after, G, N)
  BY <1>1, <1>3, Repetition
<1>6. ASSUME NEW i \in 0 .. N PROVE of[i] = Row(of, i)
  <2>1. CASE i = 0 BY <1>5, <2>1 DEF Repeats
  <2>2. CASE i # 0
    <3>1. i \in 1 .. N /\ i - 1 \in 0 .. N BY <1>1, <2>2
    <3>2. of[i] = G[i][of[i - 1]] /\ of[i - 1] \in Results BY <1>5, <3>1 DEF Repeats
    <3> QED BY <1>4, <2>2, <3>1, <3>2
  <2> QED BY <2>1, <2>2
<1>7. Solves(of)
  <2> HIDE DEF Row
  <2>1. of = [i \in 0 .. N |-> of[i]] BY <1>5
  <2> QED BY <1>6, <2>1
<1>8. Solves(F)
  <2> HIDE DEF Solves
  <2> QED BY <1>7
<1>9. OfBranch(c, after, runs) = F[N]
  BY DEF OfBranch, N, Of
<1>10. F = [i \in 0 .. N |-> F[i]] /\ \A i \in 0 .. N : F[i] = Row(F, i)
  <2> HIDE DEF Row, F
  <2> QED BY <1>8
<1> HIDE DEF F
<1>11. F[0] = after /\ \A i \in 1 .. N : F[i] = Of(i, F[i - 1])
  <2>1. 0 \in 0 .. N /\ \A i \in 1 .. N : i \in 0 .. N /\ i # 0 BY <1>1
  <2> QED BY <1>10, <2>1
<1>12. \A i \in 0 .. N : F[i] \in Results
  <2>1. \A i \in 1 .. N : F[i - 1] \in Results => F[i] \in Results
    BY <1>2, <1>11
  <2> QED BY <1>1, <1>11, <2>1, StepInduction
<1>13. F \in [0 .. N -> Results] BY <1>10, <1>12
<1>14. BranchValues(F, c, after, runs)
  BY <1>9, <1>11, <1>13 DEF N, Of, BranchValues
<1> QED BY <1>14

\* Functions that make the same steps from the same beginning agree.
SameSteps(f, g, N) ==
  /\ f[0] = g[0]
  /\ \A i \in 1 .. N : f[i - 1] = g[i - 1] => f[i] = g[i]

LEMMA Agree ==
  ASSUME NEW N \in Nat, NEW f, NEW g, SameSteps(f, g, N)
  PROVE  f[N] = g[N]
<1> DEFINE T == {i \in Nat : i <= N => f[i] = g[i]}
<1>1. 0 \in T BY DEF SameSteps
<1>2. ASSUME NEW i \in Nat, i \in T PROVE i + 1 \in T
  <2>1. SUFFICES ASSUME i + 1 <= N PROVE f[i + 1] = g[i + 1]
    OBVIOUS
  <2>2. i + 1 \in 1 .. N /\ (i + 1) - 1 = i /\ f[i] = g[i] BY <1>2, <2>1
  <2> QED BY <2>2 DEF SameSteps
<1>3. N \in T
  <2> HIDE DEF T
  <2> QED BY <1>1, <1>2, SetInduction
<1> QED BY <1>3

\* Statement by statement, from the front.
LEMMA BranchRules ==
  ASSUME NEW progs, NEW runs, \A prog \in progs : runs[prog] \in Results,
         NEW c \in Seq(Plain(progs)), NEW after \in Results
  PROVE  /\ OfBranch(c, after, runs) \in Results
         /\ c = <<>> => OfBranch(c, after, runs) = after
         /\ c # <<>> => OfBranch(c, after, runs)
                          = OfPlain(Head(c), OfBranch(Tail(c), after, runs), runs)
<1> DEFINE N == Len(c)
<1>1. PICK f : BranchValues(f, c, after, runs) BY BranchFacts
<1>1a. /\ f \in [0 .. N -> Results] /\ f[0] = after /\ OfBranch(c, after, runs) = f[N]
      /\ \A i \in 1 .. N : f[i] = OfPlain(c[N + 1 - i], f[i - 1], runs)
  BY <1>1 DEF BranchValues
<1>2. N \in Nat /\ N \in 0 .. N BY LenProperties
<1>3. f[N] \in Results BY <1>1a, <1>2
<1>4. ASSUME c # <<>>
      PROVE  f[N] = OfPlain(Head(c), OfBranch(Tail(c), after, runs), runs)
  <2>1. /\ Tail(c) \in Seq(Plain(progs)) /\ Len(Tail(c)) = N - 1 /\ N >= 1
        /\ Head(c) = c[1] /\ \A i \in 1 .. N - 1 : Tail(c)[i] = c[i + 1]
    BY <1>4, HeadTailProperties, EmptySeq, LenProperties
  <2> DEFINE t == Tail(c)
  <2>0. t \in Seq(Plain(progs)) BY <2>1
  <2> HIDE DEF N, t
  <2>1a. PICK g : BranchValues(g, t, after, runs) BY <2>0, BranchFacts
  <2>2. /\ g \in [0 .. Len(t) -> Results] /\ g[0] = after /\ OfBranch(t, after, runs) = g[Len(t)]
        /\ \A i \in 1 .. Len(t) : g[i] = OfPlain(t[Len(t) + 1 - i], g[i - 1], runs)
    BY <2>1a DEF BranchValues
  <2>3. ASSUME NEW i \in 1 .. N - 1, f[i - 1] = g[i - 1] PROVE f[i] = g[i]
    <3>1. /\ i \in 1 .. N /\ N - i \in 1 .. N - 1
          /\ (N - 1) + 1 - i = N - i /\ N + 1 - i = (N - i) + 1
      BY <1>2
    <3>2. t[Len(t) + 1 - i] = c[N + 1 - i] BY <2>1, <3>1 DEF t
    <3>3. f[i] = OfPlain(c[N + 1 - i], f[i - 1], runs) BY <1>1a, <3>1
    <3>4. g[i] = OfPlain(c[N + 1 - i], g[i - 1], runs) BY <2>1, <2>2, <3>2 DEF t
    <3> QED BY <2>3, <3>3, <3>4
  <2>4. N - 1 \in Nat /\ N - 1 \in 0 .. N - 1 /\ N \in 1 .. N /\ N + 1 - N = 1
    BY <1>2, <2>1
  <2>5. f[N - 1] = g[N - 1]
    <3>1. f[0] = g[0] BY <1>1a, <2>2
    <3> DEFINE M == N - 1
    <3>2. \A i \in 1 .. M : f[i - 1] = g[i - 1] => f[i] = g[i] BY <2>3
    <3>3. M \in Nat /\ M \in 0 .. M BY <2>4
    <3> HIDE DEF M
    <3>4. SameSteps(f, g, M) BY <3>1, <3>2 DEF SameSteps
    <3>5. f[M] = g[M] BY <3>3, <3>4, Agree
    <3> QED BY <3>5 DEF M
  <2>6. f[N] = OfPlain(c[1], f[N - 1], runs) BY <1>1a, <2>4
  <2> QED BY <2>1, <2>2, <2>5, <2>6 DEF t
<1>5. c = <<>> => N = 0 BY LenProperties, EmptySeq
<1> QED BY <1>1a, <1>3, <1>4, <1>5

\* A program, and what it may write.
LEMMA StmtResults ==
  ASSUME NEW progs, NEW s \in Stmts(progs), NEW after \in Results,
         NEW runs, \A prog \in progs : runs[prog] \in Results
  PROVE  OfStmt(s, after, runs) \in Results
<1>1. CASE s.op = "fork"
  <2> DEFINE one == OfBranch(s.child, after, runs)
             other == OfBranch(s.parent, after, runs)
             fails == OfBranch(s.fails, after, runs)
             both == {Both(a, b) : a \in one, b \in other}
  <2>1. one \in Results /\ other \in Results /\ fails \in Results
    BY <1>1, StmtFacts, BranchRules
  <2>2. OfStmt(s, after, runs) = fails \cup both BY <1>1 DEF OfStmt
  <2> HIDE DEF one, other, fails
  <2>3. \A a \in one, b \in other : Both(a, b) \in Counts
    BY <2>1, BothFacts DEF Results
  <2>4. both \in Results BY <2>3 DEF Results
  <2> QED BY <2>1, <2>2, <2>4 DEF Results
<1>2. CASE s.op = "forever"
  <2>1. OfStmt(s, after, runs) = after BY <1>2 DEF OfStmt, OfPlain
  <2> QED BY <2>1
<1>3. CASE s.op \notin {"fork", "forever"}
  <2>1. OfStmt(s, after, runs) = OfPlain(s, after, runs) BY <1>3 DEF OfStmt
  <2> QED BY <1>3, <2>1, StmtFacts, PlainResults
<1> QED BY <1>1, <1>2, <1>3

LEMMA NothingResult == {Nothing} \in Results
BY DEF Nothing, Counts, Results

\* The values that the recursive definition of OfCode goes through.
CodeValues(of, c, runs) ==
  /\ of \in [0 .. Len(c) -> Results] /\ of[0] = {Nothing}
  /\ \A i \in 1 .. Len(c) : of[i] = OfStmt(c[Len(c) + 1 - i], of[i - 1], runs)
  /\ OfCode(c, runs) = of[Len(c)]

LEMMA CodeFacts ==
  ASSUME NEW progs, NEW runs, \A prog \in progs : runs[prog] \in Results,
         NEW c \in Seq(Stmts(progs))
  PROVE  \E of : CodeValues(of, c, runs)
<1> DEFINE N == Len(c)
           Of(i, x) == OfStmt(c[N + 1 - i], x, runs)
           G == [i \in 1 .. N |-> [x \in Results |-> Of(i, x)]]
           Row(of, i) == IF i = 0 THEN {Nothing} ELSE Of(i, of[i - 1])
           Solves(of) == of = [i \in 0 .. N |-> Row(of, i)]
           F == CHOOSE of : Solves(of)
<1>1. N \in Nat /\ \A i \in 1 .. N : c[N + 1 - i] \in Stmts(progs)
  <2>1. N \in Nat /\ \A i \in 1 .. N : N + 1 - i \in 1 .. N BY LenProperties
  <2> QED BY <2>1, ElementOfSeq
<1>2. \A i \in 1 .. N, x \in Results : Of(i, x) \in Results
  BY <1>1, StmtResults
<1> HIDE DEF N, Of
<1>3. G \in [1 .. N -> [Results -> Results]] BY <1>2
<1>4. \A i \in 1 .. N, x \in Results : G[i][x] = Of(i, x) OBVIOUS
<1> HIDE DEF G
<1>5. PICK of \in [0 .. N -> Results] : Repeats(of, {Nothing}, G, N)
  BY <1>1, <1>3, Repetition, NothingResult
<1>6. ASSUME NEW i \in 0 .. N PROVE of[i] = Row(of, i)
  <2>1. CASE i = 0 BY <1>5, <2>1 DEF Repeats
  <2>2. CASE i # 0
    <3>1. i \in 1 .. N /\ i - 1 \in 0 .. N BY <1>1, <2>2
    <3>2. of[i] = G[i][of[i - 1]] /\ of[i - 1] \in Results BY <1>5, <3>1 DEF Repeats
    <3> QED BY <1>4, <2>2, <3>1, <3>2
  <2> QED BY <2>1, <2>2
<1>7. Solves(of)
  <2> HIDE DEF Row
  <2>1. of = [i \in 0 .. N |-> of[i]] BY <1>5
  <2> QED BY <1>6, <2>1
<1>8. Solves(F)
  <2> HIDE DEF Solves
  <2> QED BY <1>7
<1>9. OfCode(c, runs) = F[N]
  BY DEF OfCode, N, Of
<1>10. F = [i \in 0 .. N |-> F[i]] /\ \A i \in 0 .. N : F[i] = Row(F, i)
  <2> HIDE DEF Row, F
  <2> QED BY <1>8
<1> HIDE DEF F
<1>11. F[0] = {Nothing} /\ \A i \in 1 .. N : F[i] = Of(i, F[i - 1])
  <2>1. 0 \in 0 .. N /\ \A i \in 1 .. N : i \in 0 .. N /\ i # 0 BY <1>1
  <2> QED BY <1>10, <2>1
<1>12. \A i \in 0 .. N : F[i] \in Results
  <2>1. \A i \in 1 .. N : F[i - 1] \in Results => F[i] \in Results
    BY <1>2, <1>11
  <2> QED BY <1>1, <1>11, <2>1, NothingResult, StepInduction
<1>13. F \in [0 .. N -> Results] BY <1>10, <1>12
<1>14. CodeValues(F, c, runs)
  BY <1>9, <1>11, <1>13 DEF N, Of, CodeValues
<1> QED BY <1>14

LEMMA CodeRules ==
  ASSUME NEW progs, NEW runs, \A prog \in progs : runs[prog] \in Results,
         NEW c \in Seq(Stmts(progs))
  PROVE  /\ OfCode(c, runs) \in Results
         /\ c = <<>> => OfCode(c, runs) = {Nothing}
         /\ c # <<>> => OfCode(c, runs) = OfStmt(Head(c), OfCode(Tail(c), runs), runs)
<1> DEFINE N == Len(c)
<1>1. PICK f : CodeValues(f, c, runs) BY CodeFacts
<1>1a. /\ f \in [0 .. N -> Results] /\ f[0] = {Nothing} /\ OfCode(c, runs) = f[N]
      /\ \A i \in 1 .. N : f[i] = OfStmt(c[N + 1 - i], f[i - 1], runs)
  BY <1>1 DEF CodeValues
<1>2. N \in Nat /\ N \in 0 .. N BY LenProperties
<1>3. f[N] \in Results BY <1>1a, <1>2
<1>4. ASSUME c # <<>>
      PROVE  f[N] = OfStmt(Head(c), OfCode(Tail(c), runs), runs)
  <2>1. /\ Tail(c) \in Seq(Stmts(progs)) /\ Len(Tail(c)) = N - 1 /\ N >= 1
        /\ Head(c) = c[1] /\ \A i \in 1 .. N - 1 : Tail(c)[i] = c[i + 1]
    BY <1>4, HeadTailProperties, EmptySeq, LenProperties
  <2> DEFINE t == Tail(c)
  <2>0. t \in Seq(Stmts(progs)) BY <2>1
  <2> HIDE DEF N, t
  <2>1a. PICK g : CodeValues(g, t, runs) BY <2>0, CodeFacts
  <2>2. /\ g \in [0 .. Len(t) -> Results] /\ g[0] = {Nothing} /\ OfCode(t, runs) = g[Len(t)]
        /\ \A i \in 1 .. Len(t) : g[i] = OfStmt(t[Len(t) + 1 - i], g[i - 1], runs)
    BY <2>1a DEF CodeValues
  <2>3. ASSUME NEW i \in 1 .. N - 1, f[i - 1] = g[i - 1] PROVE f[i] = g[i]
    <3>1. /\ i \in 1 .. N /\ N - i \in 1 .. N - 1
          /\ (N - 1) + 1 - i = N - i /\ N + 1 - i = (N - i) + 1
      BY <1>2
    <3>2. t[Len(t) + 1 - i] = c[N + 1 - i] BY <2>1, <3>1 DEF t
    <3>3. f[i] = OfStmt(c[N + 1 - i], f[i - 1], runs) BY <1>1a, <3>1
    <3>4. g[i] = OfStmt(c[N + 1 - i], g[i - 1], runs) BY <2>1, <2>2, <3>2 DEF t
    <3> QED BY <2>3, <3>3, <3>4
  <2>4. N - 1 \in Nat /\ N - 1 \in 0 .. N - 1 /\ N \in 1 .. N /\ N + 1 - N = 1
    BY <1>2, <2>1
  <2>5. f[N - 1] = g[N - 1]
    <3>1. f[0] = g[0] BY <1>1a, <2>2
    <3> DEFINE M == N - 1
    <3>2. \A i \in 1 .. M : f[i - 1] = g[i - 1] => f[i] = g[i] BY <2>3
    <3>3. M \in Nat /\ M \in 0 .. M BY <2>4
    <3> HIDE DEF M
    <3>4. SameSteps(f, g, M) BY <3>1, <3>2 DEF SameSteps
    <3>5. f[M] = g[M] BY <3>3, <3>4, Agree
    <3> QED BY <3>5 DEF M
  <2>6. f[N] = OfStmt(c[1], f[N - 1], runs) BY <1>1a, <2>4
  <2> QED BY <2>1, <2>2, <2>5, <2>6 DEF t
<1>5. c = <<>> => N = 0 BY LenProperties, EmptySeq
<1> QED BY <1>1a, <1>3, <1>4, <1>5

-----------------------------------------------------------------------------
(* Sequences of statements put together *)

\* Induction on sequences, from the empty one on, for a set of them.
LEMMA SeqInduction ==
  ASSUME NEW S, NEW T, <<>> \in T,
         \A a \in Seq(S) : a # <<>> /\ Tail(a) \in T => a \in T
  PROVE  \A a \in Seq(S) : a \in T
<1> DEFINE L == {n \in Nat : \A a \in Seq(S) : Len(a) = n => a \in T}
<1>1. 0 \in L BY EmptySeq
<1>2. ASSUME NEW n \in Nat, n \in L PROVE n + 1 \in L
  <2>1. SUFFICES ASSUME NEW a \in Seq(S), Len(a) = n + 1 PROVE a \in T
    OBVIOUS
  <2>2. a # <<>> BY <2>1, EmptySeq
  <2>3. Tail(a) \in Seq(S) /\ Len(Tail(a)) = n
    BY <2>1, <2>2, HeadTailProperties
  <2> QED BY <1>2, <2>2, <2>3
<1>3. ASSUME NEW a \in Seq(S) PROVE a \in T
  <2>1. Len(a) \in Nat BY LenProperties
  <2>2. Len(a) \in L
    <3> HIDE DEF L
    <3> QED BY <1>1, <1>2, <2>1, SetInduction
  <2> QED BY <2>2
<1> QED BY <1>3

LEMMA JoinFacts ==
  ASSUME NEW S, NEW a \in Seq(S), NEW c \in Seq(S)
  PROVE  /\ a \o c \in Seq(S) /\ <<>> \o c = c /\ c \o <<>> = c
         /\ a # <<>> => /\ a \o c # <<>> /\ Head(a \o c) = Head(a)
                        /\ Tail(a \o c) = Tail(a) \o c
<1>1. a \o c \in Seq(S) /\ <<>> \o c = c /\ c \o <<>> = c
  BY ConcatProperties, ConcatEmptySeq
<1>2. ASSUME a # <<>>
      PROVE  a \o c # <<>> /\ Head(a \o c) = Head(a) /\ Tail(a \o c) = Tail(a) \o c
  <2>1. /\ Len(a) \in Nat /\ Len(c) \in Nat /\ Len(a) >= 1
        /\ Tail(a) \in Seq(S) /\ Len(Tail(a)) = Len(a) - 1 /\ Head(a) = a[1]
        /\ \A i \in 1 .. Len(a) - 1 : Tail(a)[i] = a[i + 1]
    BY <1>2, HeadTailProperties, EmptySeq, LenProperties
  <2>2. /\ Len(a \o c) = Len(a) + Len(c)
        /\ \A i \in 1 .. Len(a) + Len(c) :
             (a \o c)[i] = IF i <= Len(a) THEN a[i] ELSE c[i - Len(a)]
    BY ConcatProperties
  <2>3. a \o c # <<>> /\ Head(a \o c) = Head(a)
    BY <1>1, <2>1, <2>2, EmptySeq, HeadTailProperties
  <2>4. /\ Tail(a \o c) \in Seq(S) /\ Len(Tail(a \o c)) = Len(a) + Len(c) - 1
        /\ \A i \in 1 .. Len(a) + Len(c) - 1 : Tail(a \o c)[i] = (a \o c)[i + 1]
    BY <1>1, <2>1, <2>2, <2>3, HeadTailProperties
  <2>5. /\ Tail(a) \o c \in Seq(S) /\ Len(Tail(a) \o c) = Len(a) - 1 + Len(c)
        /\ \A i \in 1 .. Len(a) - 1 + Len(c) :
             (Tail(a) \o c)[i] = IF i <= Len(a) - 1 THEN Tail(a)[i]
                                 ELSE c[i - (Len(a) - 1)]
    BY <2>1, ConcatProperties
  <2>6. ASSUME NEW i \in 1 .. Len(a) + Len(c) - 1
        PROVE  Tail(a \o c)[i] = (Tail(a) \o c)[i]
    <3>1. i + 1 \in 1 .. Len(a) + Len(c) /\ i \in 1 .. Len(a) - 1 + Len(c)
      BY <2>1
    <3>2. CASE i <= Len(a) - 1
      <4>1. i + 1 <= Len(a) /\ i \in 1 .. Len(a) - 1 BY <2>1, <3>1, <3>2
      <4> QED BY <2>1, <2>2, <2>4, <2>5, <3>1, <3>2, <4>1
    <3>3. CASE ~(i <= Len(a) - 1)
      <4>1. ~(i + 1 <= Len(a)) /\ (i + 1) - Len(a) = i - (Len(a) - 1)
        BY <2>1, <3>1, <3>3
      <4> QED BY <2>2, <2>4, <2>5, <3>1, <3>3, <4>1
    <3> QED BY <3>2, <3>3
  <2>7. Tail(a \o c) = Tail(a) \o c
    <3>1. Len(Tail(a \o c)) = Len(Tail(a) \o c) BY <2>1, <2>4, <2>5
    <3> QED BY <2>4, <2>5, <2>6, <3>1, SeqEqual
  <2> QED BY <2>3, <2>7
<1> QED BY <1>1, <1>2

\* What a branch of a fork and the rest of a program may write together.
LEMMA JoinResults ==
  ASSUME NEW progs, NEW runs, \A prog \in progs : runs[prog] \in Results,
         NEW c \in Seq(Stmts(progs))
  PROVE  \A a \in Seq(Plain(progs)) :
           OfCode(a \o c, runs) = OfBranch(a, OfCode(c, runs), runs)
<1> DEFINE rest == OfCode(c, runs)
           T == {a \in Seq(Plain(progs)) : OfCode(a \o c, runs) = OfBranch(a, rest, runs)}
<1>1. rest \in Results BY CodeRules
<1>2. Seq(Plain(progs)) \subseteq Seq(Stmts(progs)) /\ Plain(progs) \subseteq Stmts(progs)
  BY DEF Stmts, Finite
<1>3. <<>> \in T
  <2>1. <<>> \in Seq(Plain(progs)) /\ <<>> \o c = c BY EmptySeq, ConcatEmptySeq
  <2>2. OfCode(<<>> \o c, runs) = rest BY <2>1
  <2> HIDE DEF rest
  <2>3. OfBranch(<<>>, rest, runs) = rest BY <1>1, <2>1, BranchRules
  <2> QED BY <2>1, <2>2, <2>3
<1>4. ASSUME NEW a \in Seq(Plain(progs)), a # <<>>, Tail(a) \in T PROVE a \in T
  <2>1. /\ a \o c \in Seq(Stmts(progs)) /\ a \o c # <<>> /\ Head(a \o c) = Head(a)
        /\ Tail(a \o c) = Tail(a) \o c
    BY <1>2, <1>4, JoinFacts
  <2>2. Head(a) \in Plain(progs) BY <1>4, HeadTailProperties
  <2>3. OfCode(a \o c, runs) = OfStmt(Head(a), OfCode(Tail(a) \o c, runs), runs)
    BY <2>1, CodeRules
  <2>4. Head(a).op # "fork" BY <2>2, PlainFacts
  <2>5. OfStmt(Head(a), OfCode(Tail(a) \o c, runs), runs)
          = OfPlain(Head(a), OfCode(Tail(a) \o c, runs), runs)
    BY <2>4 DEF OfStmt
  <2>6. OfCode(Tail(a) \o c, runs) = OfBranch(Tail(a), rest, runs) BY <1>4
  <2> HIDE DEF rest
  <2>7. OfBranch(a, rest, runs) = OfPlain(Head(a), OfBranch(Tail(a), rest, runs), runs)
    BY <1>1, <1>4, BranchRules
  <2> QED BY <2>3, <2>5, <2>6, <2>7
<1> HIDE DEF T
<1>5. \A a \in Seq(Plain(progs)) : a \in T BY <1>3, <1>4, SeqInduction
<1> QED BY <1>5 DEF T

\* An exit at the end makes no difference.
LEMMA LeaveResults ==
  ASSUME NEW progs, NEW runs, \A prog \in progs : runs[prog] \in Results
  PROVE  \A c \in Seq(Stmts(progs)) : OfCode(c \o Leave, runs) = OfCode(c, runs)
<1> DEFINE T == {c \in Seq(Stmts(progs)) : OfCode(c \o Leave, runs) = OfCode(c, runs)}
<1>1. Leave \in Seq(Stmts(progs)) /\ Leave # <<>> /\ Tail(Leave) = <<>>
      /\ Head(Leave) = [op |-> "exit"]
  BY DEF Leave, Stmts, Finite, Plain
<1>2. OfCode(<<>>, runs) = {Nothing} /\ <<>> \in Seq(Stmts(progs))
  BY CodeRules, EmptySeq
<1>3. <<>> \in T
  <2>1. <<>> \o Leave = Leave BY <1>1, JoinFacts
  <2>2. OfCode(Leave, runs) = OfStmt(Head(Leave), OfCode(<<>>, runs), runs)
    BY <1>1, CodeRules
  <2>3. OfStmt(Head(Leave), OfCode(<<>>, runs), runs) = {Nothing}
    BY <1>1 DEF OfStmt, OfPlain
  <2> QED BY <1>2, <2>1, <2>2, <2>3
<1>4. ASSUME NEW c \in Seq(Stmts(progs)), c # <<>>, Tail(c) \in T PROVE c \in T
  <2>1. /\ c \o Leave \in Seq(Stmts(progs)) /\ c \o Leave # <<>>
        /\ Head(c \o Leave) = Head(c) /\ Tail(c \o Leave) = Tail(c) \o Leave
    BY <1>1, <1>4, JoinFacts
  <2>2. OfCode(c \o Leave, runs) = OfStmt(Head(c), OfCode(Tail(c) \o Leave, runs), runs)
    BY <2>1, CodeRules
  <2>3. OfCode(c, runs) = OfStmt(Head(c), OfCode(Tail(c), runs), runs)
    BY <1>4, CodeRules
  <2> QED BY <1>4, <2>2, <2>3
<1> HIDE DEF T
<1>5. \A c \in Seq(Stmts(progs)) : c \in T BY <1>3, <1>4, SeqInduction
<1> QED BY <1>5 DEF T

-----------------------------------------------------------------------------
(* The texts of the programs *)

LEMMA StatementFacts ==
  ASSUME NEW progs
  PROVE  /\ \A ch \in Chars : Write(ch) \in Seq(Plain(progs))
         /\ Read \in Seq(Plain(progs)) /\ Leave \in Seq(Plain(progs))
         /\ Bogus \in Seq(Plain(progs)) /\ Swap \in Seq(Plain(progs))
         /\ \A ticks : Nap(ticks) \in Seq(Plain(progs))
         /\ \A prog \in progs : /\ Become(prog) \in Seq(Plain(progs))
                                /\ Execve(prog) \in Seq(Plain(progs))
         /\ \A fails, child, parent \in Seq(Plain(progs)) :
              ForkThen(fails, child, parent) \in Seq(Finite(progs))
         /\ <<>> \in Seq(Plain(progs))
         /\ Seq(Plain(progs)) \subseteq Seq(Finite(progs))
<1>1. \A ch \in Chars : [op |-> "write", ch |-> ch] \in Plain(progs) BY DEF Plain
<1>2. \A o \in {"read", "exit", "bogus", "hotswap"} : [op |-> o] \in Plain(progs)
  BY DEF Plain
<1>3. \A n \in {1, 2} : [op |-> "sleep", ticks |-> n] \in Plain(progs) BY DEF Plain
<1>4. \A prog \in progs : /\ [op |-> "exec", prog |-> prog] \in Plain(progs)
                          /\ [op |-> "execve", prog |-> prog] \in Plain(progs)
  BY DEF Plain
<1>5. \A fails, child, parent \in Seq(Plain(progs)) :
        [op |-> "fork", fails |-> fails, child |-> child, parent |-> parent]
          \in Finite(progs)
  BY DEF Finite, Forking
<1>6. \A S : \A s \in S : <<s>> \in Seq(S)
  OBVIOUS
<1>7. \A ticks : Nap(ticks) \in Seq(Plain(progs))
  BY <1>3, <1>6 DEF Nap
<1>8. \A ch \in Chars : Write(ch) \in Seq(Plain(progs)) BY <1>1, <1>6 DEF Write
<1>9. /\ Read \in Seq(Plain(progs)) /\ Leave \in Seq(Plain(progs))
      /\ Bogus \in Seq(Plain(progs)) /\ Swap \in Seq(Plain(progs))
  BY <1>2, <1>6 DEF Read, Leave, Bogus, Swap
<1>10. \A prog \in progs : /\ Become(prog) \in Seq(Plain(progs))
                           /\ Execve(prog) \in Seq(Plain(progs))
  BY <1>4, <1>6 DEF Become, Execve
<1>11. \A fails, child, parent \in Seq(Plain(progs)) :
         ForkThen(fails, child, parent) \in Seq(Finite(progs))
  BY <1>5, <1>6 DEF ForkThen
<1>12. <<>> \in Seq(Plain(progs)) /\ Seq(Plain(progs)) \subseteq Seq(Finite(progs))
  BY DEF Finite
<1> QED BY <1>7, <1>8, <1>9, <1>10, <1>11, <1>12

LEMMA RepeatFacts ==
  ASSUME NEW S, NEW body \in Seq(S), NEW n \in Nat
  PROVE  Repeat(n, body) \in Seq(S)
<1> DEFINE ss == [i \in 1 .. n |-> body]
<1>1. Repeat(n, body) = FlattenSeq(ss) BY DEF Repeat
<1>2. ss \in Seq(Seq(S)) /\ Len(ss) = n OBVIOUS
<1>3. CASE n = 0
  <2>1. FlattenSeq(ss) = ss BY <1>2, <1>3 DEF FlattenSeq
  <2>2. ss = <<>> BY <1>2, <1>3, EmptySeq
  <2> QED BY <1>1, <2>1, <2>2, EmptySeq
<1>4. CASE n # 0
  <2>1. ss # <<>> BY <1>2, <1>4, EmptySeq
  <2> HIDE DEF ss
  <2> QED BY <1>1, <1>2, <2>1, FlattenFacts
<1> QED BY <1>3, <1>4

\* What sequences of the statements in S are made of.
LEMMA LoopFacts ==
  ASSUME NEW S
  PROVE  /\ \A a, c \in Seq(S) : a \o c \in Seq(S)
         /\ \A n \in Nat : \A body \in Seq(S) :
              Loop(n, body) \in Seq(S) /\ ForkLoop(n, body) \in Seq(S)
<1>1. \A a, c \in Seq(S) : a \o c \in Seq(S) BY ConcatProperties
<1>2. ASSUME NEW n \in Nat, NEW body \in Seq(S)
      PROVE  Loop(n, body) \in Seq(S) /\ ForkLoop(n, body) \in Seq(S)
  <2>1. Bounded(n, ROUNDS) \in Nat /\ Bounded(n, FORKS) \in Nat
    BY ProgramsAssumption DEF Bounded
  <2> QED BY <2>1, RepeatFacts DEF Loop, ForkLoop
<1> QED BY <1>1, <1>2

\* The programs that start no other one, but for the endless one.
LastNames ==
  {"user_swap", "user_a_main", "user_b_main", "user_c_main", "user_e_main",
   "user_f_main", "user_g_main", "user_h_main", "user_p_main", "user_q_main",
   "user_r_main", "user_w_main", "user_x_main", "user_y_main", "user_z_main",
   "user3"}
LEMMA LastTexts == \A prog \in LastNames : Text[prog] \in Seq(Plain({}))
<1> DEFINE L == Seq(Plain({}))
<1>1. /\ \A ch \in Chars : Write(ch) \in L
      /\ Read \in L /\ Leave \in L /\ Bogus \in L /\ Swap \in L
      /\ \A ticks : Nap(ticks) \in L
  BY StatementFacts
<1>2. /\ \A a, c \in L : a \o c \in L
      /\ \A n \in Nat : \A body \in L : Loop(n, body) \in L
  BY LoopFacts
<1> HIDE DEF L
<1>3. user_swap \in L BY <1>1, <1>2 DEF user_swap
<1>4. user_a_main \in L BY <1>1, <1>2 DEF user_a_main, Chars
<1>5. user_b_main \in L BY <1>1, <1>2 DEF user_b_main, Chars
<1>6. user_c_main \in L BY <1>1, <1>2 DEF user_c_main, Chars
<1>7. user_e_main \in L BY <1>1, <1>2 DEF user_e_main, Chars
<1>8. user_f_main \in L BY <1>1, <1>2 DEF user_f_main, Chars
<1>9. user_g_main \in L BY <1>1, <1>2 DEF user_g_main, Chars
<1>10. user_h_main \in L BY <1>1, <1>2 DEF user_h_main, Chars
<1>11. user_p_main \in L BY <1>1, <1>2 DEF user_p_main, Chars
<1>12. user_q_main \in L BY <1>1, <1>2 DEF user_q_main, Chars
<1>13. user_r_main \in L BY <1>1, <1>2 DEF user_r_main, Chars
<1>14. user_w_main \in L BY <1>1, <1>2 DEF user_w_main, Chars
<1>15. user_x_main \in L BY <1>1, <1>2 DEF user_x_main, Chars
<1>16. user_y_main \in L BY <1>1, <1>2 DEF user_y_main, Chars
<1>17. user_z_main \in L BY <1>1, <1>2 DEF user_z_main, Chars
<1>18. user3_main \in L BY <1>1, <1>2 DEF user3_main, do_print, Chars
<1>19. SUFFICES ASSUME NEW prog \in LastNames PROVE Text[prog] \in L
  BY DEF L
<1> QED
  BY <1>3, <1>4, <1>5, <1>6, <1>7, <1>8, <1>9, <1>10, <1>11, <1>12, <1>13, <1>14,
     <1>15, <1>16, <1>17, <1>18
     DEF LastNames, Text

\* The programs that the first process or one of its children starts.
LEMMA Names ==
  /\ ProgramNames = LastNames \cup {"user_s_main", "user_d_main", "user_j_main",
       "user_k_main", "user_l_main", "user_m_main", "user_n_main", "user1", "user2"}
  /\ "user_s_main" \notin LastNames
BY DEF ProgramNames, LastNames, Text

LEMMA Texts ==
  \A prog \in ProgramNames \ {"user_s_main"} : Text[prog] \in Seq(Finite(LastNames))
<1> DEFINE B == Seq(Plain(LastNames))
           L == Seq(Finite(LastNames))
<1>1. /\ \A ch \in Chars : Write(ch) \in B
      /\ Leave \in B /\ <<>> \in B /\ B \subseteq L
      /\ \A ticks : Nap(ticks) \in B
      /\ \A prog \in LastNames : Become(prog) \in B /\ Execve(prog) \in B
      /\ \A fails, child, parent \in B : ForkThen(fails, child, parent) \in L
  BY StatementFacts
<1>2. /\ \A a, c \in B : a \o c \in B
      /\ \A a, c \in L : a \o c \in L
      /\ \A n \in Nat : \A body \in L : Loop(n, body) \in L /\ ForkLoop(n, body) \in L
      /\ \A n \in Nat : \A body \in B : Loop(n, body) \in B
  BY LoopFacts
<1>3. {"user_w_main", "user_x_main", "user_y_main", "user_z_main", "user3"}
        \subseteq LastNames
  BY DEF LastNames
<1>4. 2 * N_PROCESSES \in Nat BY KernelAssumption
<1>5. Seq(Plain({})) \subseteq L BY DEF Plain, Finite
<1> HIDE DEF B, L
<1>5a. \A one, other, ch \in Chars :
         ForkThen(Write(one), Become("user_x_main") \o Write(other),
                  Nap(3000) \o Write(ch)) \in L
  <2>1. SUFFICES ASSUME NEW one \in Chars, NEW other \in Chars, NEW ch \in Chars
                 PROVE  ForkThen(Write(one), Become("user_x_main") \o Write(other),
                                 Nap(3000) \o Write(ch)) \in L
    OBVIOUS
  <2>2. Become("user_x_main") \o Write(other) \in B /\ Nap(3000) \o Write(ch) \in B
    BY <1>1, <1>2, <1>3
  <2> QED BY <1>1, <2>2
<1>5b. {"K", "L", "N", "k", "l", "n", "x"} \subseteq Chars BY DEF Chars
<1>6. user_d_main \in L BY <1>1, <1>2, <1>3 DEF user_d_main, Chars
<1>7. user_j_main \in L BY <1>1, <1>2, <1>3, <1>4 DEF user_j_main, Chars
<1>8. user_k_main \in L
  <2>1. ForkThen(Write("k"), Become("user_x_main") \o Write("x"),
                 Nap(3000) \o Write("K")) \in L
    BY <1>5a, <1>5b
  <2> QED BY <1>1, <1>2, <1>5b, <2>1 DEF user_k_main
<1>9. user_l_main \in L
  <2>1. ForkThen(Write("l"), Become("user_x_main") \o Write("x"),
                 Nap(3000) \o Write("L")) \in L
    BY <1>5a, <1>5b
  <2> QED BY <1>1, <1>2, <1>5b, <2>1 DEF user_l_main
<1>10. user_m_main \in L BY <1>1, <1>2, <1>3 DEF user_m_main, Chars
<1>11. user_n_main \in L
  <2>1. ForkThen(Write("n"), Become("user_x_main") \o Write("x"),
                 Nap(3000) \o Write("N")) \in L
    BY <1>5a, <1>5b
  <2> QED BY <1>1, <1>2, <1>5b, <2>1 DEF user_n_main
<1>12. fork_user3 \in L BY <1>1, <1>2, <1>3 DEF fork_user3
<1>13. user1_main \in L BY <1>1, <1>2, <1>12 DEF user1_main, Chars
<1>14. user2_main \in L BY <1>1, <1>2, <1>12 DEF user2_main, do_work, Chars
<1>15. \A prog \in LastNames : Text[prog] \in L BY <1>5, LastTexts
<1>16. SUFFICES ASSUME NEW prog \in ProgramNames \ ({"user_s_main"} \cup LastNames)
                PROVE  Text[prog] \in L
  BY <1>15 DEF L
<1> QED
  BY <1>6, <1>7, <1>8, <1>9, <1>10, <1>11, <1>13, <1>14, Names DEF Text

-----------------------------------------------------------------------------
(* What a process has still to execute *)

\* Its last statement is an exit.
Code(progs) ==
  {c \in Seq(Stmts(progs)) : c # <<>> /\ c[Len(c)].op = "exit"}

\* A loop that never ends is on the way, and all of it are calls in ops.
EndlessCode(ops) ==
  {c \in Code(ProgramNames) :
     \E k \in 2 .. Len(c) - 1 :
       /\ c[k].op = "forever" /\ c[k].body # <<>>
       /\ \A j \in 1 .. k - 1 : c[j].op \in ops
       /\ \A j \in 1 .. Len(c[k].body) : c[k].body[j].op \in ops}

\* The first process: after a fork only its child does anything more than it
\* would have done anyhow.
Starter ==
  {s \in Finite(ProgramNames) :
     \/ s.op \in {"write", "exit"}
     \/ s.op = "fork" /\ s.fails = <<>> /\ s.parent = <<>>}

\* The programs that may be started from depth k on.
NamesAt(k) ==
  IF k = 0 THEN {} ELSE IF k = 1 THEN LastNames ELSE ProgramNames

\* The code of a process of priority pr with the segment sg.
Good(c, k, pr, sg) ==
  /\ c \in Code(NamesAt(k))
  /\ c \in Seq(Finite(NamesAt(k))) \/ c \in EndlessCode({"write", "sleep"})
  /\ pr = PRI_MINIMUM => c \in EndlessCode({"write"})
  /\ pr # PRI_MINIMUM /\ sg = 0 => c \in Seq(Starter)

LEMMA NamesGrow ==
  \A k \in 0 .. 2 : /\ NamesAt(k) \subseteq ProgramNames
                    /\ Plain(NamesAt(k)) \subseteq Plain(ProgramNames)
                    /\ Finite(NamesAt(k)) \subseteq Finite(ProgramNames)
                    /\ Stmts(NamesAt(k)) \subseteq Stmts(ProgramNames)
<1> SUFFICES ASSUME NEW k \in 0 .. 2
             PROVE  /\ NamesAt(k) \subseteq ProgramNames
                    /\ Plain(NamesAt(k)) \subseteq Plain(ProgramNames)
                    /\ Finite(NamesAt(k)) \subseteq Finite(ProgramNames)
                    /\ Stmts(NamesAt(k)) \subseteq Stmts(ProgramNames)
  OBVIOUS
<1>1. NamesAt(k) \subseteq ProgramNames BY Names DEF NamesAt
<1>2. Plain(NamesAt(k)) \subseteq Plain(ProgramNames) BY <1>1 DEF Plain
<1>3. Forking(NamesAt(k)) \subseteq Forking(ProgramNames) BY <1>2 DEF Forking
<1> QED BY <1>1, <1>2, <1>3 DEF Finite, Stmts

\* The rest of a program, when the statement in front is no exit.
LEMMA RestFacts ==
  ASSUME NEW progs, NEW c \in Code(progs)
  PROVE  /\ Head(c) = c[1] /\ Head(c) \in Stmts(progs) /\ Len(c) \in Nat /\ Len(c) >= 1
         /\ Tail(c) \in Seq(Stmts(progs)) /\ Len(Tail(c)) = Len(c) - 1
         /\ \A i \in 1 .. Len(c) - 1 : Tail(c)[i] = c[i + 1]
         /\ Head(c).op # "exit" => Tail(c) \in Code(progs)
<1>1. c \in Seq(Stmts(progs)) /\ c # <<>> /\ c[Len(c)].op = "exit" BY DEF Code
<1>2. /\ Head(c) = c[1] /\ Head(c) \in Stmts(progs) /\ Len(c) \in Nat /\ Len(c) >= 1
      /\ Tail(c) \in Seq(Stmts(progs)) /\ Len(Tail(c)) = Len(c) - 1
      /\ \A i \in 1 .. Len(c) - 1 : Tail(c)[i] = c[i + 1]
  BY <1>1, HeadTailProperties, EmptySeq, LenProperties
<1>3. ASSUME Head(c).op # "exit" PROVE Tail(c) \in Code(progs)
  <2>1. Len(c) # 1 BY <1>1, <1>2, <1>3
  <2>2. Len(c) - 1 \in 1 .. Len(c) - 1 /\ (Len(c) - 1) + 1 = Len(c)
    BY <1>2, <2>1
  <2>2a. Tail(c) # <<>>
    <3>1. Len(Tail(c)) # 0 BY <1>2, <2>1
    <3> QED BY <3>1, EmptySeq
  <2>3. Tail(c)[Len(Tail(c))] = c[Len(c)] BY <1>2, <2>2
  <2> QED BY <1>1, <1>2, <2>2a, <2>3 DEF Code
<1> QED BY <1>2, <1>3

\* Something in front of a program.
LEMMA FrontFacts ==
  ASSUME NEW progs, NEW c \in Code(progs), NEW a \in Seq(Stmts(progs))
  PROVE  /\ a \o c \in Code(progs) /\ Len(a) \in Nat /\ Len(c) \in Nat
         /\ Len(a \o c) = Len(a) + Len(c)
         /\ \A i \in 1 .. Len(a) + Len(c) :
              (a \o c)[i] = IF i <= Len(a) THEN a[i] ELSE c[i - Len(a)]
<1>1. c \in Seq(Stmts(progs)) /\ c # <<>> /\ c[Len(c)].op = "exit" BY DEF Code
<1>2. /\ a \o c \in Seq(Stmts(progs)) /\ Len(a) \in Nat /\ Len(c) \in Nat
      /\ Len(a \o c) = Len(a) + Len(c)
      /\ \A i \in 1 .. Len(a) + Len(c) :
           (a \o c)[i] = IF i <= Len(a) THEN a[i] ELSE c[i - Len(a)]
  BY <1>1, ConcatProperties, LenProperties
<1>3. Len(c) >= 1 /\ Len(a) + Len(c) \in 1 .. Len(a) + Len(c)
      /\ ~(Len(a) + Len(c) <= Len(a)) /\ (Len(a) + Len(c)) - Len(a) = Len(c)
  BY <1>1, <1>2, EmptySeq
<1>4. (a \o c)[Len(a \o c)] = c[Len(c)] BY <1>2, <1>3
<1>5. a \o c # <<>> BY <1>2, <1>3, EmptySeq
<1> QED BY <1>1, <1>2, <1>4, <1>5 DEF Code

LEMMA EmptyNames ==
  ASSUME NEW progs
  PROVE  Plain({}) \subseteq Plain(progs) /\ Plain(progs) \subseteq Finite(progs)
         /\ Finite(progs) \subseteq Stmts(progs)
BY DEF Plain, Finite, Stmts

LEMMA UnrolledFacts ==
  ASSUME NEW progs, NEW c \in Code(progs)
  PROVE  /\ Unrolled(c) \in Code(progs)
         /\ Head(c).op # "forever" => Unrolled(c) = c
<1>1. c # <<>> BY DEF Code
<1>2. ASSUME Head(c).op = "forever" PROVE Unrolled(c) \in Code(progs)
  <2>1. Head(c).body \in Seq(Plain({})) BY <1>2, RestFacts, StmtFacts
  <2>2. Head(c).body \in Seq(Stmts(progs)) BY <2>1, EmptyNames
  <2>3. Unrolled(c) = Head(c).body \o c BY <1>1, <1>2 DEF Unrolled
  <2> QED BY <2>2, <2>3, FrontFacts
<1>3. Head(c).op # "forever" => Unrolled(c) = c BY DEF Unrolled
<1> QED BY <1>2, <1>3

\* An endless program stays one.
LEMMA EndlessStep ==
  ASSUME NEW ops, "forever" \notin ops, "exit" \notin ops, NEW c \in EndlessCode(ops)
  PROVE  Head(c).op \in ops /\ Unrolled(Tail(c)) \in EndlessCode(ops)
<1>1. PICK k \in 2 .. Len(c) - 1 :
         /\ c[k].op = "forever" /\ c[k].body # <<>>
         /\ \A j \in 1 .. k - 1 : c[j].op \in ops
         /\ \A j \in 1 .. Len(c[k].body) : c[k].body[j].op \in ops
  BY DEF EndlessCode
<1>2. c \in Code(ProgramNames) BY DEF EndlessCode
<1>3. /\ Head(c) = c[1] /\ Len(c) \in Nat
      /\ Tail(c) \in Seq(Stmts(ProgramNames)) /\ Len(Tail(c)) = Len(c) - 1
      /\ \A i \in 1 .. Len(c) - 1 : Tail(c)[i] = c[i + 1]
  BY <1>2, RestFacts
<1>4. Head(c).op \in ops
  <2>1. 1 \in 1 .. k - 1 BY <1>1
  <2> QED BY <1>1, <1>3, <2>1
<1> DEFINE t == Tail(c)
<1>5. t \in Code(ProgramNames)
  <2>1. Head(c).op # "exit" BY <1>4
  <2> QED BY <1>2, <2>1, RestFacts
<1>6. Head(t) = t[1] /\ t[1] = c[2]
  <2>1. 1 \in 1 .. Len(c) - 1 /\ 1 + 1 = 2 BY <1>1, <1>3
  <2>2. t[1] = c[2] BY <1>3, <2>1
  <2> HIDE DEF t
  <2> QED BY <1>5, <2>2, RestFacts
<1>7. k - 1 \in 1 .. Len(t) - 1 /\ t[k - 1] = c[k]
      /\ \A j \in 1 .. k - 2 : t[j] = c[j + 1] /\ j + 1 \in 1 .. k - 1
  <2>1. /\ k - 1 \in 1 .. Len(c) - 1 /\ k - 1 \in 1 .. (Len(c) - 1) - 1
        /\ (k - 1) + 1 = k
        /\ \A j \in 1 .. k - 2 : j \in 1 .. Len(c) - 1 /\ j + 1 \in 1 .. k - 1
    BY <1>1, <1>3
  <2> QED BY <1>3, <2>1
<1> HIDE DEF t
<1>8. CASE k # 2
  <2>1. 2 \in 1 .. k - 1 /\ k - 1 \in 2 .. Len(t) - 1 /\ (k - 1) - 1 = k - 2
    BY <1>1, <1>7, <1>8
  <2>2. Unrolled(t) = t
    <3>1. Head(t).op \in ops BY <1>1, <1>6, <2>1
    <3>2. Head(t).op # "forever" BY <3>1
    <3> QED BY <1>5, <3>2, UnrolledFacts
  <2>3. \A j \in 1 .. (k - 1) - 1 : t[j].op \in ops BY <1>1, <1>7, <2>1
  <2> DEFINE m == k - 1
  <2>3a. /\ m \in 2 .. Len(t) - 1 /\ t[m] = c[k]
         /\ \A j \in 1 .. m - 1 : t[j].op \in ops
    BY <1>7, <2>1, <2>3
  <2> HIDE DEF m
  <2>4. t \in EndlessCode(ops)
    BY <1>1, <1>5, <2>3a DEF EndlessCode
  <2> QED BY <1>4, <2>2, <2>4 DEF t
<1>9. CASE k = 2
  <2> DEFINE body == c[2].body
             u == body \o t
  <2>1. Head(t).op = "forever" BY <1>1, <1>6, <1>9
  <2>2. /\ body \in Seq(Plain({})) /\ body \in Seq(Stmts(ProgramNames)) /\ body # <<>>
        /\ \A j \in 1 .. Len(body) : body[j].op \in ops
    <3>1. body \in Seq(Plain({})) BY <1>5, <1>6, <2>1, RestFacts, StmtFacts
    <3>2. body \in Seq(Stmts(ProgramNames)) BY <3>1, EmptyNames
    <3> QED BY <1>1, <1>9, <3>1, <3>2
  <2>3. Unrolled(t) = u
    <3>1. t # <<>> BY <1>5 DEF Code
    <3> QED BY <1>6, <2>1, <3>1 DEF Unrolled
  <2>4. t[1] = c[2] /\ Len(t) >= 2 /\ Len(t) \in Nat
    BY <1>3, <1>6, <1>7, <1>9 DEF t
  <2> HIDE DEF body
  <2>5. /\ u \in Code(ProgramNames) /\ Len(body) \in Nat
        /\ Len(u) = Len(body) + Len(t)
        /\ \A i \in 1 .. Len(body) + Len(t) :
             u[i] = IF i <= Len(body) THEN body[i] ELSE t[i - Len(body)]
    BY <1>5, <2>2, FrontFacts
  <2> HIDE DEF u
  <2> DEFINE m == Len(body) + 1
  <2>6. Len(body) # 0 BY <2>2, EmptySeq
  <2>7. /\ m \in 2 .. Len(u) - 1 /\ m \in 1 .. Len(body) + Len(t)
        /\ ~(m <= Len(body)) /\ m - Len(body) = 1 /\ m - 1 = Len(body)
        /\ \A j \in 1 .. Len(body) : j \in 1 .. Len(body) + Len(t) /\ j <= Len(body)
    BY <2>4, <2>5, <2>6
  <2>8. u[m] = c[2]
    <3> HIDE DEF m
    <3> QED BY <2>4, <2>5, <2>7
  <2>9. \A j \in 1 .. m - 1 : u[j].op \in ops BY <2>2, <2>5, <2>7
  <2> HIDE DEF m
  <2>10. u[m].op = "forever" /\ u[m].body = body /\ body # <<>>
    BY <1>1, <1>9, <2>2, <2>8 DEF body
  <2>11. u \in EndlessCode(ops)
    BY <2>2, <2>5, <2>7, <2>9, <2>10 DEF EndlessCode
  <2> QED BY <1>4, <2>3, <2>11 DEF t
<1> QED BY <1>8, <1>9

LEMMA GoodFacts ==
  ASSUME NEW k \in 0 .. 2, NEW c, NEW pr, NEW sg, Good(c, k, pr, sg)
  PROVE  /\ c # <<>> /\ Head(c) \in Stmts(NamesAt(k)) /\ Head(c).op # "forever"
         /\ pr = PRI_MINIMUM => Head(c).op = "write"
         /\ sg = 0 => Head(c).op \in {"write", "fork", "exit"}
         /\ Head(c).op \notin {"write", "sleep"} => c \in Seq(Finite(NamesAt(k)))
<1>1. c \in Code(NamesAt(k)) /\ c # <<>> BY DEF Good, Code
<1>2. Head(c) \in Stmts(NamesAt(k)) BY <1>1, RestFacts
<1>3. ASSUME c \in EndlessCode({"write", "sleep"}) PROVE Head(c).op \in {"write", "sleep"}
  BY <1>3, EndlessStep
<1>4. ASSUME c \in EndlessCode({"write"}) PROVE Head(c).op = "write"
  BY <1>4, EndlessStep
<1>5. ASSUME c \in Seq(Finite(NamesAt(k))) PROVE Head(c).op # "forever"
  <2>1. Head(c) \in Finite(NamesAt(k)) BY <1>1, <1>5, HeadTailProperties
  <2> QED BY <2>1 DEF Finite, Plain, Forking
<1>6. ASSUME c \in Seq(Starter) PROVE Head(c).op \in {"write", "fork", "exit"}
  <2>1. Head(c) \in Starter BY <1>1, <1>6, HeadTailProperties
  <2> QED BY <2>1 DEF Starter
<1>7. Head(c).op # "forever" BY <1>3, <1>5 DEF Good
<1>8. pr = PRI_MINIMUM => Head(c).op = "write" BY <1>4 DEF Good
<1>9. sg = 0 => Head(c).op \in {"write", "fork", "exit"} BY <1>6, <1>8 DEF Good
<1>10. Head(c).op \notin {"write", "sleep"} => c \in Seq(Finite(NamesAt(k)))
  BY <1>3 DEF Good
<1> QED BY <1>1, <1>2, <1>7, <1>8, <1>9, <1>10

\* A process goes on with its next statement.
LEMMA GoodTail ==
  ASSUME NEW k \in 0 .. 2, NEW c, NEW pr, NEW sg, Good(c, k, pr, sg),
         Head(c).op \notin {"exit", "fork"}
  PROVE  /\ Good(Unrolled(Tail(c)), k, pr, sg)
         /\ c \in Seq(Finite(NamesAt(k))) => Unrolled(Tail(c)) = Tail(c)
<1> DEFINE t == Tail(c)
<1>1. c \in Code(NamesAt(k)) /\ c # <<>> BY DEF Good, Code
<1>2. t \in Code(NamesAt(k)) BY <1>1, RestFacts
<1>3. Unrolled(t) \in Code(NamesAt(k)) BY <1>2, UnrolledFacts
<1>4. ASSUME c \in EndlessCode({"write", "sleep"})
      PROVE  Unrolled(t) \in EndlessCode({"write", "sleep"})
  BY <1>4, EndlessStep
<1>5. ASSUME c \in EndlessCode({"write"}) PROVE Unrolled(t) \in EndlessCode({"write"})
  BY <1>5, EndlessStep
<1>6. ASSUME c \in Seq(Finite(NamesAt(k)))
      PROVE  Unrolled(t) = t /\ t \in Seq(Finite(NamesAt(k)))
  <2>1. t \in Seq(Finite(NamesAt(k))) BY <1>1, <1>6, HeadTailProperties
  <2>2. t # <<>> BY <1>2 DEF Code
  <2>3. Head(t) \in Finite(NamesAt(k)) BY <2>1, <2>2, HeadTailProperties
  <2>4. Head(t).op # "forever" BY <2>3 DEF Finite, Plain, Forking
  <2> QED BY <2>1, <2>4 DEF Unrolled
<1>7. ASSUME c \in Seq(Starter) PROVE Unrolled(t) \in Seq(Starter)
  <2>1. t \in Seq(Starter) BY <1>1, <1>7, HeadTailProperties
  <2>2. t # <<>> BY <1>2 DEF Code
  <2>3. Head(t) \in Starter BY <2>1, <2>2, HeadTailProperties
  <2>4. Head(t).op # "forever" BY <2>3 DEF Starter
  <2>5. Unrolled(t) = t BY <2>4 DEF Unrolled
  <2> QED BY <2>1, <2>5
<1> HIDE DEF t
<1> QED BY <1>3, <1>4, <1>5, <1>6, <1>7 DEF Good, t

\* A fork: what the child and the parent go on with.
LEMMA GoodFork ==
  ASSUME NEW k \in 0 .. 2, NEW c, NEW pr, NEW sg, Good(c, k, pr, sg),
         Head(c).op = "fork"
  PROVE  LET s == Head(c)
         IN  /\ {s.fails, s.child, s.parent} \subseteq Seq(Plain(NamesAt(k)))
             /\ Tail(c) \in Seq(Stmts(NamesAt(k)))
             /\ \A x \in {s.fails, s.parent} : Good(x \o Tail(c), k, pr, sg)
             /\ \A new : new # 0 => Good(s.child \o Tail(c), k, pr, new)
             /\ \A x \in {s.fails, s.child, s.parent} :
                  /\ Unrolled(x \o Tail(c)) = x \o Tail(c)
                  /\ x \o Tail(c) \in Seq(Finite(NamesAt(k)))
<1> DEFINE s == Head(c)
           t == Tail(c)
           P == Plain(NamesAt(k))
           F == Finite(NamesAt(k))
<1>1. c \in Code(NamesAt(k)) /\ c # <<>> BY DEF Good, Code
<1>2. c \in Seq(F) /\ pr # PRI_MINIMUM BY GoodFacts
<1>3. t \in Code(NamesAt(k)) /\ s \in Stmts(NamesAt(k)) BY <1>1, RestFacts
<1>4. t \in Seq(F) BY <1>1, <1>2, HeadTailProperties
<1>5. {s.fails, s.child, s.parent} \subseteq Seq(P) BY <1>3, StmtFacts
<1>6. Seq(P) \subseteq Seq(F) /\ Seq(P) \subseteq Seq(Stmts(NamesAt(k)))
      /\ \A h \in F : h.op # "forever"
  <2>1. P \subseteq F /\ F \subseteq Stmts(NamesAt(k)) BY EmptyNames
  <2>2. \A h \in F : h.op # "forever" BY DEF Finite, Plain, Forking
  <2> HIDE DEF P, F
  <2> QED BY <2>1, <2>2
<1> HIDE DEF P, F, t
<1>7. ASSUME NEW x \in Seq(P)
      PROVE  /\ x \o t \in Code(NamesAt(k)) /\ x \o t \in Seq(F)
             /\ Unrolled(x \o t) = x \o t
  <2>1. x \o t \in Code(NamesAt(k)) BY <1>3, <1>6, FrontFacts
  <2>2. x \o t \in Seq(F) BY <1>4, <1>6, ConcatProperties
  <2>3. x \o t # <<>> BY <2>1 DEF Code
  <2>4. Head(x \o t) \in F BY <2>2, <2>3, HeadTailProperties
  <2>5. Head(x \o t).op # "forever" BY <1>6, <2>4
  <2> QED BY <2>1, <2>2, <2>5 DEF Unrolled
<1>8. ASSUME sg = 0 PROVE s.fails = <<>> /\ s.parent = <<>> /\ <<>> \o t \in Seq(Starter)
  <2>1. c \in Seq(Starter) BY <1>2, <1>8 DEF Good
  <2>2. s \in Starter /\ t \in Seq(Starter)
    BY <1>1, <2>1, HeadTailProperties DEF t
  <2>3. <<>> \o t = t BY <2>2, ConcatEmptySeq
  <2>4. s.fails = <<>> /\ s.parent = <<>> BY <2>2 DEF Starter
  <2> QED BY <2>2, <2>3, <2>4
<1>9. ASSUME NEW x \in {s.fails, s.parent} PROVE Good(x \o t, k, pr, sg)
  BY <1>2, <1>5, <1>7, <1>8, <1>9 DEF Good, F
<1>10. ASSUME NEW new, new # 0 PROVE Good(s.child \o t, k, pr, new)
  BY <1>2, <1>5, <1>7, <1>10 DEF Good, F
<1>11. t \in Seq(Stmts(NamesAt(k))) BY <1>3 DEF Code
<1> QED BY <1>5, <1>7, <1>9, <1>10, <1>11 DEF P, F, t

\* Tuples put together.
LEMMA TwoTuple ==
  ASSUME NEW a, NEW b
  PROVE  <<a>> \o <<b>> = <<a, b>>
<1> DEFINE S == {a, b}
           x == Append(<<a>>, b)
           y == <<a, b>>
<1>1. <<a>> \in Seq(S) /\ a \in S /\ b \in S OBVIOUS
<1>2. <<a>> \o <<b>> = x BY <1>1, AppendIsConcat
<1> HIDE DEF S
<1>3. x \in Seq(S) /\ Len(x) = 2 /\ x[1] = a /\ x[2] = b BY <1>1, AppendProperties
<1>4. y \in Seq(S) /\ Len(y) = 2 /\ y[1] = a /\ y[2] = b BY <1>1
<1> HIDE DEF x, y
<1>5. x = y BY <1>3, <1>4, SeqEqual
<1> QED BY <1>2, <1>5 DEF y

LEMMA ThreeTuple ==
  ASSUME NEW a, NEW b, NEW c
  PROVE  <<a, b>> \o <<c>> = <<a, b, c>>
<1> DEFINE S == {a, b, c}
           x == Append(<<a, b>>, c)
           y == <<a, b, c>>
<1>1. <<a, b>> \in Seq(S) /\ a \in S /\ b \in S /\ c \in S OBVIOUS
<1>2. <<a, b>> \o <<c>> = x BY <1>1, AppendIsConcat
<1> HIDE DEF S
<1>3. x \in Seq(S) /\ Len(x) = 3 /\ x[1] = a /\ x[2] = b /\ x[3] = c
  BY <1>1, AppendProperties
<1>4. y \in Seq(S) /\ Len(y) = 3 /\ y[1] = a /\ y[2] = b /\ y[3] = c BY <1>1
<1> HIDE DEF x, y
<1>5. x = y BY <1>3, <1>4, SeqEqual
<1> QED BY <1>2, <1>5 DEF y

LEMMA FourTuple ==
  ASSUME NEW a, NEW b, NEW c, NEW d
  PROVE  <<a, b, c>> \o <<d>> = <<a, b, c, d>>
<1> DEFINE S == {a, b, c, d}
           x == Append(<<a, b, c>>, d)
           y == <<a, b, c, d>>
<1>1. <<a, b, c>> \in Seq(S) /\ a \in S /\ b \in S /\ c \in S /\ d \in S OBVIOUS
<1>2. <<a, b, c>> \o <<d>> = x BY <1>1, AppendIsConcat
<1> HIDE DEF S
<1>3. /\ x \in Seq(S) /\ Len(x) = 4 /\ x[1] = a /\ x[2] = b /\ x[3] = c /\ x[4] = d
  BY <1>1, AppendProperties
<1>4. /\ y \in Seq(S) /\ Len(y) = 4 /\ y[1] = a /\ y[2] = b /\ y[3] = c /\ y[4] = d
  BY <1>1
<1> HIDE DEF x, y
<1>5. x = y BY <1>3, <1>4, SeqEqual
<1> QED BY <1>2, <1>5 DEF y

\* The two programs that never end.
LEMMA EndlessTexts ==
  /\ WithReturn(idle_main) \in EndlessCode({"write"})
  /\ \A progs : /\ user_s_main \in Seq(Stmts(progs))
                /\ user_s_main \o Leave \in Code(progs)
                /\ WithReturn(idle_main) \in Code(progs)
  /\ user_s_main \o Leave \in EndlessCode({"write", "sleep"})
  /\ Unrolled(user_s_main \o Leave) = user_s_main \o Leave
<1> DEFINE W(ch) == [op |-> "write", ch |-> ch]
           N == [op |-> "sleep", ticks |-> 2]
           X == [op |-> "exit"]
           fs == [op |-> "forever", body |-> <<N, W("S")>>]
           fi == [op |-> "forever", body |-> <<W(".")>>]
           us == <<W("S"), fs, X, X>>
           ui == <<W("."), fi, X, X>>
<1>1. user_s_main = <<W("S"), fs, X>> /\ user_s_main \o Leave = us
  <2> DEFINE ws == W("S")
             last == [op |-> "exit"]
             nap == Nap(3000)
  <2>1. nap = <<N>> BY DEF Nap
  <2>2. Write("S") = <<ws>> /\ Leave = <<X>> BY DEF Write, Leave
  <2>3. fs = [op |-> "forever", body |-> <<N, ws>>] /\ last = X OBVIOUS
  <2> HIDE DEF W, N, X, ws, last, fs, nap
  <2>4. /\ <<N>> \o <<ws>> = <<N, ws>> /\ <<ws>> \o <<fs>> = <<ws, fs>>
        /\ <<ws, fs>> \o <<X>> = <<ws, fs, X>>
        /\ <<ws, fs, X>> \o <<X>> = <<ws, fs, X, X>>
    <3>1. <<N>> \o <<ws>> = <<N, ws>> BY TwoTuple
    <3>2. <<ws>> \o <<fs>> = <<ws, fs>> BY TwoTuple
    <3>3. <<ws, fs>> \o <<X>> = <<ws, fs, X>> BY ThreeTuple
    <3>4. <<ws, fs, X>> \o <<last>> = <<ws, fs, X, last>> BY FourTuple
    <3> QED BY <2>3, <3>1, <3>2, <3>3, <3>4
  <2>5. nap \o Write("S") = <<N, ws>> BY <2>1, <2>2, <2>4
  <2>6. Forever(nap \o Write("S")) = <<fs>> BY <2>3, <2>5 DEF Forever
  <2>7. user_s_main = Write("S") \o Forever(nap \o Write("S")) \o Leave
    BY DEF user_s_main, nap
  <2>8. user_s_main = <<ws, fs, X>> BY <2>2, <2>4, <2>6, <2>7
  <2> QED BY <2>2, <2>4, <2>8 DEF ws
<1>2. WithReturn(idle_main) = ui
  <2> DEFINE wi == W(".")
  <2>1. Write(".") = <<wi>> /\ Leave = <<X>> BY DEF Write, Leave
  <2>2. fi = [op |-> "forever", body |-> <<wi>>] OBVIOUS
  <2> HIDE DEF W, X, wi, fi
  <2>3. /\ <<wi>> \o <<fi>> = <<wi, fi>> /\ <<wi, fi>> \o <<X>> = <<wi, fi, X>>
        /\ <<wi, fi, X>> \o <<X>> = <<wi, fi, X, X>>
    <3>1. <<wi>> \o <<fi>> = <<wi, fi>> BY TwoTuple
    <3>2. <<wi, fi>> \o <<X>> = <<wi, fi, X>> BY ThreeTuple
    <3>3. <<wi, fi, X>> \o <<X>> = <<wi, fi, X, X>> BY FourTuple
    <3> QED BY <3>1, <3>2, <3>3
  <2>4. Forever(Write(".")) = <<fi>> BY <2>1, <2>2 DEF Forever
  <2>5. idle_main = <<wi, fi, X>> BY <2>1, <2>3, <2>4 DEF idle_main
  <2> QED BY <2>1, <2>3, <2>5 DEF WithReturn, wi
<1>3. ASSUME NEW progs
      PROVE  {W("S"), W("."), X, fs, fi} \subseteq Stmts(progs)
  <2>1. {W("S"), W("."), X} \subseteq Plain(progs) BY DEF Plain, Chars
  <2>2. {W("S"), W("."), N} \subseteq Plain({}) BY DEF Plain, Chars
  <2>3. fs.body \in Seq(Plain({})) /\ fi.body \in Seq(Plain({})) BY <2>2
  <2>4. fs \in Looping /\ fi \in Looping BY <2>3 DEF Looping
  <2> QED BY <2>1, <2>4 DEF Stmts, Finite
<1>4. ASSUME NEW progs
      PROVE  /\ user_s_main \in Seq(Stmts(progs))
             /\ us \in Code(progs) /\ ui \in Code(progs)
  <2> DEFINE S == Stmts(progs)
             ws == W("S")
             wi == W(".")
  <2>1. {ws, wi, X, fs, fi} \subseteq S BY <1>3
  <2>2. X.op = "exit" OBVIOUS
  <2> HIDE DEF S, ws, wi, X, fs, fi
  <2>3. <<ws, fs, X>> \in Seq(S) /\ <<ws, fs, X, X>> \in Seq(S)
        /\ <<wi, fi, X, X>> \in Seq(S)
    BY <2>1
  <2> QED BY <1>1, <2>2, <2>3 DEF Code, S, ws, wi
<1>5. us \in EndlessCode({"write", "sleep"})
  <2>1. us \in Code(ProgramNames) BY <1>4
  <2>2. us[2] = fs /\ us[1] = W("S") /\ Len(us) = 4 OBVIOUS
  <2>3. fs.op = "forever" /\ fs.body # <<>> /\ Len(fs.body) = 2
        /\ fs.body[1].op = "sleep" /\ fs.body[2].op = "write" /\ W("S").op = "write"
    OBVIOUS
  <2> HIDE DEF us, fs
  <2>4. 2 \in 2 .. Len(us) - 1 /\ (\A j \in 1 .. 2 - 1 : j = 1)
        /\ \A j \in 1 .. 2 : j = 1 \/ j = 2
    BY <2>2
  <2> QED BY <2>1, <2>2, <2>3, <2>4 DEF EndlessCode
<1>6. ui \in EndlessCode({"write"})
  <2>1. ui \in Code(ProgramNames) BY <1>4
  <2>2. ui[2] = fi /\ ui[1] = W(".") /\ Len(ui) = 4 OBVIOUS
  <2>3. fi.op = "forever" /\ fi.body # <<>> /\ Len(fi.body) = 1
        /\ fi.body[1].op = "write" /\ W(".").op = "write"
    OBVIOUS
  <2> HIDE DEF ui, fi
  <2>4. 2 \in 2 .. Len(ui) - 1 /\ (\A j \in 1 .. 2 - 1 : j = 1)
        /\ \A j \in 1 .. 1 : j = 1
    BY <2>2
  <2> QED BY <2>1, <2>2, <2>3, <2>4 DEF EndlessCode
<1>7. Unrolled(us) = us
  <2>1. Head(us).op = "write" OBVIOUS
  <2> HIDE DEF us
  <2> QED BY <2>1 DEF Unrolled
<1> QED BY <1>1, <1>2, <1>4, <1>5, <1>6, <1>7

\* An exec: the new program, which returns to an exit.
LEMMA GoodExec ==
  ASSUME NEW k \in 0 .. 2, NEW c, NEW pr, NEW sg, Good(c, k, pr, sg),
         Head(c).op \in {"exec", "execve"}, sg # 0
  PROVE  LET prog == Head(c).prog
         IN  /\ prog \in NamesAt(k) /\ k - 1 \in 0 .. 2 /\ pr # PRI_MINIMUM
             /\ Text[prog] \in Seq(Stmts(NamesAt(k - 1)))
             /\ \/ Text[prog] \o Leave \in Seq(Finite(NamesAt(k - 1)))
                \/ Text[prog] \o Leave \in EndlessCode({"write", "sleep"})
             /\ Unrolled(Text[prog] \o Leave) = Text[prog] \o Leave
             /\ \A new : new # 0 => Good(Text[prog] \o Leave, k - 1, pr, new)
<1> DEFINE prog == Head(c).prog
           text == Text[prog]
           u == text \o Leave
           F == Finite(NamesAt(k - 1))
<1>1. pr # PRI_MINIMUM /\ Head(c) \in Stmts(NamesAt(k)) BY GoodFacts
<1>2. prog \in NamesAt(k) BY <1>1, StmtFacts, PlainFacts
<1>3. k # 0 BY <1>2 DEF NamesAt
<1>4. k - 1 \in 0 .. 2 BY <1>3
<1>5. /\ Leave \in Seq(F) /\ Leave \in Code(NamesAt(k - 1))
      /\ F \subseteq Stmts(NamesAt(k - 1))
  <2>1. Leave \in Seq(F) BY StatementFacts
  <2>2. Leave # <<>> /\ Leave[Len(Leave)].op = "exit" BY DEF Leave
  <2>3. F \subseteq Stmts(NamesAt(k - 1)) BY EmptyNames
  <2> HIDE DEF F
  <2>4. Leave \in Seq(Stmts(NamesAt(k - 1))) BY <2>1, <2>3
  <2> QED BY <2>1, <2>2, <2>3, <2>4 DEF Code
<1>6. CASE prog # "user_s_main"
  <2>1. text \in Seq(F)
    <3>1. CASE k = 1
      <4>1. text \in Seq(Plain({})) BY <1>2, <3>1, LastTexts DEF NamesAt
      <4>2. Plain({}) \subseteq F BY EmptyNames
      <4> HIDE DEF F, text
      <4> QED BY <4>1, <4>2
    <3>2. CASE k = 2
      <4>1. text \in Seq(Finite(LastNames)) BY <1>2, <1>6, <3>2, Texts DEF NamesAt
      <4>2. NamesAt(k - 1) = LastNames BY <3>2 DEF NamesAt
      <4> QED BY <4>1, <4>2
    <3> QED BY <1>3, <3>1, <3>2
  <2> HIDE DEF F, prog
  <2>2. u \in Seq(F) BY <1>5, <2>1, ConcatProperties
  <2>3. text \in Seq(Stmts(NamesAt(k - 1))) BY <1>5, <2>1
  <2>4. u \in Code(NamesAt(k - 1)) BY <1>5, <2>3, FrontFacts
  <2>5. u # <<>> BY <2>4 DEF Code
  <2>6. Head(u) \in F BY <2>2, <2>5, HeadTailProperties
  <2>7. Head(u).op # "forever" BY <2>6 DEF F, Finite, Plain, Forking
  <2>8. Unrolled(u) = u BY <2>7 DEF Unrolled
  <2> HIDE DEF u, text
  <2>9. \A new : new # 0 => Good(u, k - 1, pr, new)
    BY <1>1, <2>2, <2>4 DEF Good, F
  <2> QED BY <1>1, <1>2, <1>4, <2>2, <2>3, <2>8, <2>9 DEF u, text, prog, F
<1>7. CASE prog = "user_s_main"
  <2>1. k = 2
    <3>1. prog \notin LastNames BY <1>7, Names
    <3> QED BY <1>2, <1>3, <3>1 DEF NamesAt
  <2>2. u \in Code(NamesAt(k - 1)) /\ text \in Seq(Stmts(NamesAt(k - 1)))
        /\ u \in EndlessCode({"write", "sleep"}) /\ Unrolled(u) = u
    <3>1. NamesAt(k - 1) = LastNames BY <2>1 DEF NamesAt
    <3>2. text = user_s_main BY <1>7 DEF Text
    <3> QED BY <3>1, <3>2, EndlessTexts
  <2> HIDE DEF u, text
  <2>3. \A new : new # 0 => Good(u, k - 1, pr, new)
    BY <1>1, <2>2 DEF Good
  <2> QED BY <1>1, <1>2, <1>4, <2>2, <2>3 DEF u, text, prog
<1> QED BY <1>6, <1>7

-----------------------------------------------------------------------------
(* What the kernel starts with *)

LEMMA StarterFacts ==
  /\ Starter \subseteq Finite(ProgramNames) /\ Starter \subseteq Stmts(ProgramNames)
  /\ \A ch \in Chars : Write(ch) \in Seq(Starter)
  /\ Leave \in Seq(Starter) /\ Leave \in Code(ProgramNames)
  /\ \A child \in Seq(Plain(ProgramNames)) : ForkThen(<<>>, child, <<>>) \in Seq(Starter)
<1>1. Starter \subseteq Finite(ProgramNames) /\ Starter \subseteq Stmts(ProgramNames)
  BY DEF Starter, Stmts
<1>2. ASSUME NEW ch \in Chars PROVE Write(ch) \in Seq(Starter)
  <2>1. [op |-> "write", ch |-> ch] \in Starter BY <1>2 DEF Starter, Finite, Plain
  <2> QED BY <2>1 DEF Write
<1>3. Leave \in Seq(Starter) /\ Leave # <<>> /\ Leave[Len(Leave)].op = "exit"
  <2>1. [op |-> "exit"] \in Starter BY DEF Starter, Finite, Plain
  <2> QED BY <2>1 DEF Leave
<1>4. Leave \in Code(ProgramNames)
  <2>1. Leave \in Seq(Stmts(ProgramNames)) BY <1>1, <1>3
  <2> QED BY <1>3, <2>1 DEF Code
<1>5. ASSUME NEW child \in Seq(Plain(ProgramNames))
      PROVE  ForkThen(<<>>, child, <<>>) \in Seq(Starter)
  <2> DEFINE s == [op |-> "fork", fails |-> <<>>, child |-> child, parent |-> <<>>]
             P == Plain(ProgramNames)
  <2>1. <<>> \in Seq(P) OBVIOUS
  <2>2. s \in Forking(ProgramNames) BY <2>1 DEF Forking
  <2>3. s \in Starter BY <2>2 DEF Starter, Finite
  <2> QED BY <2>3 DEF ForkThen
<1> QED BY <1>1, <1>2, <1>3, <1>4, <1>5

LEMMA Spawned ==
  ASSUME NEW x \in DOMAIN SPAWN
  PROVE  SPAWN[x] \o Leave \in Seq(Plain(ProgramNames))
<1> DEFINE P == Seq(Plain(ProgramNames))
<1>1. \A prog \in ProgramNames : Become(prog) \in P /\ Execve(prog) \in P
  BY StatementFacts
<1>2. Leave \in P BY StatementFacts
<1>3. {"user1", "user2", "user_swap", "user_a_main", "user_b_main", "user_c_main",
       "user_d_main", "user_e_main", "user_f_main", "user_g_main", "user_h_main",
       "user_j_main", "user_k_main", "user_l_main", "user_m_main", "user_n_main",
       "user_p_main", "user_q_main", "user_r_main", "user_s_main"} \subseteq ProgramNames
  BY Names DEF LastNames
<1> HIDE DEF P
<1>4. SPAWN[x] \in P BY <1>1, <1>3 DEF SPAWN
<1> QED BY <1>2, <1>4, ConcatProperties DEF P

LEMMA FirstCode ==
  ASSUME NEW enabled
  PROVE  /\ first_main(enabled) \in Seq(Starter)
         /\ WithReturn(first_main(enabled)) \in Seq(Starter)
         /\ WithReturn(first_main(enabled)) \in Code(ProgramNames)
<1> DEFINE Users == DOMAIN SPAWN
           Child(x) == IF x \in enabled THEN ForkThen(<<>>, SPAWN[x] \o Leave, <<>>)
                       ELSE <<>>
           order == SpawnOrder
           ss == [i \in DOMAIN order |-> Child(order[i])]
           all == FlattenSeq(ss)
           m == first_main(enabled)
<1>1. order \in Seq(Users) /\ order # <<>>
  <2>1. SpawnFirst \in Seq(Users) /\ SpawnLast \in Seq(Users)
    BY DEF SpawnFirst, SpawnLast, SPAWN
  <2>2. Len(SpawnFirst) # 0 BY DEF SpawnFirst
  <2>3. Len(SpawnFirst) \in Nat /\ Len(SpawnLast) \in Nat BY <2>1, LenProperties
  <2> HIDE DEF Users
  <2>4. order \in Seq(Users) /\ Len(order) = Len(SpawnFirst) + Len(SpawnLast)
    BY <2>1, ConcatProperties DEF SpawnOrder
  <2> QED BY <2>2, <2>3, <2>4, EmptySeq
<1>2. \A x \in Users : Child(x) \in Seq(Starter)
  <2>1. <<>> \in Seq(Starter) OBVIOUS
  <2> QED BY <2>1, Spawned, StarterFacts
<1> HIDE DEF Users, Child, order
<1>3. ss \in Seq(Seq(Starter)) /\ ss # <<>>
  <2>1. DOMAIN order = 1 .. Len(order) /\ Len(order) \in Nat /\ Len(order) # 0
    BY <1>1, LenProperties, EmptySeq
  <2>2. \A i \in 1 .. Len(order) : order[i] \in Users BY <1>1, ElementOfSeq
  <2>3. ss \in Seq(Seq(Starter)) /\ Len(ss) = Len(order) BY <1>2, <2>1, <2>2
  <2> QED BY <2>1, <2>3, EmptySeq
<1> HIDE DEF ss
<1>4. all \in Seq(Starter) BY <1>3, FlattenFacts
<1>5. m = Write("$") \o all \o Write("!") \o Leave
  BY DEF first_main, all, ss, Child, order
<1>6. Write("$") \in Seq(Starter) /\ Write("!") \in Seq(Starter) /\ Leave \in Seq(Starter)
  <2>1. {"$", "!"} \subseteq Chars BY DEF Chars
  <2> QED BY <2>1, StarterFacts
<1> HIDE DEF all
<1>7. m \in Seq(Starter)
  <2>1. Write("$") \o all \in Seq(Starter) BY <1>4, <1>6, ConcatProperties
  <2>2. Write("$") \o all \o Write("!") \in Seq(Starter) BY <1>6, <2>1, ConcatProperties
  <2> QED BY <1>5, <1>6, <2>2, ConcatProperties
<1> HIDE DEF m
<1>8. m \o Leave \in Seq(Starter) BY <1>6, <1>7, ConcatProperties
<1>9. m \in Seq(Stmts(ProgramNames)) BY <1>7, StarterFacts
<1>10. m \o Leave \in Code(ProgramNames) BY <1>9, StarterFacts, FrontFacts
<1> QED BY <1>7, <1>8, <1>10 DEF WithReturn, m

\* Both processes that _init creates.
LEMMA GoodInit ==
  /\ \A enabled : Good(WithReturn(first_main(enabled)), 2, PRI_NORMAL, 0)
  /\ \A k \in 0 .. 2 : Good(WithReturn(idle_main), k, PRI_MINIMUM, 0)
<1>1. NamesAt(2) = ProgramNames BY DEF NamesAt
<1>2. ASSUME NEW enabled PROVE Good(WithReturn(first_main(enabled)), 2, PRI_NORMAL, 0)
  <2> DEFINE c == WithReturn(first_main(enabled))
  <2>1. c \in Seq(Starter) /\ c \in Code(ProgramNames) BY FirstCode
  <2>2. c \in Seq(Finite(ProgramNames))
    <3> HIDE DEF c
    <3> QED BY <2>1, StarterFacts
  <2>3. PRI_NORMAL # PRI_MINIMUM BY DEF PRI_NORMAL, PRI_MINIMUM
  <2> HIDE DEF c
  <2>4. Good(c, 2, PRI_NORMAL, 0) BY <1>1, <2>1, <2>2, <2>3 DEF Good
  <2> QED BY <2>4 DEF c
<1>3. ASSUME NEW k \in 0 .. 2 PROVE Good(WithReturn(idle_main), k, PRI_MINIMUM, 0)
  <2> DEFINE c == WithReturn(idle_main)
  <2>1. c \in EndlessCode({"write"}) /\ c \in Code(NamesAt(k)) BY EndlessTexts
  <2> HIDE DEF c
  <2>2. c \in EndlessCode({"write", "sleep"}) BY <2>1 DEF EndlessCode
  <2>3. Good(c, k, PRI_MINIMUM, 0) BY <2>1, <2>2 DEF Good
  <2> QED BY <2>3 DEF c
<1> QED BY <1>2, <1>3

-----------------------------------------------------------------------------
(* What programs started at depth k may write *)

RunsAt(k) == IF k = 0 THEN NoRuns ELSE IF k = 1 THEN LastRuns ELSE Runs

LEMMA TextsAt ==
  \A k \in 1 .. 2 : \A prog \in NamesAt(k) : Text[prog] \in Seq(Stmts(NamesAt(k - 1)))
<1> SUFFICES ASSUME NEW k \in 1 .. 2, NEW prog \in NamesAt(k)
             PROVE  Text[prog] \in Seq(Stmts(NamesAt(k - 1)))
  OBVIOUS
<1>1. CASE k = 1
  <2>1. Text[prog] \in Seq(Plain({})) BY <1>1, LastTexts DEF NamesAt
  <2>2. Plain({}) \subseteq Stmts(NamesAt(k - 1)) BY EmptyNames
  <2> QED BY <2>1, <2>2
<1>2. CASE k = 2 /\ prog # "user_s_main"
  <2>1. Text[prog] \in Seq(Finite(LastNames)) BY <1>2, Texts DEF NamesAt
  <2>2. NamesAt(k - 1) = LastNames BY <1>2 DEF NamesAt
  <2>3. Finite(LastNames) \subseteq Stmts(LastNames) BY EmptyNames
  <2> QED BY <2>1, <2>2, <2>3
<1>3. CASE k = 2 /\ prog = "user_s_main"
  <2>1. Text[prog] = user_s_main BY <1>3 DEF Text
  <2> QED BY <2>1, EndlessTexts
<1> QED BY <1>1, <1>2, <1>3

LEMMA RunsFacts ==
  ASSUME NEW k \in 0 .. 2, NEW prog \in NamesAt(k)
  PROVE  /\ k - 1 \in 0 .. 2 /\ RunsAt(k)[prog] \in Results
         /\ RunsAt(k)[prog] = OfCode(Text[prog], RunsAt(k - 1))
<1>1. k # 0 /\ k - 1 \in 0 .. 1 BY DEF NamesAt
<1>2. Text[prog] \in Seq(Stmts(NamesAt(k - 1))) BY <1>1, TextsAt
<1>3. prog \in ProgramNames BY NamesGrow
<1>4. RunsAt(k)[prog] = OfCode(Text[prog], RunsAt(k - 1))
  BY <1>1, <1>3 DEF RunsAt, LastRuns, Runs, ProgramNames
<1>5. ASSUME NEW q \in NamesAt(1) PROVE RunsAt(1)[q] \in Results
  <2>1. Text[q] \in Seq(Stmts(NamesAt(0))) BY <1>5, TextsAt
  <2>2. \A x \in NamesAt(0) : NoRuns[x] \in Results BY DEF NamesAt
  <2>3. OfCode(Text[q], NoRuns) \in Results BY <2>1, <2>2, CodeRules
  <2>4. q \in ProgramNames BY <1>5, NamesGrow
  <2> QED BY <2>3, <2>4 DEF RunsAt, LastRuns, ProgramNames
<1>6. \A q \in NamesAt(k - 1) : RunsAt(k - 1)[q] \in Results
  <2>1. k - 1 = 0 \/ k - 1 = 1 BY <1>1
  <2> QED BY <1>5, <2>1 DEF NamesAt
<1>7. OfCode(Text[prog], RunsAt(k - 1)) \in Results BY <1>2, <1>6, CodeRules
<1> QED BY <1>1, <1>4, <1>7

LEMMA AllRuns == \A k \in 0 .. 2 : \A prog \in NamesAt(k) : RunsAt(k)[prog] \in Results
BY RunsFacts

\* Of a process: what its next statement and what follows it may write.
LEMMA NextOutcomes ==
  ASSUME NEW k \in 0 .. 2, NEW c, NEW pr, NEW sg, Good(c, k, pr, sg)
  PROVE  LET rest == OfCode(Tail(c), RunsAt(k))
         IN  /\ OfCode(c, RunsAt(k)) \in Results /\ rest \in Results
             /\ Head(c).op \in {"read", "sleep"} => OfCode(c, RunsAt(k)) = rest
             /\ Head(c).op = "write" =>
                  OfCode(c, RunsAt(k)) = {[o EXCEPT ![Head(c).ch] = @ + 1] : o \in rest}
             /\ Head(c).op \in {"exit", "bogus"} => OfCode(c, RunsAt(k)) = {Nothing}
             /\ Head(c).op \in {"exec", "execve"} =>
                  OfCode(c, RunsAt(k)) = RunsAt(k)[Head(c).prog]
<1> DEFINE R == RunsAt(k)
           rest == OfCode(Tail(c), R)
           s == Head(c)
<1>1. c \in Code(NamesAt(k)) BY DEF Good
<1>2. c \in Seq(Stmts(NamesAt(k))) /\ c # <<>> BY <1>1 DEF Code
<1>3. Tail(c) \in Seq(Stmts(NamesAt(k))) BY <1>1, RestFacts
<1>4. \A prog \in NamesAt(k) : R[prog] \in Results BY AllRuns
<1> HIDE DEF R
<1>5. OfCode(c, R) \in Results /\ rest \in Results /\ OfCode(c, R) = OfStmt(s, rest, R)
  BY <1>2, <1>3, <1>4, CodeRules
<1>6. s.op # "fork" => OfStmt(s, rest, R) = OfPlain(s, rest, R) BY DEF OfStmt
<1> HIDE DEF s, rest
<1>7. /\ s.op \in {"read", "sleep"} => OfPlain(s, rest, R) = rest
      /\ s.op = "write" => OfPlain(s, rest, R) = {[o EXCEPT ![s.ch] = @ + 1] : o \in rest}
      /\ s.op \in {"exit", "bogus"} => OfPlain(s, rest, R) = {Nothing}
      /\ s.op \in {"exec", "execve"} => OfPlain(s, rest, R) = R[s.prog]
  BY DEF OfPlain
<1>8. s.op \in {"read", "sleep", "write", "exit", "bogus", "exec", "execve"} => s.op # "fork"
  OBVIOUS
<1> QED BY <1>5, <1>6, <1>7, <1>8 DEF s, rest, R

\* A fork that fails, and one that returns twice.
LEMMA ForkOutcomes ==
  ASSUME NEW k \in 0 .. 2, NEW c, NEW pr, NEW sg, Good(c, k, pr, sg),
         Head(c).op = "fork"
  PROVE  LET s == Head(c)
             Of(x) == OfCode(x \o Tail(c), RunsAt(k))
         IN  /\ Of(s.fails) \subseteq OfCode(c, RunsAt(k))
             /\ \A one \in Of(s.child), other \in Of(s.parent) :
                  Both(one, other) \in OfCode(c, RunsAt(k))
<1> DEFINE R == RunsAt(k)
           t == Tail(c)
           rest == OfCode(t, R)
           s == Head(c)
<1>1. c \in Code(NamesAt(k)) BY DEF Good
<1>2. c \in Seq(Stmts(NamesAt(k))) /\ c # <<>> BY <1>1 DEF Code
<1>3. t \in Seq(Stmts(NamesAt(k)))
      /\ {s.fails, s.child, s.parent} \subseteq Seq(Plain(NamesAt(k)))
  BY GoodFork
<1>4. \A prog \in NamesAt(k) : R[prog] \in Results BY AllRuns
<1> HIDE DEF R, t
<1>5. OfCode(c, R) = OfStmt(s, rest, R)
  BY <1>2, <1>4, CodeRules DEF t
<1>6. \A x \in {s.fails, s.child, s.parent} : OfCode(x \o t, R) = OfBranch(x, rest, R)
  BY <1>3, <1>4, JoinResults
<1>7. OfStmt(s, rest, R)
        = OfBranch(s.fails, rest, R) \cup
          {Both(one, other) : one \in OfBranch(s.child, rest, R),
                              other \in OfBranch(s.parent, rest, R)}
  BY DEF OfStmt
<1> QED BY <1>5, <1>6, <1>7 DEF R, t

\* An exec: what the program may write that is started.
LEMMA ExecOutcomes ==
  ASSUME NEW k \in 0 .. 2, NEW c, NEW pr, NEW sg, Good(c, k, pr, sg),
         Head(c).op \in {"exec", "execve"}, sg # 0
  PROVE  OfCode(Text[Head(c).prog] \o Leave, RunsAt(k - 1)) = OfCode(c, RunsAt(k))
<1> DEFINE prog == Head(c).prog
<1>1. /\ prog \in NamesAt(k) /\ k - 1 \in 0 .. 2
      /\ Text[prog] \in Seq(Stmts(NamesAt(k - 1)))
  BY GoodExec
<1>2. OfCode(c, RunsAt(k)) = RunsAt(k)[prog] BY NextOutcomes
<1>3. RunsAt(k)[prog] = OfCode(Text[prog], RunsAt(k - 1)) BY <1>1, RunsFacts
<1>4. \A q \in NamesAt(k - 1) : RunsAt(k - 1)[q] \in Results BY <1>1, AllRuns
<1> HIDE DEF prog
<1>5. OfCode(Text[prog] \o Leave, RunsAt(k - 1)) = OfCode(Text[prog], RunsAt(k - 1))
  BY <1>1, <1>4, LeaveResults
<1> QED BY <1>2, <1>3, <1>5 DEF prog

-----------------------------------------------------------------------------
(* What has been written and what is still to come, together *)

\* An outcome of each process but the idle one.
Parts(f, table, cd, level) ==
  /\ f \in [Pcbs -> Counts]
  /\ \A p \in Pcbs :
       IF table[p] # ST_FREE /\ p # Idle THEN f[p] \in OfCode(cd[p], RunsAt(level[p]))
                                         ELSE f[p] = Nothing

\* g adds the outcomes f to start, one process after the other.
Sums(f, start, g) ==
  /\ g \in [0 .. N_PROCESSES -> [Chars -> Int]] /\ g[0] = start
  /\ \A p \in Pcbs : \A ch \in Chars : g[p + 1][ch] = g[p][ch] + f[p][ch]

Total(f, start, sum) == \E g : Sums(f, start, g) /\ g[N_PROCESSES] = sum

\* Outcomes that differ by what moves between processes, or is written: D.
Moves(D, f, start, f2, start2) ==
  /\ D \in [0 .. N_PROCESSES -> [Chars -> Int]]
  /\ \A ch \in Chars : start[ch] = start2[ch] + D[0][ch] /\ D[N_PROCESSES][ch] = 0
  /\ \A p \in Pcbs : \A ch \in Chars : f[p][ch] + D[p][ch] = f2[p][ch] + D[p + 1][ch]

LEMMA Shift ==
  ASSUME NEW f \in [Pcbs -> Counts], NEW f2 \in [Pcbs -> Counts],
         NEW start \in Counts, NEW start2 \in Counts, NEW g2, Sums(f2, start2, g2),
         NEW D, Moves(D, f, start, f2, start2)
  PROVE  Total(f, start, g2[N_PROCESSES])
<1> USE DEF Moves
<1> DEFINE N == N_PROCESSES
           g == [i \in 0 .. N |-> [ch \in Chars |-> g2[i][ch] + D[i][ch]]]
<1>1. N \in Nat /\ N >= 2 /\ \A p \in Pcbs : p \in 0 .. N /\ p + 1 \in 0 .. N
  BY KernelAssumption DEF Pcbs
<1>2. /\ g2 \in [0 .. N -> [Chars -> Int]] /\ g2[0] = start2
      /\ \A p \in Pcbs : \A ch \in Chars : g2[p + 1][ch] = g2[p][ch] + f2[p][ch]
  BY DEF Sums
<1> HIDE DEF N
<1>3. /\ \A i \in 0 .. N : \A ch \in Chars : g2[i][ch] \in Int /\ D[i][ch] \in Int
      /\ \A i \in 0 .. N : g[i] = [ch \in Chars |-> g2[i][ch] + D[i][ch]]
      /\ \A i \in 0 .. N : \A ch \in Chars : g[i][ch] = g2[i][ch] + D[i][ch]
  BY <1>2 DEF N
<1>4. g \in [0 .. N -> [Chars -> Int]] BY <1>3
<1> HIDE DEF g
<1>5. g[0] = start
  <2>1. 0 \in 0 .. N BY <1>1
  <2>2. g[0] = [ch \in Chars |-> start[ch]] BY <1>2, <1>3, <2>1
  <2> QED BY <2>2 DEF Counts
<1>6. g[N] = g2[N]
  <2>1. N \in 0 .. N BY <1>1
  <2>2. \A ch \in Chars : g2[N][ch] + D[N][ch] = g2[N][ch] BY <1>3, <2>1 DEF N
  <2>3. g[N] = [ch \in Chars |-> g2[N][ch]] BY <1>3, <2>1, <2>2
  <2>4. g2[N] = [ch \in Chars |-> g2[N][ch]] BY <1>2, <2>1
  <2> QED BY <2>3, <2>4
<1>7. ASSUME NEW p \in Pcbs, NEW ch \in Chars PROVE g[p + 1][ch] = g[p][ch] + f[p][ch]
  <2>1. p \in 0 .. N /\ p + 1 \in 0 .. N BY <1>1
  <2>2. g[p + 1][ch] = g2[p + 1][ch] + D[p + 1][ch] /\ g[p][ch] = g2[p][ch] + D[p][ch]
    BY <1>3, <2>1
  <2>3. /\ g2[p + 1][ch] \in Int /\ D[p + 1][ch] \in Int /\ g2[p][ch] \in Int
        /\ D[p][ch] \in Int
    BY <1>3, <2>1
  <2>4. f[p][ch] \in Nat /\ f2[p][ch] \in Nat BY DEF Counts
  <2>5. f[p][ch] + D[p][ch] = f2[p][ch] + D[p + 1][ch]
        /\ g2[p + 1][ch] = g2[p][ch] + f2[p][ch]
    BY <1>2
  <2> HIDE DEF Sums
  <2> QED BY <2>2, <2>3, <2>4, <2>5
<1>8. Sums(f, start, g) BY <1>4, <1>5, <1>7 DEF Sums, N
<1> QED BY <1>6, <1>8 DEF N, Total

-----------------------------------------------------------------------------
(* The invariant *)

Napping == EndlessCode({"write", "sleep"})

\* Every process has code for its priority and segment, from a depth that only
\* falls, and unless one of them never ends, what has been written and what
\* they may still write is together what the workload may write.
Placed(level) ==
  /\ level \in [Pcbs -> 0 .. 2]
  /\ \A p \in Pcbs : Alive(p) => Good(code[p], level[p], prio[p], seg[p])
NeverGone == \E p \in Pcbs \ {Idle} : Alive(p) /\ code[p] \in Napping
Promised(level) ==
  \A f, g : Parts(f, state, code, level) /\ Sums(f, printed, g) =>
    g[N_PROCESSES] \in Outcomes(first_main(spawn))
Explained(level) == Placed(level) /\ (NeverGone \/ Promised(level))

PTypes ==
  /\ code = [p \in Pcbs |-> code[p]]
  /\ g_next_pid \in 0 .. PID_MOD - 1
  /\ printed \in Counts
PInv == IInv /\ PTypes /\ (Running => \E level : Explained(level))

\* What p keeps while another process makes a step.
Keeps(p) ==
  /\ state'[p] # ST_FREE <=> state[p] # ST_FREE
  /\ prio'[p] = prio[p] /\ seg'[p] = seg[p] /\ code'[p] = code[p]

\* The current process goes on at depth k: what it wrote has come out of its
\* outcomes.
Remaining(k) ==
  IF state'[g_current] # ST_FREE THEN OfCode(code'[g_current], RunsAt(k)) ELSE {Nothing}
Pays(level, k) ==
  \A o2 \in Remaining(k) :
    /\ o2 \in Counts
    /\ \E o \in OfCode(code[g_current], RunsAt(level[g_current])) :
         /\ o \in Counts
         /\ \A ch \in Chars : printed[ch] + o[ch] = printed'[ch] + o2[ch]

LEMMA PromisedNext ==
  ASSUME NEW level \in [Pcbs -> 0 .. 2], Promised(level), NEW k \in 0 .. 2,
         NEW new, new = [level EXCEPT ![g_current] = k], g_current \in Pcbs, Alive(g_current), g_current # Idle,
         \A p \in Pcbs \ {g_current} : Keeps(p),
         printed \in Counts, printed' \in Counts, spawn' = spawn, Pays(level, k)
  PROVE  Promised(new)'
<1> DEFINE N == N_PROCESSES
<1>1. SUFFICES ASSUME NEW f2, NEW g2, Parts(f2, state', code', new),
                      Sums(f2, printed', g2)
               PROVE  g2[N] \in Outcomes(first_main(spawn))
  BY DEF Promised
<1>2. N \in Nat /\ N >= 2 /\ Pcbs \subseteq 0 .. N - 1 /\ Pcbs \subseteq Nat
      /\ \A p \in Pcbs : p < N
  BY KernelAssumption DEF Pcbs
<1>3. f2 \in [Pcbs -> Counts] BY <1>1 DEF Parts
<1>4. f2[g_current] \in Remaining(k)
  <2>1. new[g_current] = k OBVIOUS
  <2> QED BY <1>1, <2>1 DEF Parts, Remaining
<1>5. PICK o \in OfCode(code[g_current], RunsAt(level[g_current])) :
        /\ o \in Counts
        /\ \A ch \in Chars : printed[ch] + o[ch] = printed'[ch] + f2[g_current][ch]
  BY <1>4 DEF Pays
<1> DEFINE f == [f2 EXCEPT ![g_current] = o]
           D == [i \in 0 .. N |->
                   [ch \in Chars |-> IF i <= g_current THEN printed[ch] - printed'[ch] ELSE 0]]
<1>6. f \in [Pcbs -> Counts] /\ f[g_current] = o
      /\ \A p \in Pcbs \ {g_current} : f[p] = f2[p]
  BY <1>3, <1>5
<1>7. /\ \A ch \in Chars : printed[ch] \in Nat /\ printed'[ch] \in Nat
      /\ \A p \in Pcbs : \A ch \in Chars : f[p][ch] \in Nat /\ f2[p][ch] \in Nat
  <2> HIDE DEF f
  <2> QED BY <1>3, <1>6 DEF Counts
<1>8. Parts(f, state, code, level)
  <2>1. ASSUME NEW p \in Pcbs \ {g_current}
        PROVE  IF state[p] # ST_FREE /\ p # Idle
               THEN f[p] \in OfCode(code[p], RunsAt(level[p])) ELSE f[p] = Nothing
    <3>1. new[p] = level[p] OBVIOUS
    <3>2. Keeps(p) OBVIOUS
    <3> HIDE DEF f
    <3> QED BY <1>1, <1>6, <3>1, <3>2 DEF Parts, Keeps
  <2>2. f[g_current] \in OfCode(code[g_current], RunsAt(level[g_current]))
    BY <1>5, <1>6
  <2> HIDE DEF f
  <2> QED BY <1>6, <2>1, <2>2 DEF Parts, Alive
<1>9. D \in [0 .. N -> [Chars -> Int]]
  BY <1>7
<1>10. /\ \A i \in 0 .. N : \A ch \in Chars :
            D[i][ch] = IF i <= g_current THEN printed[ch] - printed'[ch] ELSE 0
  OBVIOUS
<1> HIDE DEF D, f
<1>11. \A ch \in Chars : printed[ch] = printed'[ch] + D[0][ch] /\ D[N][ch] = 0
  <2>1. 0 \in 0 .. N /\ N \in 0 .. N /\ 0 <= g_current /\ ~(N <= g_current) BY <1>2
  <2> QED BY <1>7, <1>10, <2>1
<1>12. ASSUME NEW p \in Pcbs, NEW ch \in Chars
       PROVE  f[p][ch] + D[p][ch] = f2[p][ch] + D[p + 1][ch]
  <2>1. p \in 0 .. N /\ p + 1 \in 0 .. N /\ p \in Nat /\ g_current \in Nat BY <1>2
  <2>2. CASE p = g_current
    <3>1. p <= g_current /\ ~(p + 1 <= g_current) BY <2>1, <2>2
    <3>2. D[p][ch] = printed[ch] - printed'[ch] /\ D[p + 1][ch] = 0
      BY <1>10, <2>1, <3>1
    <3>3. f[p][ch] \in Nat /\ f2[p][ch] \in Nat /\ printed[ch] \in Nat
          /\ printed'[ch] \in Nat
      BY <1>7
    <3>4. printed[ch] + f[p][ch] = printed'[ch] + f2[p][ch] BY <1>5, <1>6, <2>2
    <3> QED BY <3>2, <3>3, <3>4
  <2>3. CASE p # g_current
    <3>1. p <= g_current <=> p + 1 <= g_current BY <2>1, <2>3
    <3>2. D[p][ch] = D[p + 1][ch] BY <1>10, <2>1, <3>1
    <3> QED BY <1>6, <2>3, <3>2
  <2> QED BY <2>2, <2>3
<1>13. Moves(D, f, printed, f2, printed') BY <1>9, <1>11, <1>12 DEF Moves, N
<1>14. Total(f, printed, g2[N_PROCESSES])
  BY <1>1, <1>3, <1>6, <1>13, Shift
<1>15. PICK g : Sums(f, printed, g) /\ g[N_PROCESSES] = g2[N_PROCESSES]
  BY <1>14 DEF Total
<1> QED BY <1>8, <1>15 DEF Promised, N

\* A step of the current process that leaves the others alone.
LEMMA StepExplained ==
  ASSUME NEW level, Explained(level), NEW k \in 0 .. 2,
         g_current \in Pcbs, Alive(g_current),
         \A p \in Pcbs \ {g_current} : Keeps(p),
         state'[g_current] # ST_FREE =>
           Good(code'[g_current], k, prio'[g_current], seg'[g_current]),
         printed \in Counts, printed' \in Counts, spawn' = spawn,
         \/ /\ g_current = Idle
            /\ printed' = printed
         \/ /\ g_current # Idle /\ code[g_current] \in Napping
            /\ state'[g_current] # ST_FREE /\ code'[g_current] \in Napping
         \/ /\ g_current # Idle /\ code[g_current] \notin Napping
            /\ Pays(level, k)
  PROVE  \E new : Explained(new)'
<1>0. PICK new : new = [level EXCEPT ![g_current] = k] OBVIOUS
<1>1. level \in [Pcbs -> 0 .. 2]
      /\ \A p \in Pcbs : Alive(p) => Good(code[p], level[p], prio[p], seg[p])
  BY DEF Explained, Placed
<1>2. /\ new \in [Pcbs -> 0 .. 2] /\ new[g_current] = k
      /\ \A p \in Pcbs \ {g_current} : new[p] = level[p]
  BY <1>0, <1>1
<1>3. Placed(new)'
  <2>1. ASSUME NEW p \in Pcbs, state'[p] # ST_FREE
        PROVE  Good(code'[p], new[p], prio'[p], seg'[p])
    <3>1. CASE p = g_current BY <1>2, <2>1, <3>1
    <3>2. CASE p # g_current
      <4>1. Keeps(p) /\ new[p] = level[p] BY <1>2, <3>2
      <4>2. Good(code[p], level[p], prio[p], seg[p])
        BY <1>1, <2>1, <4>1 DEF Keeps, Alive
      <4> QED BY <4>1, <4>2 DEF Keeps
    <3> QED BY <3>1, <3>2
  <2> QED BY <1>2, <2>1 DEF Placed, Alive
<1>4. CASE NeverGone
  <2>1. PICK p \in Pcbs \ {Idle} : Alive(p) /\ code[p] \in Napping
    BY <1>4 DEF NeverGone
  <2>2. state'[p] # ST_FREE /\ code'[p] \in Napping
    <3>1. CASE p = g_current BY <2>1, <3>1
    <3>2. CASE p # g_current BY <2>1, <3>2 DEF Keeps, Alive
    <3> QED BY <3>1, <3>2
  <2>3. NeverGone' BY <2>1, <2>2 DEF NeverGone, Alive, Napping
  <2> QED BY <1>3, <2>3 DEF Explained
<1>5. CASE g_current # Idle /\ Promised(level)
  <2>1. CASE code[g_current] \in Napping
    <3>1. NeverGone BY <1>5, <2>1 DEF NeverGone
    <3> QED BY <1>4, <3>1
  <2>2. CASE code[g_current] \notin Napping
    <3>1. Promised(new)' BY <1>0, <1>1, <1>5, <2>2, PromisedNext
    <3> QED BY <1>3, <3>1 DEF Explained
  <2> QED BY <2>1, <2>2
<1>6. CASE g_current = Idle /\ Promised(level)
  <2>1. printed' = printed BY <1>6
  <2>2. ASSUME NEW f, NEW g, Parts(f, state', code', new), Sums(f, printed', g)
        PROVE  g[N_PROCESSES] \in Outcomes(first_main(spawn))
    <3>1. ASSUME NEW p \in Pcbs
          PROVE  IF state[p] # ST_FREE /\ p # Idle
                 THEN f[p] \in OfCode(code[p], RunsAt(level[p])) ELSE f[p] = Nothing
      <4>1. CASE p = Idle BY <2>2, <4>1 DEF Parts
      <4>2. CASE p # Idle
        <5>1. Keeps(p) /\ new[p] = level[p] BY <1>2, <1>6, <4>2
        <5> QED BY <2>2, <5>1 DEF Parts, Keeps
      <4> QED BY <4>1, <4>2
    <3>2. Parts(f, state, code, level) BY <2>2, <3>1 DEF Parts
    <3> QED BY <1>6, <2>1, <2>2, <3>2 DEF Promised
  <2>3. Promised(new)' BY <2>2 DEF Promised
  <2> QED BY <1>3, <2>3 DEF Explained
<1>7. NeverGone \/ Promised(level) BY DEF Explained
<1> QED BY <1>4, <1>5, <1>6, <1>7

\* An interrupt: every process keeps what it has.
LEMMA StillExplained ==
  ASSUME NEW level, Explained(level), \A p \in Pcbs : Keeps(p),
         printed' = printed, spawn' = spawn
  PROVE  Explained(level)'
<1>1. Placed(level)' BY DEF Explained, Placed, Keeps, Alive
<1>2. CASE NeverGone
  <2>1. PICK p \in Pcbs \ {Idle} : Alive(p) /\ code[p] \in Napping
    BY <1>2 DEF NeverGone
  <2>2. state'[p] # ST_FREE /\ code'[p] \in Napping BY <2>1 DEF Keeps, Alive
  <2>3. NeverGone' BY <2>1, <2>2 DEF NeverGone, Alive, Napping
  <2> QED BY <1>1, <2>3 DEF Explained
<1>3. CASE Promised(level)
  <2>1. ASSUME NEW f, NEW g, Parts(f, state', code', level), Sums(f, printed', g)
        PROVE  g[N_PROCESSES] \in Outcomes(first_main(spawn))
    <3>1. Parts(f, state, code, level) BY <2>1 DEF Parts, Keeps
    <3> QED BY <1>3, <2>1, <3>1 DEF Promised
  <2>2. Promised(level)' BY <2>1 DEF Promised
  <2> QED BY <1>1, <2>2 DEF Explained
<1> QED BY <1>2, <1>3 DEF Explained

-----------------------------------------------------------------------------
(* The steps *)

\* What PInv says of the current process and of the PCBs.
LEMMA Current ==
  ASSUME PInv, Running
  PROVE  /\ g_current \in Pcbs /\ Alive(g_current)
         /\ Idle \in Pcbs /\ Alive(Idle)
         /\ prio[g_current] = PRI_MINIMUM <=> g_current = Idle
         /\ \A p \in Pcbs : Holds(g_free_pcbs, p) <=> ~Alive(p)
         /\ g_free_pcbs \in Seq(Pcbs) /\ Distinct(g_free_pcbs)
         /\ seg \in [Pcbs -> 0 .. N_SEGMENTS] /\ g_freemem \subseteq Segments
         /\ prio \in [Pcbs -> {PRI_NORMAL, PRI_MINIMUM}]
         /\ printed \in Counts
<1>1. IInv /\ printed \in Counts BY DEF PInv, PTypes
<1>2. /\ g_current \in Pcbs /\ Idle \in Pcbs
      /\ Matches(g_free_pcbs, state, ST_FREE) /\ OtherTypes
      /\ state[Idle] \in {ST_READY, ST_RUNNING}
      /\ \A p \in Pcbs : state[p] = ST_RUNNING <=> p = g_current
      /\ Roles(state, prio, seg, g_free_stacks)
  BY <1>1, InvFacts DEF Queues
<1>3. Alive(g_current) /\ Alive(Idle)
  BY <1>2 DEF Alive, ST_FREE, ST_READY, ST_RUNNING
<1>4. prio[g_current] = PRI_MINIMUM <=> g_current = Idle
  BY <1>2 DEF Roles, PRI_MINIMUM, PRI_NORMAL
<1> QED BY <1>1, <1>2, <1>3, <1>4 DEF Matches, OtherTypes, Roles, Alive

LEMMA FreeNext ==
  ASSUME IInv', Running'
  PROVE  \A p \in Pcbs : Holds(g_free_pcbs', p) <=> state'[p] = ST_FREE
BY DEF IInv, OneQueuePerPcb

\* Who is alive stays alive, and the others free, if no PCB is taken or freed.
LEMMA SameAlive ==
  ASSUME PInv, Running, IInv', Running', g_free_pcbs' = g_free_pcbs
  PROVE  \A p \in Pcbs : state'[p] # ST_FREE <=> state[p] # ST_FREE
BY Current, FreeNext DEF Alive

LEMMA CodeNext ==
  ASSUME PInv, NEW q \in Pcbs, NEW c, code' = [code EXCEPT ![q] = c]
  PROVE  /\ code' = [p \in Pcbs |-> code'[p]]
         /\ code'[q] = c /\ \A p \in Pcbs : p # q => code'[p] = code[p]
BY DEF PInv, PTypes

\* What the current process has to execute.
LEMMA CurrentCode ==
  ASSUME PInv, Running, NEW level, Explained(level)
  PROVE  /\ level[g_current] \in 0 .. 2
         /\ Good(code[g_current], level[g_current], prio[g_current], seg[g_current])
         /\ code[g_current] # <<>> /\ Stmt \in Stmts(NamesAt(level[g_current]))
         /\ g_current = Idle => code[g_current] \in EndlessCode({"write"})
         /\ code[g_current] \in Napping => Stmt.op \in {"write", "sleep"}
<1> DEFINE c == code[g_current]
           k == level[g_current]
<1>1. k \in 0 .. 2 /\ Good(c, k, prio[g_current], seg[g_current])
  BY Current DEF Explained, Placed
<1>2. g_current = Idle => c \in EndlessCode({"write"})
  BY <1>1, Current DEF Good
<1>3. c \in Napping => Head(c).op \in {"write", "sleep"}
  BY EndlessStep DEF Napping
<1> QED BY <1>1, <1>2, <1>3, GoodFacts DEF Stmt

\* A statement that leaves the process what follows it.
LEMMA OnwardExplained ==
  ASSUME PInv, Running, NEW level, Explained(level),
         Stmt.op \in {"write", "read", "sleep"},
         code' = [code EXCEPT ![g_current] = Unrolled(Rest)],
         \A p \in Pcbs : state'[p] # ST_FREE <=> state[p] # ST_FREE,
         prio' = prio, seg' = seg, spawn' = spawn,
         printed' = IF Stmt.op # "write" \/ Endless(g_current) THEN printed
                    ELSE [printed EXCEPT ![Stmt.ch] = @ + 1]
  PROVE  \E new : Explained(new)'
<1> DEFINE c == code[g_current]
           k == level[g_current]
           t == Unrolled(Tail(c))
<1>1. /\ g_current \in Pcbs /\ Alive(g_current) /\ printed \in Counts
      /\ k \in 0 .. 2 /\ Good(c, k, prio[g_current], seg[g_current])
      /\ c # <<>> /\ Stmt \in Stmts(NamesAt(k))
      /\ g_current = Idle => c \in EndlessCode({"write"})
  BY Current, CurrentCode
<1>2. code'[g_current] = t /\ \A p \in Pcbs : p # g_current => code'[p] = code[p]
  BY <1>1, CodeNext DEF Rest
<1>3. Good(t, k, prio[g_current], seg[g_current])
      /\ (c \in Seq(Finite(NamesAt(k))) => t = Tail(c))
  <2>1. Head(c).op \notin {"exit", "fork"} BY DEF Stmt
  <2> QED BY <1>1, <2>1, GoodTail
<1>4. \A p \in Pcbs \ {g_current} : Keeps(p) BY <1>2 DEF Keeps
<1>5. state'[g_current] # ST_FREE BY <1>1 DEF Alive
<1>6. Stmt.op = "write" => Stmt.ch \in Chars
  <2>1. Stmt.op = "write" => Stmt \in Plain(NamesAt(k)) BY <1>1, StmtFacts
  <2> QED BY <2>1, PlainFacts
<1>7. printed' \in Counts BY <1>1, <1>6 DEF Counts
<1>8. ASSUME NEW ops, c \in EndlessCode(ops) PROVE Endless(g_current)
  <2>1. PICK i \in 2 .. Len(c) - 1 : c[i].op = "forever" BY <1>8 DEF EndlessCode
  <2>2. c \in Seq(Stmts(ProgramNames)) BY <1>8 DEF EndlessCode, Code
  <2>3. i \in DOMAIN c BY <2>1, <2>2, LenProperties
  <2> QED BY <2>1, <2>3 DEF Endless
<1>9. CASE g_current = Idle
  <2>1. printed' = printed BY <1>1, <1>8, <1>9
  <2> QED BY <1>1, <1>2, <1>3, <1>4, <1>7, <1>9, <2>1, StepExplained
<1>10. CASE g_current # Idle /\ c \in Napping
  <2>1. t \in Napping BY <1>10, EndlessStep DEF Napping
  <2> QED BY <1>1, <1>2, <1>3, <1>4, <1>5, <1>7, <1>10, <2>1, StepExplained
<1>11. CASE g_current # Idle /\ c \notin Napping
  <2> DEFINE R == RunsAt(k)
             rest == OfCode(Tail(c), R)
  <2>1. c \in Seq(Finite(NamesAt(k))) BY <1>1, <1>11 DEF Good, Napping
  <2>2. t = Tail(c) BY <1>3, <2>1
  <2>3. ~Endless(g_current)
    <3>1. \A i \in DOMAIN c : c[i] \in Finite(NamesAt(k)) BY <2>1, ElementOfSeq
    <3>2. \A s \in Finite(NamesAt(k)) : s.op # "forever" BY DEF Finite, Plain, Forking
    <3> QED BY <3>1, <3>2 DEF Endless
  <2>4. /\ rest \in Results
        /\ Head(c).op \in {"read", "sleep"} => OfCode(c, R) = rest
        /\ Head(c).op = "write" =>
             OfCode(c, R) = {[o EXCEPT ![Head(c).ch] = @ + 1] : o \in rest}
    BY <1>1, NextOutcomes
  <2>5. Remaining(k) = rest BY <1>2, <1>5, <2>2 DEF Remaining
  <2> HIDE DEF rest
  <2>6. ASSUME NEW o2 \in rest
        PROVE  /\ o2 \in Counts
               /\ \E o \in OfCode(c, R) :
                    /\ o \in Counts
                    /\ \A ch \in Chars : printed[ch] + o[ch] = printed'[ch] + o2[ch]
    <3>1. o2 \in Counts BY <2>4, <2>6 DEF Results
    <3>2. CASE Stmt.op = "write"
      <4> DEFINE o == [o2 EXCEPT ![Stmt.ch] = @ + 1]
      <4>1. o \in OfCode(c, R) BY <2>4, <2>6, <3>2 DEF Stmt
      <4>2. o \in Counts BY <1>6, <3>1, <3>2 DEF Counts
      <4>3. printed' = [printed EXCEPT ![Stmt.ch] = @ + 1] BY <2>3, <3>2
      <4>4. ASSUME NEW ch \in Chars PROVE printed[ch] + o[ch] = printed'[ch] + o2[ch]
        <5>1. printed[ch] \in Nat /\ o2[ch] \in Nat BY <1>1, <3>1 DEF Counts
        <5>2. /\ o[ch] = IF ch = Stmt.ch THEN o2[ch] + 1 ELSE o2[ch]
              /\ printed'[ch] = IF ch = Stmt.ch THEN printed[ch] + 1 ELSE printed[ch]
          BY <1>1, <1>6, <3>1, <3>2, <4>3 DEF Counts
        <5> QED BY <5>1, <5>2
      <4> QED BY <3>1, <4>1, <4>2, <4>4
    <3>3. CASE Stmt.op # "write"
      <4>1. o2 \in OfCode(c, R) BY <2>4, <2>6, <3>3 DEF Stmt
      <4>2. printed' = printed BY <3>3
      <4> QED BY <3>1, <4>1, <4>2
    <3> QED BY <3>2, <3>3
  <2>7. Pays(level, k) BY <2>5, <2>6 DEF Pays
  <2> QED BY <1>1, <1>2, <1>3, <1>4, <1>5, <1>7, <1>11, <2>7, StepExplained
<1> QED BY <1>9, <1>10, <1>11

\* exit(): the PCB is given up, and nothing more is written.
LEMMA ExitExplained ==
  ASSUME PInv, Running, IInv', Running', NEW level, Explained(level), DoExit
  PROVE  \E new : Explained(new)'
<1> DEFINE c == code[g_current]
           k == level[g_current]
<1>1. /\ g_current \in Pcbs /\ Alive(g_current) /\ printed \in Counts
      /\ prio[g_current] = PRI_MINIMUM <=> g_current = Idle
      /\ g_free_pcbs \in Seq(Pcbs)
      /\ \A p \in Pcbs : Holds(g_free_pcbs, p) <=> ~Alive(p)
  BY Current
<1>2. /\ k \in 0 .. 2 /\ Good(c, k, prio[g_current], seg[g_current])
      /\ (c \in Napping => Stmt.op \in {"write", "sleep"})
  BY CurrentCode
<1>3. /\ Stmt.op \in {"exit", "bogus"} /\ printed' = printed /\ spawn' = spawn
      /\ code' = [code EXCEPT ![g_current] = <<>>]
      /\ prio' = prio /\ seg' = seg /\ g_current # Idle
  BY <1>1 DEF DoExit, At, NothingPrinted, ExitUser, ExitKernel, UserCall, MayCall
<1>4. g_free_pcbs' = Append(g_free_pcbs, g_current)
  <2>1. IInv BY DEF PInv
  <2>2. g_free_qnodes \in Nat /\ g_free_qnodes >= 2
    BY <2>1, InvFacts, NodesLeft
  <2>3. Enque(g_free_pcbs, g_current, g_free_qnodes) = Append(g_free_pcbs, g_current)
        /\ Enque(g_free_pcbs, g_current, Left(g_free_qnodes))
             = Append(g_free_pcbs, g_current)
    BY <2>2 DEF Enque, Left
  <2> QED BY <2>3 DEF DoExit, ExitUser, ExitKernel
<1>5. \A p \in Pcbs : state'[p] = ST_FREE <=> state[p] = ST_FREE \/ p = g_current
  <2>1. \A p \in Pcbs : Holds(g_free_pcbs', p) <=> Holds(g_free_pcbs, p) \/ p = g_current
    BY <1>1, <1>4, AppendHolds
  <2> QED BY <1>1, <2>1, FreeNext DEF Alive
<1>6. \A p \in Pcbs : p # g_current => code'[p] = code[p] BY <1>1, <1>3, CodeNext
<1>7. \A p \in Pcbs \ {g_current} : Keeps(p) BY <1>3, <1>5, <1>6 DEF Keeps
<1>8. c \notin Napping
  <2>1. Stmt.op \notin {"write", "sleep"} BY <1>3
  <2> QED BY <1>2, <2>1
<1>9. Pays(level, k)
  <2>1. OfCode(c, RunsAt(k)) = {Nothing} BY <1>2, <1>3, NextOutcomes DEF Stmt
  <2>2. Remaining(k) = {Nothing} BY <1>1, <1>5 DEF Remaining
  <2>3. Nothing \in Counts BY DEF Nothing, Counts
  <2> QED BY <1>3, <2>1, <2>2, <2>3 DEF Pays
<1>10. state'[g_current] = ST_FREE BY <1>1, <1>5
<1> QED BY <1>1, <1>2, <1>3, <1>7, <1>8, <1>9, <1>10, StepExplained

\* A statement that replaces what the process has to execute.
LEMMA TurnExplained ==
  ASSUME PInv, Running, NEW level, Explained(level), NEW k \in 0 .. 2, NEW c2,
         Stmt.op \notin {"write", "sleep"}, g_current # Idle,
         code' = [code EXCEPT ![g_current] = c2],
         \A p \in Pcbs : state'[p] # ST_FREE <=> state[p] # ST_FREE,
         \A p \in Pcbs \ {g_current} : seg'[p] = seg[p],
         prio' = prio, spawn' = spawn, printed' = printed,
         Good(c2, k, prio[g_current], seg'[g_current]),
         OfCode(c2, RunsAt(k)) \subseteq OfCode(code[g_current], RunsAt(level[g_current]))
  PROVE  \E new : Explained(new)'
<1> DEFINE c == code[g_current]
<1>1. g_current \in Pcbs /\ Alive(g_current) /\ printed \in Counts
  BY Current
<1>2. /\ level[g_current] \in 0 .. 2
      /\ Good(c, level[g_current], prio[g_current], seg[g_current])
      /\ c \notin Napping
  BY CurrentCode
<1>3. code'[g_current] = c2 /\ \A p \in Pcbs : p # g_current => code'[p] = code[p]
  BY <1>1, CodeNext
<1>4. \A p \in Pcbs \ {g_current} : Keeps(p) BY <1>3 DEF Keeps
<1>5. state'[g_current] # ST_FREE BY <1>1 DEF Alive
<1>6. Pays(level, k)
  <2>1. Remaining(k) = OfCode(c2, RunsAt(k)) BY <1>3, <1>5 DEF Remaining
  <2>2. OfCode(c, RunsAt(level[g_current])) \in Results BY <1>2, NextOutcomes
  <2>3. \A o \in Remaining(k) : o \in Counts /\ o \in OfCode(c, RunsAt(level[g_current]))
    BY <2>1, <2>2 DEF Results
  <2> QED BY <2>3 DEF Pays
<1> QED BY <1>1, <1>2, <1>3, <1>4, <1>5, <1>6, StepExplained

LEMMA ForkFailsExplained ==
  ASSUME PInv, Running, NEW level, Explained(level), DoForkFails
  PROVE  \E new : Explained(new)'
<1> DEFINE c == code[g_current]
           k == level[g_current]
           x == Stmt.fails \o Rest
<1>1. k \in 0 .. 2 /\ Good(c, k, prio[g_current], seg[g_current])
  BY CurrentCode
<1>2. /\ Stmt.op = "fork" /\ printed' = printed /\ spawn' = spawn
      /\ prio' = prio /\ seg' = seg /\ state' = state
      /\ code' = [code EXCEPT ![g_current] = Unrolled(After(-1))]
  BY DEF DoForkFails, At, NothingPrinted, GoesOnWith, vars
<1>3. Good(x, k, prio[g_current], seg[g_current]) /\ Unrolled(x) = x
  BY <1>1, <1>2, GoodFork DEF Stmt, Rest
<1>4. After(-1) = x
  <2>1. -1 < 0 OBVIOUS
  <2> QED BY <2>1 DEF After
<1>5. g_current # Idle
  <2>1. prio[g_current] # PRI_MINIMUM BY <1>1, <1>2, GoodFacts DEF Stmt
  <2> QED BY <2>1, Current
<1>6. OfCode(x, RunsAt(k)) \subseteq OfCode(c, RunsAt(k))
  BY <1>1, <1>2, ForkOutcomes DEF Stmt, Rest
<1>7. Stmt.op \notin {"write", "sleep"} BY <1>2
<1> HIDE DEF x
<1>8. code' = [code EXCEPT ![g_current] = x] BY <1>2, <1>3, <1>4
<1> QED BY <1>1, <1>2, <1>3, <1>5, <1>6, <1>7, <1>8, TurnExplained

LEMMA ExecExplained ==
  ASSUME PInv, Running, IInv', Running', NEW level, Explained(level),
         DoExec \/ DoExecve
  PROVE  \E new : Explained(new)'
<1> DEFINE c == code[g_current]
           k == level[g_current]
           x == Text[Stmt.prog] \o Leave
<1>1. k \in 0 .. 2 /\ Good(c, k, prio[g_current], seg[g_current])
  BY CurrentCode
<1>2. /\ g_current \in Pcbs /\ seg \in [Pcbs -> 0 .. N_SEGMENTS]
      /\ g_freemem \subseteq Segments
      /\ prio[g_current] = PRI_MINIMUM <=> g_current = Idle
  BY Current
<1>3. /\ Stmt.op \in {"exec", "execve"} /\ Exec
      /\ code' = [code EXCEPT ![g_current] = Unrolled(x)]
      /\ printed' = printed /\ spawn' = spawn
  BY DEF DoExec, DoExecve, At, GoesOnWith, WithReturn, _start, NothingPrinted
<1>4. /\ seg[g_current] # 0 /\ prio[g_current] # PRI_MINIMUM
      /\ prio' = prio /\ g_free_pcbs' = g_free_pcbs
      /\ \E s \in g_freemem : seg' = [seg EXCEPT ![g_current] = s]
  BY <1>3 DEF Exec, UserCall, MayCall, queues
<1>5. /\ seg'[g_current] # 0
      /\ \A p \in Pcbs \ {g_current} : seg'[p] = seg[p]
  <2>1. 0 \notin Segments BY DEF Segments
  <2> QED BY <1>2, <1>4, <2>1
<1>6. /\ k - 1 \in 0 .. 2 /\ Unrolled(x) = x
      /\ Good(x, k - 1, prio[g_current], seg'[g_current])
  <2>1. LET prog == Head(c).prog
        IN  /\ k - 1 \in 0 .. 2 /\ Unrolled(Text[prog] \o Leave) = Text[prog] \o Leave
            /\ \A new : new # 0 => Good(Text[prog] \o Leave, k - 1, prio[g_current], new)
    BY <1>1, <1>3, <1>4, GoodExec DEF Stmt
  <2> QED BY <1>5, <2>1 DEF Stmt
<1>7. OfCode(x, RunsAt(k - 1)) = OfCode(c, RunsAt(k))
  BY <1>1, <1>3, <1>4, ExecOutcomes DEF Stmt
<1>8. \A p \in Pcbs : state'[p] # ST_FREE <=> state[p] # ST_FREE
  BY <1>4, SameAlive
<1>9. Stmt.op \notin {"write", "sleep"} BY <1>3
<1> HIDE DEF x
<1>10. code' = [code EXCEPT ![g_current] = x] BY <1>3, <1>6
<1> QED
  BY <1>2, <1>3, <1>4, <1>5, <1>6, <1>7, <1>8, <1>9, <1>10, TurnExplained

-----------------------------------------------------------------------------
(* A fork that returns twice *)

\* What the parent and the child may write was among what the parent might.
LEMMA ForkPromised ==
  ASSUME NEW level \in [Pcbs -> 0 .. 2], Promised(level), NEW k \in 0 .. 2,
         NEW child \in Pcbs, child # g_current, child # Idle, ~Alive(child),
         g_current \in Pcbs, g_current # Idle, Alive(g_current), level[g_current] = k,
         NEW new, new = [level EXCEPT ![child] = k],
         \A p \in Pcbs \ {g_current, child} : Keeps(p),
         state'[g_current] # ST_FREE, state'[child] # ST_FREE,
         printed \in Counts, printed' = printed, spawn' = spawn,
         \A one \in OfCode(code'[child], RunsAt(k)),
            other \in OfCode(code'[g_current], RunsAt(k)) :
              Both(one, other) \in OfCode(code[g_current], RunsAt(k))
  PROVE  Promised(new)'
<1> DEFINE N == N_PROCESSES
<1>1. SUFFICES ASSUME NEW f2, NEW g2, Parts(f2, state', code', new),
                      Sums(f2, printed, g2)
               PROVE  g2[N] \in Outcomes(first_main(spawn))
  BY DEF Promised
<1>2. N \in Nat /\ N >= 2 /\ Pcbs \subseteq 0 .. N - 1 /\ Pcbs \subseteq Nat
      /\ \A p \in Pcbs : p < N
  BY KernelAssumption DEF Pcbs
<1>3. /\ f2 \in [Pcbs -> Counts] /\ f2[child] \in Counts /\ f2[g_current] \in Counts
      /\ new[child] = k /\ new[g_current] = k
  BY <1>1 DEF Parts
<1>4. /\ f2[child] \in OfCode(code'[child], RunsAt(k))
      /\ f2[g_current] \in OfCode(code'[g_current], RunsAt(k))
  BY <1>1, <1>3 DEF Parts
<1> DEFINE w == f2[child]
           o == Both(w, f2[g_current])
           f == [f2 EXCEPT ![g_current] = o, ![child] = Nothing]
           Up(i) == i > g_current
           Down(i) == i > child
           Gap(i, ch) == (IF Up(i) THEN w[ch] ELSE 0) - (IF Down(i) THEN w[ch] ELSE 0)
           D == [i \in 0 .. N |-> [ch \in Chars |-> Gap(i, ch)]]
<1>5. o \in OfCode(code[g_current], RunsAt(k)) BY <1>4
<1>6. /\ o \in Counts /\ Nothing \in Counts
      /\ \A ch \in Chars : o[ch] = w[ch] + f2[g_current][ch] /\ Nothing[ch] = 0
  BY <1>3, BothFacts
<1> HIDE DEF o
<1>7. /\ f \in [Pcbs -> Counts] /\ f[g_current] = o /\ f[child] = Nothing
      /\ \A p \in Pcbs \ {g_current, child} : f[p] = f2[p]
  BY <1>3, <1>6
<1> HIDE DEF f
<1>8. \A ch \in Chars : w[ch] \in Nat /\ f2[g_current][ch] \in Nat /\ printed[ch] \in Nat
  BY <1>3 DEF Counts
<1>9. Parts(f, state, code, level)
  <2>1. ASSUME NEW p \in Pcbs \ {g_current, child}
        PROVE  IF state[p] # ST_FREE /\ p # Idle
               THEN f[p] \in OfCode(code[p], RunsAt(level[p])) ELSE f[p] = Nothing
    <3>1. new[p] = level[p] OBVIOUS
    <3>2. Keeps(p) OBVIOUS
    <3> QED BY <1>1, <1>7, <3>1, <3>2 DEF Parts, Keeps
  <2>2. f[g_current] \in OfCode(code[g_current], RunsAt(level[g_current]))
    BY <1>5, <1>7
  <2>3. state[child] = ST_FREE /\ f[child] = Nothing BY <1>7 DEF Alive
  <2> QED BY <1>7, <2>1, <2>2, <2>3 DEF Parts, Alive
<1>10. \A i \in 0 .. N : \A ch \in Chars : Gap(i, ch) \in Int
  <2> SUFFICES ASSUME NEW i \in 0 .. N, NEW ch \in Chars PROVE Gap(i, ch) \in Int
    OBVIOUS
  <2>1. w[ch] \in Nat BY <1>8
  <2> HIDE DEF Up, Down, w
  <2> QED BY <2>1
<1>11. /\ D \in [0 .. N -> [Chars -> Int]]
       /\ \A i \in 0 .. N : \A ch \in Chars : D[i][ch] = Gap(i, ch)
  <2> HIDE DEF Gap
  <2> QED BY <1>10
<1> HIDE DEF D
<1>12. ASSUME NEW ch \in Chars PROVE printed[ch] = printed[ch] + D[0][ch] /\ D[N][ch] = 0
  <2>1. ~Up(0) /\ ~Down(0) /\ Up(N) /\ Down(N) /\ 0 \in 0 .. N /\ N \in 0 .. N BY <1>2
  <2>2. w[ch] \in Nat /\ printed[ch] \in Nat BY <1>8
  <2> HIDE DEF Up, Down, w
  <2>3. Gap(0, ch) = 0 /\ Gap(N, ch) = 0 BY <2>1, <2>2
  <2> QED BY <1>11, <2>1, <2>2, <2>3
<1>13. ASSUME NEW p \in Pcbs, NEW ch \in Chars
       PROVE  f[p][ch] + D[p][ch] = f2[p][ch] + D[p + 1][ch]
  <2>1. p \in 0 .. N /\ p + 1 \in 0 .. N /\ p \in Nat /\ g_current \in Nat /\ child \in Nat
    BY <1>2
  <2>2. D[p][ch] = Gap(p, ch) /\ D[p + 1][ch] = Gap(p + 1, ch) BY <1>11, <2>1
  <2>3. /\ Up(p + 1) <=> Up(p) \/ p = g_current
        /\ Down(p + 1) <=> Down(p) \/ p = child
        /\ p = g_current => ~Up(p)
        /\ p = child => ~Down(p)
    BY <2>1
  <2>4. w[ch] \in Nat /\ f2[g_current][ch] \in Nat BY <1>8
  <2>5. CASE p = g_current
    <3>1. f[p][ch] = w[ch] + f2[p][ch] BY <1>6, <1>7, <2>5
    <3>2. ~Up(p) /\ Up(p + 1) /\ (Down(p + 1) <=> Down(p)) BY <2>3, <2>5
    <3> HIDE DEF Up, Down, w
    <3>3. Gap(p + 1, ch) = Gap(p, ch) + w[ch] /\ Gap(p, ch) \in Int BY <2>4, <3>2
    <3> HIDE DEF Gap
    <3> QED BY <2>2, <2>4, <2>5, <3>1, <3>3
  <2>6. CASE p = child
    <3>1. f[p][ch] = 0 /\ f2[p][ch] = w[ch] BY <1>6, <1>7, <2>6
    <3>2. ~Down(p) /\ Down(p + 1) /\ (Up(p + 1) <=> Up(p)) BY <2>3, <2>6
    <3> HIDE DEF Up, Down, w
    <3>3. Gap(p, ch) = Gap(p + 1, ch) + w[ch] /\ Gap(p + 1, ch) \in Int BY <2>4, <3>2
    <3> HIDE DEF Gap
    <3> QED BY <2>2, <2>4, <3>1, <3>3
  <2>7. CASE p # g_current /\ p # child
    <3>1. f[p] = f2[p] BY <1>7, <2>7
    <3>2. (Up(p + 1) <=> Up(p)) /\ (Down(p + 1) <=> Down(p)) BY <2>3, <2>7
    <3> HIDE DEF Up, Down
    <3>3. Gap(p, ch) = Gap(p + 1, ch) BY <3>2
    <3> HIDE DEF Gap
    <3> QED BY <2>2, <3>1, <3>3
  <2> QED BY <2>5, <2>6, <2>7
<1>14. Moves(D, f, printed, f2, printed) BY <1>11, <1>12, <1>13 DEF Moves, N
<1>15. Total(f, printed, g2[N_PROCESSES])
  BY <1>1, <1>3, <1>7, <1>14, Shift
<1>16. PICK g : Sums(f, printed, g) /\ g[N_PROCESSES] = g2[N_PROCESSES]
  BY <1>15 DEF Total
<1> QED BY <1>9, <1>16 DEF Promised, N

LEMMA ForkExplained ==
  ASSUME PInv, Running, IInv', Running', NEW level, Explained(level), DoFork,
         g_next_pid # 0
  PROVE  \E new : Explained(new)'
<1> DEFINE c == code[g_current]
           k == level[g_current]
           child == Head(g_free_pcbs)
           x == Stmt.parent \o Rest
           y == Stmt.child \o Rest
<1>1. /\ g_current \in Pcbs /\ Alive(g_current) /\ printed \in Counts
      /\ Idle \in Pcbs /\ Alive(Idle)
      /\ prio[g_current] = PRI_MINIMUM <=> g_current = Idle
      /\ g_free_pcbs \in Seq(Pcbs) /\ Distinct(g_free_pcbs)
      /\ \A p \in Pcbs : Holds(g_free_pcbs, p) <=> ~Alive(p)
      /\ seg \in [Pcbs -> 0 .. N_SEGMENTS] /\ g_freemem \subseteq Segments
      /\ prio \in [Pcbs -> {PRI_NORMAL, PRI_MINIMUM}]
  BY Current
<1>2. /\ k \in 0 .. 2 /\ Good(c, k, prio[g_current], seg[g_current])
      /\ (c \in Napping => Stmt.op \in {"write", "sleep"})
      /\ level \in [Pcbs -> 0 .. 2]
      /\ \A p \in Pcbs : Alive(p) => Good(code[p], level[p], prio[p], seg[p])
  BY CurrentCode DEF Explained, Placed
<1>3. /\ Stmt.op = "fork" /\ g_current # Idle /\ printed' = printed /\ spawn' = spawn
      /\ g_free_pcbs # <<>> /\ g_free_pcbs' = Tail(g_free_pcbs)
      /\ prio' = [prio EXCEPT ![child] = prio[g_current]]
      /\ \E s \in g_freemem : seg' = [seg EXCEPT ![child] = s]
  BY <1>1 DEF DoFork, At, Fork, MayCall
<1>4. /\ child \in Pcbs /\ ~Alive(child) /\ child # g_current /\ child # Idle
      /\ \A p \in Pcbs : state'[p] = ST_FREE <=> state[p] = ST_FREE /\ p # child
  <2>1. /\ child \in Pcbs /\ Holds(g_free_pcbs, child)
        /\ \A p \in Pcbs : Holds(g_free_pcbs', p) <=> Holds(g_free_pcbs, p) /\ p # child
    BY <1>1, <1>3, TailHolds
  <2> HIDE DEF child
  <2>2. ~Alive(child) /\ child # g_current /\ child # Idle BY <1>1, <2>1
  <2>3. \A p \in Pcbs : state'[p] = ST_FREE <=> state[p] = ST_FREE /\ p # child
    BY <1>1, <2>1, FreeNext DEF Alive
  <2> QED BY <2>1, <2>2, <2>3
<1>5. After(g_next_pid) = x /\ After(ChildEax(g_next_pid)) = y
  <2>1. g_next_pid \in Nat /\ g_next_pid > 0 BY ProgramsAssumption DEF PInv, PTypes
  <2>2. ~(g_next_pid < 0) /\ ~(g_next_pid = 0) BY <2>1
  <2>3. ~(0 < 0) OBVIOUS
  <2> QED BY <2>2, <2>3 DEF After, ChildEax
<1>6. /\ Good(x, k, prio[g_current], seg[g_current])
      /\ \A new : new # 0 => Good(y, k, prio[g_current], new)
      /\ Unrolled(x) = x /\ Unrolled(y) = y
  BY <1>2, <1>3, GoodFork DEF Stmt, Rest
<1>7. \A one \in OfCode(y, RunsAt(k)), other \in OfCode(x, RunsAt(k)) :
        Both(one, other) \in OfCode(c, RunsAt(k))
  BY <1>2, <1>3, ForkOutcomes DEF Stmt, Rest
<1>8. code' = [code EXCEPT ![g_current] = x, ![child] = y]
  BY <1>5, <1>6 DEF DoFork
<1> HIDE DEF x, y, child
<1>9. /\ code'[g_current] = x /\ code'[child] = y
      /\ \A p \in Pcbs \ {g_current, child} : code'[p] = code[p]
  BY <1>1, <1>4, <1>8 DEF PInv, PTypes
<1>10. /\ prio'[child] = prio[g_current] /\ prio'[g_current] = prio[g_current]
       /\ \A p \in Pcbs \ {g_current, child} : prio'[p] = prio[p]
  BY <1>1, <1>3, <1>4
<1>11. /\ seg'[child] # 0 /\ seg'[g_current] = seg[g_current]
       /\ \A p \in Pcbs \ {g_current, child} : seg'[p] = seg[p]
  <2>1. 0 \notin Segments BY DEF Segments
  <2> QED BY <1>1, <1>3, <1>4, <2>1
<1>12. \A p \in Pcbs \ {g_current, child} : Keeps(p)
  BY <1>4, <1>9, <1>10, <1>11 DEF Keeps
<1>13. state'[g_current] # ST_FREE /\ state'[child] # ST_FREE
  BY <1>1, <1>4 DEF Alive
<1>14. PICK new : new = [level EXCEPT ![child] = k] OBVIOUS
<1>15. /\ new \in [Pcbs -> 0 .. 2] /\ new[child] = k /\ new[g_current] = k
       /\ \A p \in Pcbs \ {g_current, child} : new[p] = level[p]
  BY <1>1, <1>2, <1>4, <1>14
<1>16. Placed(new)'
  <2>1. ASSUME NEW p \in Pcbs, state'[p] # ST_FREE
        PROVE  Good(code'[p], new[p], prio'[p], seg'[p])
    <3>1. CASE p = g_current BY <1>6, <1>9, <1>10, <1>11, <1>15, <3>1
    <3>2. CASE p = child BY <1>6, <1>9, <1>10, <1>11, <1>15, <3>2
    <3>3. CASE p \notin {g_current, child}
      <4>1. Keeps(p) /\ new[p] = level[p] BY <1>12, <1>15, <3>3
      <4>2. Good(code[p], level[p], prio[p], seg[p])
        BY <1>2, <2>1, <4>1 DEF Keeps, Alive
      <4> QED BY <4>1, <4>2 DEF Keeps
    <3> QED BY <3>1, <3>2, <3>3
  <2> QED BY <1>15, <2>1 DEF Placed, Alive
<1>17. CASE NeverGone
  <2>1. PICK p \in Pcbs \ {Idle} : Alive(p) /\ code[p] \in Napping
    BY <1>17 DEF NeverGone
  <2>2. p # child BY <1>4, <2>1
  <2>3. p # g_current
    <3>1. Stmt.op \notin {"write", "sleep"} BY <1>3
    <3> QED BY <1>2, <2>1, <3>1
  <2>4. state'[p] # ST_FREE /\ code'[p] \in Napping
    BY <1>12, <2>1, <2>2, <2>3 DEF Keeps, Alive
  <2>5. NeverGone' BY <2>1, <2>4 DEF NeverGone, Alive, Napping
  <2> QED BY <1>16, <2>5 DEF Explained
<1>18. CASE Promised(level)
  <2>1. \A one \in OfCode(code'[child], RunsAt(k)),
           other \in OfCode(code'[g_current], RunsAt(k)) :
             Both(one, other) \in OfCode(code[g_current], RunsAt(k))
    BY <1>7, <1>9
  <2>2. Promised(new)'
    BY <1>1, <1>2, <1>3, <1>4, <1>12, <1>13, <1>14, <1>18, <2>1, ForkPromised
  <2> QED BY <1>16, <2>2 DEF Explained
<1>19. NeverGone \/ Promised(level) BY DEF Explained
<1> QED BY <1>17, <1>18, <1>19

-----------------------------------------------------------------------------
(* The invariant holds *)

\* What the first process may write, all the others being free, is what the
\* workload may write.
LEMMA PromisedFirst ==
  ASSUME PInit, NEW level, level[First] = 2
  PROVE  Promised(level)
<1> DEFINE N == N_PROCESSES
           main == WithReturn(first_main(spawn))
<1>1. SUFFICES ASSUME NEW f, NEW g, Parts(f, state, code, level), Sums(f, printed, g)
               PROVE  g[N] \in Outcomes(first_main(spawn))
  BY DEF Promised
<1>2. N \in Nat /\ N >= 2 /\ Pcbs = 0 .. N - 1 /\ 0 \in Pcbs
      /\ \A i \in 1 .. N : i - 1 \in Pcbs /\ (i - 1) + 1 = i
  BY KernelAssumption DEF Pcbs
<1>3. /\ First = 0 /\ state[0] # ST_FREE /\ 0 # Idle
      /\ \A p \in Pcbs \ {0, Idle} : state[p] = ST_FREE
      /\ code[0] = main
  BY <1>2 DEF PInit, Init, First, Idle, ST_FREE, ST_READY, ST_RUNNING
<1>4. /\ f \in [Pcbs -> Counts] /\ f[0] \in OfCode(main, RunsAt(2))
      /\ \A p \in Pcbs \ {0} : f[p] = Nothing
  BY <1>1, <1>2, <1>3 DEF Parts
<1>5. OfCode(main, RunsAt(2)) = Outcomes(first_main(spawn))
  <2>1. first_main(spawn) \in Seq(Starter) BY FirstCode
  <2>2. first_main(spawn) \in Seq(Stmts(ProgramNames)) BY <2>1, StarterFacts
  <2>3. \A prog \in NamesAt(2) : RunsAt(2)[prog] \in Results BY AllRuns
  <2>4. NamesAt(2) = ProgramNames BY DEF NamesAt
  <2>5. OfCode(first_main(spawn) \o Leave, RunsAt(2)) = OfCode(first_main(spawn), RunsAt(2))
    BY <2>2, <2>3, <2>4, LeaveResults
  <2>6. RunsAt(2) = Runs BY DEF RunsAt
  <2> QED BY <2>5, <2>6 DEF WithReturn, Outcomes
<1>6. /\ g \in [0 .. N -> [Chars -> Int]] /\ g[0] = printed
      /\ \A p \in Pcbs : \A ch \in Chars : g[p + 1][ch] = g[p][ch] + f[p][ch]
  BY <1>1 DEF Sums
<1>7. \A ch \in Chars : printed[ch] = 0 /\ Nothing[ch] = 0 /\ f[0][ch] \in Nat
  BY <1>2, <1>4 DEF PInit, Nothing, Counts
<1> DEFINE h == [i \in 0 .. N |-> IF i = 0 THEN printed ELSE f[0]]
<1>8. h[0] = printed /\ \A i \in 1 .. N : h[i] = f[0] BY <1>2
<1> HIDE DEF h, main, N
<1>9. ASSUME NEW i \in 1 .. N, g[i - 1] = h[i - 1] PROVE g[i] = h[i]
  <2>1. /\ i - 1 \in Pcbs /\ i \in 0 .. N /\ h[i] = f[0] /\ i \in Nat
        /\ \A ch \in Chars : g[i][ch] = g[i - 1][ch] + f[i - 1][ch]
    <3>1. (i - 1) + 1 = i /\ i - 1 \in Pcbs BY <1>2
    <3> QED BY <1>2, <1>6, <1>8, <3>1
  <2>2. ASSUME NEW ch \in Chars PROVE g[i][ch] = f[0][ch]
    <3>1. CASE i = 1
      <4>1. i - 1 = 0 BY <3>1
      <4>2. g[i - 1] = printed BY <1>6, <4>1
      <4> QED BY <1>7, <2>1, <4>1, <4>2
    <3>2. CASE i # 1
      <4>1. i - 1 \in 1 .. N /\ i - 1 # 0 BY <1>2, <2>1, <3>2
      <4>2. g[i - 1] = f[0] BY <1>8, <1>9, <4>1
      <4>3. f[i - 1] = Nothing BY <1>4, <2>1, <4>1
      <4> QED BY <1>7, <2>1, <4>2, <4>3
    <3> QED BY <3>1, <3>2
  <2>3. g[i] = [ch \in Chars |-> g[i][ch]] BY <1>6, <2>1
  <2>4. f[0] = [ch \in Chars |-> f[0][ch]] BY <1>2, <1>4 DEF Counts
  <2>5. g[i] = f[0] BY <2>2, <2>3, <2>4
  <2> QED BY <2>1, <2>5
<1>10. SameSteps(g, h, N) BY <1>6, <1>8, <1>9 DEF SameSteps
<1>11. g[N] = h[N] BY <1>2, <1>10, Agree
<1>12. N \in 1 .. N BY <1>2
<1>13. g[N] = f[0] BY <1>8, <1>11, <1>12
<1> QED BY <1>4, <1>5, <1>13

LEMMA PInvInit == PInit => PInv
<1> SUFFICES ASSUME PInit PROVE PInv
  OBVIOUS
<1>1. IInv BY InitInv DEF PInit
<1>2. PTypes
  <2>1. g_next_pid \in 0 .. PID_MOD - 1 BY ProgramsAssumption DEF PInit
  <2>2. printed \in Counts BY DEF PInit, Counts
  <2>3. code = [p \in Pcbs |-> code[p]]
    <3> DEFINE main == WithReturn(first_main(spawn))
               idle == WithReturn(idle_main)
    <3>1. code = [p \in Pcbs |-> CASE p = First -> main [] p = Idle -> idle
                                   [] OTHER -> <<>>]
      BY DEF PInit
    <3> HIDE DEF main, idle
    <3> QED BY <3>1
  <2> QED BY <2>1, <2>2, <2>3 DEF PTypes
<1>3. PICK level : level = [p \in Pcbs |-> 2] OBVIOUS
<1>4. /\ First \in Pcbs /\ Idle \in Pcbs /\ First # Idle
      /\ code[First] = WithReturn(first_main(spawn)) /\ code[Idle] = WithReturn(idle_main)
      /\ \A p \in Pcbs : Alive(p) => p = First \/ p = Idle
      /\ \A p \in Pcbs : prio[p] = IF p = Idle THEN PRI_MINIMUM ELSE PRI_NORMAL
      /\ \A p \in Pcbs : seg[p] = 0
  <2>1. First \in Pcbs /\ Idle \in Pcbs /\ First # Idle
    BY KernelAssumption DEF Pcbs, First, Idle
  <2>2. code[First] = WithReturn(first_main(spawn)) /\ code[Idle] = WithReturn(idle_main)
    BY <2>1 DEF PInit
  <2> QED BY <2>1, <2>2 DEF PInit, Init, Alive, ST_FREE, ST_READY, ST_RUNNING
<1>5. level \in [Pcbs -> 0 .. 2] /\ \A p \in Pcbs : level[p] = 2 BY <1>3
<1>6. Placed(level)
  <2>1. /\ Good(code[First], 2, prio[First], seg[First])
        /\ Good(code[Idle], 2, prio[Idle], seg[Idle])
    BY <1>4, GoodInit
  <2> QED BY <1>4, <1>5, <2>1 DEF Placed
<1>7. Promised(level) BY <1>4, <1>5, PromisedFirst
<1> QED BY <1>1, <1>2, <1>6, <1>7 DEF PInv, Explained

\* The programs only make steps of Kernel.
LEMMA StepsOfKernel == PInv /\ [PNext]_allvars => [Next]_vars
<1> SUFFICES ASSUME PInv, PNext PROVE [Next]_vars
  BY DEF allvars
<1>1. CASE DoSleep
  <2>1. Running /\ Sleep(Stmt.ticks) /\ Stmt.op = "sleep" BY <1>1 DEF DoSleep, At
  <2>2. PICK level : Explained(level) BY <2>1 DEF PInv
  <2>3. Stmt \in Stmts(NamesAt(level[g_current])) BY <2>1, <2>2, CurrentCode
  <2>4. Stmt \in Plain(NamesAt(level[g_current])) BY <2>1, <2>3, StmtFacts
  <2>5. Stmt.ticks \in {1, 2} BY <2>1, <2>4, PlainFacts
  <2>6. Stmt.ticks \in SleepTicks BY <2>5, ProgramsAssumption
  <2> QED BY <2>1, <2>6 DEF Next, SysCall
<1>2. CASE PInterrupt BY <1>2 DEF PInterrupt, Next
<1>3. CASE DoWrite BY <1>3 DEF DoWrite
<1>4. CASE DoRead BY <1>4 DEF DoRead, Next, SysCall
<1>5. CASE DoExit BY <1>5 DEF DoExit, Next, SysCall
<1>6. CASE DoFork BY <1>6 DEF DoFork, Next, SysCall
<1>7. CASE DoForkFails BY <1>7 DEF DoForkFails
<1>8. CASE DoExec \/ DoExecve BY <1>8 DEF DoExec, DoExecve, Next, SysCall
<1>9. CASE DoHotswap BY <1>9 DEF DoHotswap, Next, SysCall
<1> QED
  BY <1>1, <1>2, <1>3, <1>4, <1>5, <1>6, <1>7, <1>8, <1>9 DEF PNext, Step

LEMMA PTypesNext ==
  ASSUME PInv, Running, PNext
  PROVE  PTypes'
<1>1. PICK level : Explained(level) BY DEF PInv
<1>2. /\ g_current \in Pcbs /\ printed \in Counts /\ g_next_pid \in 0 .. PID_MOD - 1
      /\ code = [p \in Pcbs |-> code[p]]
  BY Current DEF PInv, PTypes
<1>3. \A q, c : [code EXCEPT ![q] = c] = [p \in Pcbs |-> [code EXCEPT ![q] = c][p]]
  BY <1>2
<1>4. \A q, c, r, d : [code EXCEPT ![q] = c, ![r] = d]
                        = [p \in Pcbs |-> [code EXCEPT ![q] = c, ![r] = d][p]]
  BY <1>2
<1>5. code' = [p \in Pcbs |-> code'[p]]
  <2>1. \/ code' = code
        \/ \E q, c : code' = [code EXCEPT ![q] = c]
        \/ \E q, c, r, d : code' = [code EXCEPT ![q] = c, ![r] = d]
    <3>1. CASE DoFork BY <3>1 DEF DoFork
    <3>2. CASE DoExit BY <3>2 DEF DoExit
    <3>3. CASE PInterrupt BY <3>3 DEF PInterrupt, pvars
    <3>4. CASE DoHotswap BY <3>4 DEF DoHotswap, pvars
    <3>5. CASE DoWrite \/ DoRead \/ DoSleep \/ DoForkFails \/ DoExec \/ DoExecve
      BY <3>5 DEF DoWrite, DoRead, DoSleep, DoForkFails, DoExec, DoExecve, GoesOnWith
    <3> QED BY <3>1, <3>2, <3>3, <3>4, <3>5 DEF PNext, Step
  <2> QED BY <1>2, <1>3, <1>4, <2>1
<1>6. g_next_pid' \in 0 .. PID_MOD - 1
  <2>1. g_next_pid' = g_next_pid \/ g_next_pid' = NextPid(g_next_pid)
    BY DEF PNext, Step, PInterrupt, pvars, DoWrite, DoRead, DoSleep, DoExit, DoFork,
           DoForkFails, DoExec, DoExecve, DoHotswap, NothingPrinted
  <2>2. NextPid(g_next_pid) \in 0 .. PID_MOD - 1
    BY <1>2, ProgramsAssumption DEF NextPid
  <2> QED BY <1>2, <2>1, <2>2
<1>7. printed' \in Counts
  <2>1. CASE printed' = printed BY <1>2, <2>1
  <2>2. CASE DoWrite
    <3>1. Stmt.op = "write" /\ (printed' = printed
            \/ printed' = [printed EXCEPT ![Stmt.ch] = @ + 1])
      BY <2>2 DEF DoWrite, At
    <3>2. Stmt \in Stmts(NamesAt(level[g_current])) BY <1>1, CurrentCode
    <3>3. Stmt \in Plain(NamesAt(level[g_current])) BY <3>1, <3>2, StmtFacts
    <3>4. Stmt.ch \in Chars BY <3>1, <3>3, PlainFacts
    <3> QED BY <1>2, <3>1, <3>4 DEF Counts
  <2> QED
    BY <2>1, <2>2 DEF PNext, Step, PInterrupt, pvars, DoRead, DoSleep, DoExit, DoFork,
                      DoForkFails, DoExec, DoExecve, DoHotswap, NothingPrinted
<1> QED BY <1>5, <1>6, <1>7 DEF PTypes

LEMMA PInvNext == PInv /\ g_next_pid # 0 /\ [PNext]_allvars => PInv'
<1> SUFFICES ASSUME PInv, g_next_pid # 0, [PNext]_allvars PROVE PInv'
  OBVIOUS
<1>1. CASE UNCHANGED allvars
  BY <1>1 DEF allvars, pvars, vars, PInv, PTypes, IInv, TypeOK, OneQueuePerPcb,
              NoQueuePanic, KernelProcesses, Running, Level, Explained, Placed,
              NeverGone, Promised, Alive
<1>2. CASE PNext
  <2>1. IInv' BY NextInv, StepsOfKernel DEF PInv
  <2>2. Running
    BY <1>2 DEF PNext, Step, PInterrupt, Interrupt, ClockTick, RxInterrupt, DoWrite,
                DoRead, DoSleep, DoExit, DoFork, DoForkFails, DoExec, DoExecve,
                DoHotswap, At
  <2>3. PTypes' BY <1>2, <2>2, PTypesNext
  <2>4. PICK level : Explained(level) BY <2>2 DEF PInv
  <2>5. SUFFICES ASSUME Running' PROVE \E new : Explained(new)'
    BY <2>1, <2>3 DEF PInv
  <2>6. CASE PInterrupt
    <3>1. /\ g_free_pcbs' = g_free_pcbs /\ prio' = prio /\ seg' = seg
          /\ code' = code /\ printed' = printed /\ spawn' = spawn
      BY <2>6 DEF PInterrupt, Interrupt, ClockTick, RxInterrupt, pvars
    <3>2. \A p \in Pcbs : Keeps(p) BY <2>1, <2>2, <2>5, <3>1, SameAlive DEF Keeps
    <3>3. Explained(level)' BY <2>4, <3>1, <3>2, StillExplained
    <3> QED BY <3>3
  <2>7. CASE DoWrite
    <3>1. /\ state' = state /\ prio' = prio /\ seg' = seg /\ spawn' = spawn
          /\ Stmt.op = "write" /\ code' = [code EXCEPT ![g_current] = Unrolled(Rest)]
          /\ printed' = IF Stmt.op # "write" \/ Endless(g_current) THEN printed
                        ELSE [printed EXCEPT ![Stmt.ch] = @ + 1]
      BY <2>7 DEF DoWrite, At, GoesOnWith, vars
    <3> QED BY <2>2, <2>4, <3>1, OnwardExplained
  <2>8. CASE DoRead \/ DoSleep
    <3>1. /\ g_free_pcbs' = g_free_pcbs /\ prio' = prio /\ seg' = seg /\ spawn' = spawn
          /\ Stmt.op \in {"read", "sleep"} /\ printed' = printed
          /\ code' = [code EXCEPT ![g_current] = Unrolled(Rest)]
      BY <2>8 DEF DoRead, DoSleep, At, GoesOnWith, NothingPrinted, ReadChar, ReadBlocks,
                  Sleep, pcbs, queues
    <3>2. \A p \in Pcbs : state'[p] # ST_FREE <=> state[p] # ST_FREE
      BY <2>1, <2>2, <2>5, <3>1, SameAlive
    <3> QED BY <2>2, <2>4, <3>1, <3>2, OnwardExplained
  <2>9. CASE DoExit BY <2>1, <2>2, <2>4, <2>5, <2>9, ExitExplained
  <2>10. CASE DoFork BY <2>1, <2>2, <2>4, <2>5, <2>10, ForkExplained
  <2>11. CASE DoForkFails BY <2>2, <2>4, <2>11, ForkFailsExplained
  <2>12. CASE DoExec \/ DoExecve BY <2>1, <2>2, <2>4, <2>5, <2>12, ExecExplained
  <2>13. CASE DoHotswap
    BY <2>5, <2>13 DEF DoHotswap, Hotswap, StopWith, Running
  <2> QED
    BY <1>2, <2>6, <2>7, <2>8, <2>9, <2>10, <2>11, <2>12, <2>13 DEF PNext, Step
<1> QED BY <1>1, <1>2

-----------------------------------------------------------------------------
(* The theorems *)

\* As long as pids do not wrap around (fork() of a parent returns 0 then, see
\* _sys_fork), the programs make only the calls that Kernel takes for granted.
THEOREM CallsAreThoseGranted ==
  PSpec /\ [](g_next_pid # 0) => []CallsTakenForGranted
<1>1. PInv => CallsTakenForGranted
  <2> SUFFICES ASSUME PInv, Running, NEW p \in Pcbs, Alive(p)
               PROVE  /\ code[p] # <<>>
                      /\ prio[p] = PRI_MINIMUM => Head(code[p]).op = "write"
                      /\ seg[p] = 0 => Head(code[p]).op \in {"write", "fork", "exit"}
    BY DEF CallsTakenForGranted
  <2>1. PICK level : Explained(level) BY DEF PInv
  <2>2. level[p] \in 0 .. 2 /\ Good(code[p], level[p], prio[p], seg[p])
    BY <2>1 DEF Explained, Placed
  <2> QED BY <2>2, GoodFacts
<1> QED BY <1>1, PInvInit, PInvNext, PTL DEF PSpec

\* As long as pids do not wrap around, what has been written when all have gone
\* is what the workload may write.
THEOREM OutputIsComplete ==
  PSpec /\ [](g_next_pid # 0) => []OutputComplete
<1>1. PInv => OutputComplete
  <2> SUFFICES ASSUME PInv, Running, Gone
               PROVE  printed \in Outcomes(first_main(spawn))
    BY DEF OutputComplete
  <2>1. PICK level : Explained(level) BY DEF PInv
  <2>2. Promised(level) BY <2>1 DEF Explained, NeverGone, Gone
  <2> DEFINE f == [p \in Pcbs |-> Nothing]
             g == [i \in 0 .. N_PROCESSES |-> printed]
  <2>3. printed \in Counts /\ Nothing \in Counts
    BY DEF PInv, PTypes, Nothing, Counts
  <2>4. Parts(f, state, code, level) BY <2>3 DEF Parts, Gone, Alive
  <2>5. Sums(f, printed, g)
    <3>1. N_PROCESSES \in Nat /\ \A p \in Pcbs : p \in 0 .. N_PROCESSES
                                               /\ p + 1 \in 0 .. N_PROCESSES
      BY KernelAssumption DEF Pcbs
    <3>2. printed \in [Chars -> Int] /\ \A ch \in Chars : printed[ch] + Nothing[ch] = printed[ch]
      BY <2>3 DEF Counts, Nothing
    <3> QED BY <3>1, <3>2 DEF Sums
  <2>6. g[N_PROCESSES] = printed BY KernelAssumption
  <2> QED BY <2>2, <2>4, <2>5, <2>6 DEF Promised
<1> QED BY <1>1, PInvInit, PInvNext, PTL DEF PSpec
=============================================================================
