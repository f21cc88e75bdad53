--------------------------- MODULE LoadingProofs ----------------------------
(***************************************************************************)
(* Proofs about how programs come to run.  First the boot loader: it puts  *)
(* every sector of the image where BuildImage was asked to put it, so that *)
(* Bootstrap implements BootSpec.  Then execve: the image that a plain     *)
(* name asks for runs as it was linked, and main finds its arguments.      *)
(***************************************************************************)
EXTENDS Bootstrap, Execve, QueueSeqsProofs

(* The invariant *)

\* A sector and its place.
Piece == [at : Nat, what : Nat \X Nat]

\* Where the i-th program goes.
Place(i) == programs[i].addr.segment + programs[i].addr.offset

\* start says how many sectors there are before each program, and in all.
Layout(start) ==
  /\ start \in [1 .. Len(programs) + 1 -> Nat]
  /\ start[1] = 2 /\ start[Len(programs) + 1] = Len(Pieces)
  /\ \A i \in 1 .. Len(programs) :
       /\ start[i + 1] = start[i] + programs[i].size
       /\ \A k \in 1 .. programs[i].size :
            Pieces[start[i] + k] = [at |-> Place(i) + (k - 1) * SECTOR,
                                    what |-> <<i, k>>]

\* The image and its table are as the arguments want them.
Image ==
  /\ build \in {"open", "built", "quit"}
  /\ programs \in Seq([size : Sizes, addr : Addresses])
  /\ Pieces \in Seq(Piece) /\ Len(Pieces) >= 2
  /\ Pieces[1] = [at |-> BOOT, what |-> <<0, 1>>]
  /\ Pieces[2] = [at |-> BOOT + SECTOR, what |-> <<0, 2>>]
  /\ info \in Seq(Nat) /\ Len(info) = 3 * Len(programs)
  /\ \A i \in 1 .. Len(programs) :
       /\ TableWord(3 * i - 3) = programs[i].size
       /\ TableWord(3 * i - 2) = programs[i].addr.segment
       /\ TableWord(3 * i - 1) = programs[i].addr.offset
  /\ out \in Seq(Nat \X Nat)
  /\ build # "quit" => /\ Len(out) = Len(Pieces)
                       /\ \A j \in 1 .. Len(Pieces) : out[j] = Pieces[j].what

\* The sector at p, and the number of those before it, count in step.
Loader(start) ==
  /\ phase # "off" => build = "built"
  /\ chs \in [cyl : Nat, head : 0 .. max_head - 1, sec : 1 .. max_sec - 1]
  /\ phase = "boot" => SectorsBefore(chs) = 1
  /\ phase = "read" =>
       \/ /\ di = 0 /\ ax = 1 /\ SectorsBefore(chs) = 1
          /\ es \in Int /\ bx \in Int /\ es + bx = BOOT + SECTOR
       \/ \E i \in 1 .. Len(programs) :
            /\ di = 3 * i /\ ax \in 1 .. programs[i].size
            /\ SectorsBefore(chs) = start[i] + programs[i].size - ax
            /\ es \in Int /\ bx \in Int
            /\ es + bx = Place(i) + (programs[i].size - ax) * SECTOR
  /\ phase = "next" =>
       \E i \in 0 .. Len(programs) :
         di = 3 * i /\ SectorsBefore(chs) = start[i + 1]

IInv == Image /\ \E start : Layout(start) /\ Loader(start)

\* What the assumptions say of the numbers.
LEMMA Numbers ==
  /\ SECTOR \in Nat /\ SECTOR > 0 /\ OFFSETS \in Nat /\ BOOT \in Nat /\ MEM_TOP \in Nat
  /\ Memory \subseteq Nat /\ BOOT \in Memory /\ BOOT + SECTOR \in Memory
  /\ max_sec \in Nat /\ max_sec >= 3 /\ max_head \in Nat /\ max_head >= 1
  /\ \A size \in Sizes : size \in Nat /\ size >= 1
  /\ \A a \in Addresses : a.segment \in Nat /\ a.offset \in Nat
BY BuildAssumption, LoadableFiles, DiskAssumption DEF Memory

\* The sectors of a program, one after the other.
LEMMA FileFacts ==
  ASSUME NEW p \in [size : Sizes, addr : Addresses], NEW i \in Nat
  PROVE  /\ ProgramFile(i, p) \in Seq(Piece)
         /\ Len(ProgramFile(i, p)) = p.size
         /\ \A k \in 1 .. p.size : ProgramFile(i, p)[k] =
              [at |-> p.addr.segment + p.addr.offset + (k - 1) * SECTOR,
               what |-> <<i, k>>]
<1>1. p.size \in Nat /\ p.addr.segment \in Nat /\ p.addr.offset \in Nat
  BY Numbers
<1>2. ASSUME NEW k \in 1 .. p.size
      PROVE  [at |-> p.addr.segment + p.addr.offset + (k - 1) * SECTOR,
              what |-> <<i, k>>] \in Piece
  <2>1. (k - 1) * SECTOR \in Nat BY Numbers
  <2> QED BY <1>1, <2>1 DEF Piece
<1>3. /\ ProgramFile(i, p) \in [1 .. p.size -> Piece]
      /\ \A k \in 1 .. p.size : ProgramFile(i, p)[k] =
           [at |-> p.addr.segment + p.addr.offset + (k - 1) * SECTOR,
            what |-> <<i, k>>]
  BY <1>2 DEF ProgramFile
<1>4. \A m \in Nat : \A f \in [1 .. m -> Piece] : f \in Seq(Piece) /\ Len(f) = m
  OBVIOUS
<1> QED BY <1>1, <1>3, <1>4

\* The pieces of the program added last are behind the others.
LEMMA PiecesGrow ==
  ASSUME NEW ps \in Seq([size : Sizes, addr : Addresses]),
         NEW program \in [size : Sizes, addr : Addresses]
  PROVE  LET All(s) == FlattenSeq(<<BootFile>>
                                  \o [i \in DOMAIN s |-> ProgramFile(i, s[i])])
         IN  /\ All(ps) \in Seq(Piece)
             /\ All(Append(ps, program))
                  = All(ps) \o ProgramFile(Len(ps) + 1, program)
<1> DEFINE Files(s) == [i \in DOMAIN s |-> ProgramFile(i, s[i])]
           n == Len(ps)
           pp == Append(ps, program)
<1>1. /\ n \in Nat /\ DOMAIN ps = 1 .. n
      /\ \A i \in 1 .. n : ps[i] \in [size : Sizes, addr : Addresses]
      /\ Len(pp) = n + 1 /\ DOMAIN pp = 1 .. n + 1 /\ pp[n + 1] = program
      /\ \A i \in 1 .. n : pp[i] = ps[i]
  <2>1. /\ n \in Nat /\ DOMAIN ps = 1 .. n
        /\ \A i \in 1 .. n : ps[i] \in [size : Sizes, addr : Addresses]
    BY LenProperties, ElementOfSeq
  <2>2. /\ pp \in Seq([size : Sizes, addr : Addresses]) /\ Len(pp) = n + 1
        /\ pp[n + 1] = program /\ \A i \in 1 .. n : pp[i] = ps[i]
    BY AppendProperties
  <2> HIDE DEF pp
  <2>3. DOMAIN pp = 1 .. n + 1 BY <2>2, LenProperties
  <2> QED BY <2>1, <2>2, <2>3
<1> HIDE DEF pp
<1>2. ASSUME NEW p \in [size : Sizes, addr : Addresses], NEW i \in Nat
      PROVE  ProgramFile(i, p) \in Seq(Piece)
  BY FileFacts
<1>3. BootFile \in Seq(Piece)
  <2>1. ASSUME NEW k \in 1 .. 2
        PROVE  [at |-> BOOT + (k - 1) * SECTOR, what |-> <<0, k>>] \in Piece
    <3>1. (k - 1) * SECTOR \in Nat BY Numbers
    <3> QED BY <3>1, Numbers DEF Piece
  <2> QED BY <2>1 DEF BootFile
<1>4. Files(ps) \in Seq(Seq(Piece)) /\ Len(Files(ps)) = n
  BY <1>1, <1>2
<1>5. ProgramFile(n + 1, program) \in Seq(Piece)
  BY <1>1, <1>2
<1>6. Files(pp) = Append(Files(ps), ProgramFile(n + 1, program))
  <2>1. Files(pp) = [i \in 1 .. n + 1 |-> ProgramFile(i, pp[i])] BY <1>1
  <2>2. /\ Append(Files(ps), ProgramFile(n + 1, program)) \in Seq(Seq(Piece))
        /\ Len(Append(Files(ps), ProgramFile(n + 1, program))) = n + 1
        /\ \A i \in 1 .. n : Append(Files(ps), ProgramFile(n + 1, program))[i]
                               = Files(ps)[i]
        /\ Append(Files(ps), ProgramFile(n + 1, program))[n + 1]
             = ProgramFile(n + 1, program)
    BY <1>4, <1>5, AppendProperties
  <2> DEFINE ff == Append(Files(ps), ProgramFile(n + 1, program))
  <2> HIDE DEF ff
  <2>3. ff = [i \in 1 .. n + 1 |-> ff[i]] BY <2>2, LenProperties DEF ff
  <2>4. ASSUME NEW i \in 1 .. n + 1 PROVE ff[i] = ProgramFile(i, pp[i])
    <3>1. CASE i = n + 1 BY <1>1, <2>2, <3>1 DEF ff
    <3>2. CASE i # n + 1
      <4>1. i \in 1 .. n BY <1>1, <3>2
      <4>2. ff[i] = Files(ps)[i] BY <2>2, <4>1 DEF ff
      <4> QED BY <1>1, <4>1, <4>2
    <3> QED BY <3>1, <3>2
  <2> QED BY <2>1, <2>3, <2>4 DEF ff
<1> DEFINE all == <<BootFile>> \o Files(ps)
<1>7. all \in Seq(Seq(Piece)) /\ all # <<>>
  <2>1. <<BootFile>> \in Seq(Seq(Piece)) /\ Len(<<BootFile>>) = 1 BY <1>3
  <2> HIDE DEF Files
  <2>2. all \in Seq(Seq(Piece)) /\ Len(all) = 1 + n
    BY <1>4, <2>1, ConcatProperties
  <2> QED BY <1>1, <2>2
<1>8. <<BootFile>> \o Files(pp) = Append(all, ProgramFile(n + 1, program))
  <2>1. <<BootFile>> \in Seq(Seq(Piece)) BY <1>3
  <2>2. \A S : \A s, t \in Seq(S) : \A e \in S :
          s \o Append(t, e) = Append(s \o t, e)
    OBVIOUS
  <2> HIDE DEF Files
  <2> QED BY <1>4, <1>5, <1>6, <2>1, <2>2
<1>9. FlattenSeq(all) \in Seq(Piece)
  <2> HIDE DEF all
  <2> QED BY <1>7, FlattenFacts
<1>10. FlattenSeq(Append(all, ProgramFile(n + 1, program)))
         = FlattenSeq(all) \o ProgramFile(n + 1, program)
  <2> HIDE DEF all
  <2> QED BY <1>5, <1>7, FlattenFacts
<1> QED BY <1>8, <1>9, <1>10 DEF pp

\* At first there is the boot file alone.
LEMMA InitInv == Init => IInv
<1> SUFFICES ASSUME Init PROVE IInv
  OBVIOUS
<1>1. /\ programs = <<>> /\ out = << <<0, 1>>, <<0, 2>> >> /\ info = <<>>
      /\ build = "open" /\ phase = "off"
      /\ chs = [cyl |-> 0, head |-> 0, sec |-> 2]
  BY DEF Init, BInit
<1>2. /\ BootFile \in Seq(Piece) /\ Len(BootFile) = 2
      /\ BootFile[1] = [at |-> BOOT, what |-> <<0, 1>>]
      /\ BootFile[2] = [at |-> BOOT + SECTOR, what |-> <<0, 2>>]
  <2>1. (1 - 1) * SECTOR = 0 /\ (2 - 1) * SECTOR = SECTOR BY Numbers
  <2>2. /\ BootFile = [k \in 1 .. 2 |-> BootFile[k]]
        /\ BootFile[1] = [at |-> BOOT, what |-> <<0, 1>>]
        /\ BootFile[2] = [at |-> BOOT + SECTOR, what |-> <<0, 2>>]
    BY <2>1, Numbers DEF BootFile
  <2>3. BootFile[1] \in Piece /\ BootFile[2] \in Piece
    BY <2>2, Numbers DEF Piece
  <2>4. BootFile \in [1 .. 2 -> Piece] BY <2>2, <2>3
  <2>5. \A m \in Nat : \A f \in [1 .. m -> Piece] : f \in Seq(Piece) /\ Len(f) = m
    OBVIOUS
  <2> QED BY <2>2, <2>4, <2>5
<1>3. Pieces = BootFile
  <2>1. [i \in DOMAIN programs |-> ProgramFile(i, programs[i])] = <<>>
    BY <1>1
  <2>2. Pieces = FlattenSeq(<<BootFile>> \o <<>>)
    BY <2>1 DEF Pieces
  <2>3. <<BootFile>> \in Seq(Seq(Piece)) /\ Len(<<BootFile>>) = 1
        /\ <<BootFile>> # <<>> /\ <<BootFile>>[1] = BootFile
    BY <1>2
  <2>4. <<BootFile>> \o <<>> = <<BootFile>> BY <2>3, ConcatEmptySeq
  <2>5. FlattenSeq(<<BootFile>>) = <<BootFile>>[1]
    BY <2>3, FlattenFacts
  <2> QED BY <2>2, <2>3, <2>4, <2>5
<1>4. Image
  <2>1. Len(programs) = 0 /\ Len(info) = 0 /\ Len(out) = 2
        /\ programs \in Seq([size : Sizes, addr : Addresses])
        /\ info \in Seq(Nat) /\ out \in Seq(Nat \X Nat)
    BY <1>1
  <2>2. /\ Pieces \in Seq(Piece) /\ Len(Pieces) = 2
        /\ Pieces[1] = [at |-> BOOT, what |-> <<0, 1>>]
        /\ Pieces[2] = [at |-> BOOT + SECTOR, what |-> <<0, 2>>]
    BY <1>2, <1>3
  <2>3. \A j \in 1 .. 2 : out[j] = Pieces[j].what
    <3>1. out[1] = Pieces[1].what /\ out[2] = Pieces[2].what
      BY <1>1, <2>2
    <3>2. \A j \in 1 .. 2 : j = 1 \/ j = 2 OBVIOUS
    <3> QED BY <3>1, <3>2
  <2> QED BY <1>1, <2>1, <2>2, <2>3 DEF Image
<1>5. Layout([i \in 1 .. 1 |-> 2])
  <2>1. Len(programs) = 0 BY <1>1
  <2> QED BY <1>2, <1>3, <2>1 DEF Layout
<1>6. Loader([i \in 1 .. 1 |-> 2])
  BY <1>1, Numbers DEF Loader
<1> QED BY <1>4, <1>5, <1>6 DEF IInv

\* The elements of a concatenation.
LEMMA ConcatFacts ==
  \A S : \A s, t \in Seq(S) :
    /\ s \o t \in Seq(S) /\ Len(s \o t) = Len(s) + Len(t)
    /\ \A j \in 1 .. Len(s) : (s \o t)[j] = s[j]
    /\ \A k \in 1 .. Len(t) : (s \o t)[Len(s) + k] = t[k]
<1> SUFFICES ASSUME NEW S, NEW s \in Seq(S), NEW t \in Seq(S)
             PROVE  /\ s \o t \in Seq(S) /\ Len(s \o t) = Len(s) + Len(t)
                    /\ \A j \in 1 .. Len(s) : (s \o t)[j] = s[j]
                    /\ \A k \in 1 .. Len(t) : (s \o t)[Len(s) + k] = t[k]
  OBVIOUS
<1>1. Len(s) \in Nat /\ Len(t) \in Nat BY LenProperties
<1>2. /\ s \o t \in Seq(S) /\ Len(s \o t) = Len(s) + Len(t)
      /\ \A j \in 1 .. Len(s) + Len(t) :
           (s \o t)[j] = IF j <= Len(s) THEN s[j] ELSE t[j - Len(s)]
  BY ConcatProperties
<1>3. ASSUME NEW j \in 1 .. Len(s) PROVE (s \o t)[j] = s[j]
  BY <1>1, <1>2
<1>4. ASSUME NEW k \in 1 .. Len(t) PROVE (s \o t)[Len(s) + k] = t[k]
  <2>1. /\ Len(s) + k \in 1 .. Len(s) + Len(t) /\ ~(Len(s) + k <= Len(s))
        /\ Len(s) + k - Len(s) = k
    BY <1>1
  <2> QED BY <1>2, <2>1
<1> QED BY <1>2, <1>3, <1>4

\* No program begins behind the end.
LEMMA StartsGrow ==
  ASSUME NEW start, Layout(start),
         programs \in Seq([size : Sizes, addr : Addresses])
  PROVE  \A i \in 1 .. Len(programs) + 1 : 2 <= start[i] /\ start[i] <= Len(Pieces)
<1> DEFINE n == Len(programs)
           Up == {k \in Nat : k \in 0 .. n => 2 <= start[k + 1]}
           Down == {k \in Nat : k \in 0 .. n => start[n + 1 - k] <= start[n + 1]}
<1>1. /\ n \in Nat /\ \A i \in 1 .. n : programs[i].size \in Nat
      /\ start \in [1 .. n + 1 -> Nat] /\ start[1] = 2
      /\ start[n + 1] = Len(Pieces)
      /\ \A i \in 1 .. n : start[i + 1] = start[i] + programs[i].size
  <2>1. n \in Nat /\ \A i \in 1 .. n : programs[i] \in [size : Sizes, addr : Addresses]
    BY LenProperties, ElementOfSeq
  <2>2. \A i \in 1 .. n : programs[i].size \in Nat
    BY <2>1, Numbers
  <2> QED BY <2>1, <2>2 DEF Layout
<1>2. \A k \in 0 .. n : 2 <= start[k + 1]
  <2>1. 0 \in Up BY <1>1
  <2>2. ASSUME NEW k \in Nat, k \in Up PROVE k + 1 \in Up
    <3>1. SUFFICES ASSUME k + 1 \in 0 .. n PROVE 2 <= start[(k + 1) + 1]
      OBVIOUS
    <3>2. k + 1 \in 1 .. n /\ k + 1 \in 1 .. n + 1 /\ k \in 0 .. n
      BY <1>1, <3>1
    <3>3. 2 <= start[k + 1] /\ start[k + 1] \in Nat BY <1>1, <2>2, <3>2
    <3> QED BY <1>1, <3>2, <3>3
  <2>3. \A k \in Nat : k \in Up
    <3> HIDE DEF Up
    <3> QED BY <2>1, <2>2, SetInduction
  <2> QED BY <2>3
<1>3. \A k \in 0 .. n : start[n + 1 - k] <= start[n + 1]
  <2>1. 0 \in Down BY <1>1
  <2>2. ASSUME NEW k \in Nat, k \in Down PROVE k + 1 \in Down
    <3>1. SUFFICES ASSUME k + 1 \in 0 .. n
                   PROVE  start[n + 1 - (k + 1)] <= start[n + 1]
      OBVIOUS
    <3>2. /\ n - k \in 1 .. n /\ n - k \in 1 .. n + 1 /\ k \in 0 .. n
          /\ n + 1 - (k + 1) = n - k /\ n + 1 - k = (n - k) + 1
          /\ n + 1 - k \in 1 .. n + 1 /\ n + 1 \in 1 .. n + 1
      BY <1>1, <3>1
    <3>3. start[(n - k) + 1] <= start[n + 1] BY <2>2, <3>2
    <3>4. start[(n - k) + 1] = start[n - k] + programs[n - k].size
      BY <1>1, <3>2
    <3>5. start[n - k] \in Nat /\ programs[n - k].size \in Nat
          /\ start[n + 1] \in Nat
      BY <1>1, <3>2
    <3> QED BY <3>2, <3>3, <3>4, <3>5
  <2>3. \A k \in Nat : k \in Down
    <3> HIDE DEF Down
    <3> QED BY <2>1, <2>2, SetInduction
  <2> QED BY <2>3
<1>4. ASSUME NEW i \in 1 .. n + 1 PROVE 2 <= start[i] /\ start[i] <= Len(Pieces)
  <2>1. /\ i - 1 \in 0 .. n /\ (i - 1) + 1 = i
        /\ n + 1 - i \in 0 .. n /\ n + 1 - (n + 1 - i) = i
    <3>1. \A k \in Nat : \A l \in 1 .. k + 1 :
            /\ l - 1 \in 0 .. k /\ (l - 1) + 1 = l
            /\ k + 1 - l \in 0 .. k /\ k + 1 - (k + 1 - l) = l
      OBVIOUS
    <3> HIDE DEF n
    <3> QED BY <1>1, <3>1
  <2> QED BY <1>1, <1>2, <1>3, <2>1
<1> QED BY <1>4

\* BuildImage adds a program to the image, to the table and to the pieces, or
\* stops.
LEMMA ProcessFile ==
  ASSUME Image, NEW start, Layout(start),
         NEW size \in Sizes, NEW a \in Addresses, process_file(size, a)
  PROVE  Image' /\ (\E s : Layout(s)') /\ IsPrefix(Pieces, Pieces')
<1> DEFINE n == Len(programs)
           program == [size |-> size, addr |-> a]
           file == ProgramFile(n + 1, program)
<1>1. /\ n \in Nat /\ program \in [size : Sizes, addr : Addresses]
      /\ size \in Nat /\ a.segment \in Nat /\ a.offset \in Nat
      /\ \A i \in 1 .. n : programs[i] \in [size : Sizes, addr : Addresses]
  BY Numbers, LenProperties, ElementOfSeq DEF Image
<1>2. CASE build' = "quit"
  <2>1. UNCHANGED <<info, programs>>
    BY <1>2 DEF process_file
  <2>2. out' \in Seq(Nat \X Nat)
    <3>1. out' = out \o [k \in 1 .. size |-> <<n + 1, k>>]
      BY DEF process_file
    <3>2. [k \in 1 .. size |-> <<n + 1, k>>] \in Seq(Nat \X Nat)
      BY <1>1
    <3> QED BY <3>1, <3>2, ConcatProperties DEF Image
  <2>3. Pieces' = Pieces BY <2>1 DEF Pieces
  <2>4. Image' BY <1>2, <2>1, <2>2, <2>3 DEF Image, TableWord
  <2>5. Layout(start)' BY <2>1, <2>3 DEF Layout, Place
  <2>6. IsPrefix(Pieces, Pieces')
    BY <2>3 DEF IsPrefix, Image
  <2> QED BY <2>4, <2>5, <2>6
<1>3. CASE build' # "quit"
  <2>1. /\ build = "open" /\ build' = build
        /\ out' = out \o [k \in 1 .. size |-> <<n + 1, k>>]
        /\ info' = <<a.offset, a.segment, size>> \o info
        /\ programs' = Append(programs, program)
    BY <1>3 DEF process_file
  <2>2. /\ programs' \in Seq([size : Sizes, addr : Addresses])
        /\ Len(programs') = n + 1 /\ programs'[n + 1] = program
        /\ \A i \in 1 .. n : programs'[i] = programs[i]
    BY <1>1, <2>1, AppendProperties DEF Image
  \* The pieces.
  <2>3. /\ file \in Seq(Piece) /\ Len(file) = size
        /\ \A k \in 1 .. size : file[k] =
             [at |-> a.segment + a.offset + (k - 1) * SECTOR,
              what |-> <<n + 1, k>>]
    <3>1. program.size = size /\ program.addr = a /\ n + 1 \in Nat BY <1>1
    <3> HIDE DEF program, n
    <3> QED BY <1>1, <3>1, FileFacts
  <2> HIDE DEF file
  <2>4. Pieces' = Pieces \o file
    <3> HIDE DEF program
    <3> QED BY <1>1, <2>1, PiecesGrow DEF Pieces, Image, file, n
  <2>5. /\ Pieces' \in Seq(Piece) /\ Len(Pieces') = Len(Pieces) + size
        /\ \A j \in 1 .. Len(Pieces) : Pieces'[j] = Pieces[j]
        /\ \A k \in 1 .. size : Pieces'[Len(Pieces) + k] = file[k]
    <3>1. Pieces \in Seq(Piece) /\ Len(Pieces) \in Nat
      BY LenProperties DEF Image
    <3>2. /\ Pieces \o file \in Seq(Piece)
          /\ Len(Pieces \o file) = Len(Pieces) + Len(file)
          /\ \A j \in 1 .. Len(Pieces) : (Pieces \o file)[j] = Pieces[j]
          /\ \A k \in 1 .. Len(file) : (Pieces \o file)[Len(Pieces) + k] = file[k]
      BY ONLY <2>3, <3>1, ConcatFacts
    <3> QED BY <2>3, <2>4, <3>2
  \* The table.
  <2>6. /\ info' \in Seq(Nat) /\ Len(info') = Len(info) + 3
        /\ info'[1] = a.offset /\ info'[2] = a.segment /\ info'[3] = size
        /\ \A j \in 1 .. Len(info) : info'[j + 3] = info[j]
    <3>1. info \in Seq(Nat) BY DEF Image
    <3> DEFINE new == <<a.offset, a.segment, size>>
    <3>2. new \in Seq(Nat) /\ Len(new) = 3 /\ new[1] = a.offset
          /\ new[2] = a.segment /\ new[3] = size
      BY <1>1
    <3>3. info' = new \o info BY <2>1
    <3> HIDE DEF new
    <3>4. /\ info' \in Seq(Nat) /\ Len(info') = 3 + Len(info)
          /\ \A i \in 1 .. 3 : info'[i] = new[i]
          /\ \A i \in 1 .. Len(info) : info'[3 + i] = info[i]
      <4>1. /\ new \o info \in Seq(Nat) /\ Len(new \o info) = Len(new) + Len(info)
            /\ \A i \in 1 .. Len(new) : (new \o info)[i] = new[i]
            /\ \A i \in 1 .. Len(info) : (new \o info)[Len(new) + i] = info[i]
        <5>1. new \in Seq(Nat) BY <3>2
        <5> QED BY ONLY <3>1, <5>1, ConcatFacts
      <4> QED BY <3>2, <3>3, <4>1
    <3>5. Len(info) \in Nat BY <3>1, LenProperties
    <3> QED BY <3>2, <3>4, <3>5
  <2>7. Len(info) \in Nat /\ Len(info) = 3 * n
    BY LenProperties DEF Image
  <2>8. \A d \in Nat : d < Len(info) => TableWord(d)' = TableWord(d)
    <3>1. SUFFICES ASSUME NEW d \in Nat, d < Len(info)
                   PROVE  TableWord(d)' = TableWord(d)
      OBVIOUS
    <3>2. /\ Len(info) - d \in 1 .. Len(info)
          /\ Len(info') - d = (Len(info) - d) + 3 /\ d < Len(info')
      BY <2>6, <2>7, <3>1
    <3> QED BY <2>6, <3>1, <3>2 DEF TableWord
  <2>9. \A d \in Nat : d = 3 * n =>
          /\ TableWord(d)' = size /\ TableWord(d + 1)' = a.segment
          /\ TableWord(d + 2)' = a.offset
    <3> SUFFICES ASSUME NEW d \in Nat, d = 3 * n
                 PROVE  /\ TableWord(d)' = size /\ TableWord(d + 1)' = a.segment
                        /\ TableWord(d + 2)' = a.offset
      OBVIOUS
    <3>1. Len(info') = d + 3 BY <2>6, <2>7
    <3>2. /\ (d + 3) - d = 3 /\ (d + 3) - (d + 1) = 2 /\ (d + 3) - (d + 2) = 1
          /\ d < d + 3 /\ d + 1 < d + 3 /\ d + 2 < d + 3
      OBVIOUS
    <3> QED BY <2>6, <3>1, <3>2 DEF TableWord
  <2>10. ASSUME NEW i \in 1 .. n + 1
         PROVE  /\ TableWord(3 * i - 3)' = programs'[i].size
                /\ TableWord(3 * i - 2)' = programs'[i].addr.segment
                /\ TableWord(3 * i - 1)' = programs'[i].addr.offset
    <3>1. CASE i = n + 1
      <4>1. /\ 3 * i - 3 \in Nat /\ 3 * i - 3 = 3 * n
            /\ 3 * i - 2 = (3 * i - 3) + 1 /\ 3 * i - 1 = (3 * i - 3) + 2
        BY <1>1, <3>1
      <4>2. programs'[i].size = size /\ programs'[i].addr = a
        BY <2>2, <3>1
      <4> QED BY <2>9, <4>1, <4>2
    <3>2. CASE i # n + 1
      <4>1. /\ i \in 1 .. n /\ 3 * i - 3 \in Nat /\ 3 * i - 2 \in Nat
            /\ 3 * i - 1 \in Nat /\ 3 * i - 1 < Len(info)
            /\ 3 * i - 2 < Len(info) /\ 3 * i - 3 < Len(info)
        BY <1>1, <2>7, <3>2
      <4>2. /\ TableWord(3 * i - 3) = programs[i].size
            /\ TableWord(3 * i - 2) = programs[i].addr.segment
            /\ TableWord(3 * i - 1) = programs[i].addr.offset
        BY <4>1 DEF Image
      <4> QED BY <2>2, <2>8, <4>1, <4>2
    <3> QED BY <3>1, <3>2
  \* The image.
  <2>11. /\ out' \in Seq(Nat \X Nat) /\ Len(out') = Len(Pieces')
         /\ \A j \in 1 .. Len(Pieces') : out'[j] = Pieces'[j].what
    <3> DEFINE new == [k \in 1 .. size |-> <<n + 1, k>>]
    <3>1. /\ new \in Seq(Nat \X Nat) /\ Len(new) = size
          /\ \A k \in 1 .. size : new[k] = <<n + 1, k>>
      <4>1. \A k \in 1 .. size : <<n + 1, k>> \in Nat \X Nat BY <1>1
      <4>2. new \in [1 .. size -> Nat \X Nat] BY <4>1
      <4>3. \A m \in Nat : \A f \in [1 .. m -> Nat \X Nat] :
              f \in Seq(Nat \X Nat) /\ Len(f) = m
        OBVIOUS
      <4>4. \A k \in 1 .. size : new[k] = <<n + 1, k>> OBVIOUS
      <4> HIDE DEF new
      <4> QED BY <1>1, <4>2, <4>3, <4>4
    <3>2. /\ out \in Seq(Nat \X Nat) /\ Len(out) = Len(Pieces)
          /\ Len(Pieces) \in Nat
          /\ \A j \in 1 .. Len(Pieces) : out[j] = Pieces[j].what
      BY <2>1, LenProperties DEF Image
    <3>3. out' = out \o new BY <2>1
    <3> HIDE DEF new
    <3>4. /\ out' \in Seq(Nat \X Nat) /\ Len(out') = Len(Pieces) + size
          /\ \A j \in 1 .. Len(Pieces) : out'[j] = out[j]
          /\ \A k \in 1 .. size : out'[Len(Pieces) + k] = new[k]
      <4>1. /\ out \o new \in Seq(Nat \X Nat)
            /\ Len(out \o new) = Len(out) + Len(new)
            /\ \A j \in 1 .. Len(out) : (out \o new)[j] = out[j]
            /\ \A k \in 1 .. Len(new) : (out \o new)[Len(out) + k] = new[k]
        <5>1. out \in Seq(Nat \X Nat) BY <3>2
        <5>2. new \in Seq(Nat \X Nat) BY <3>1
        <5> QED BY ONLY <5>1, <5>2, ConcatFacts
      <4> QED BY <3>1, <3>2, <3>3, <4>1
    <3>5. ASSUME NEW j \in 1 .. Len(Pieces') PROVE out'[j] = Pieces'[j].what
      <4>1. CASE j <= Len(Pieces)
        <5>1. j \in 1 .. Len(Pieces) BY <2>5, <3>2, <4>1
        <5> QED BY <2>5, <3>2, <3>4, <4>1, <5>1
      <4>2. CASE ~(j <= Len(Pieces))
        <5> DEFINE k == j - Len(Pieces)
        <5>1. k \in 1 .. size /\ j = Len(Pieces) + k
          BY <1>1, <2>5, <3>2, <4>2
        <5>2. out'[j] = <<n + 1, k>> BY <3>1, <3>4, <4>2, <5>1
        <5> HIDE DEF k
        <5>3. Pieces'[j] = file[k] BY <2>5, <5>1
        <5>4. file[k].what = <<n + 1, k>> BY <2>3, <5>1
        <5> QED BY <5>2, <5>3, <5>4
      <4> QED BY <4>1, <4>2
    <3> QED BY <2>5, <3>4, <3>5
  <2>12. Len(Pieces) \in Nat /\ Len(Pieces) >= 2 /\ n \in Nat
    BY <1>1, LenProperties DEF Image
  <2>13. Image'
    <3>1. build' \in {"open", "built", "quit"} BY <2>1
    <3>2. /\ Len(Pieces') >= 2
          /\ Pieces'[1] = [at |-> BOOT, what |-> <<0, 1>>]
          /\ Pieces'[2] = [at |-> BOOT + SECTOR, what |-> <<0, 2>>]
      <4>1. /\ Pieces[1] = [at |-> BOOT, what |-> <<0, 1>>]
            /\ Pieces[2] = [at |-> BOOT + SECTOR, what |-> <<0, 2>>]
        BY DEF Image
      <4>2. 1 \in 1 .. Len(Pieces) /\ 2 \in 1 .. Len(Pieces)
            /\ Len(Pieces) + size >= 2
        BY <1>1, <2>12
      <4> QED BY <2>5, <4>1, <4>2
    <3>3. Len(info') = 3 * Len(programs')
      BY <1>1, <2>2, <2>6, <2>7
    <3>4. \A i \in 1 .. Len(programs') :
            /\ TableWord(3 * i - 3)' = programs'[i].size
            /\ TableWord(3 * i - 2)' = programs'[i].addr.segment
            /\ TableWord(3 * i - 1)' = programs'[i].addr.offset
      BY <2>2, <2>10
    <3> QED BY <2>2, <2>5, <2>6, <2>11, <3>1, <3>2, <3>3, <3>4 DEF Image
  \* Where each program begins.
  <2> DEFINE last == Len(Pieces) + size
             longer == [i \in 1 .. n + 2 |-> IF i = n + 2 THEN last ELSE start[i]]
  <2>14. /\ start \in [1 .. n + 1 -> Nat] /\ start[1] = 2
         /\ start[n + 1] = Len(Pieces)
         /\ \A i \in 1 .. n :
              /\ start[i + 1] = start[i] + programs[i].size
              /\ \A k \in 1 .. programs[i].size :
                   Pieces[start[i] + k] = [at |-> Place(i) + (k - 1) * SECTOR,
                                           what |-> <<i, k>>]
    BY DEF Layout
  <2>15. last \in Nat BY <1>1, <2>12
  <2>16. PICK s : /\ s \in [1 .. n + 2 -> Nat] /\ s[n + 2] = last
                  /\ \A i \in 1 .. n + 1 : s[i] = start[i]
    <3> HIDE DEF last
    <3>1. \A i \in 1 .. n + 2 : i # n + 2 => i \in 1 .. n + 1 BY <2>12
    <3>2. n + 2 \in 1 .. n + 2
          /\ \A i \in 1 .. n + 1 : i \in 1 .. n + 2 /\ i # n + 2
      BY <2>12
    <3>3. longer \in [1 .. n + 2 -> Nat] BY <2>14, <2>15, <3>1
    <3>4. longer[n + 2] = last BY <3>2
    <3>5. \A i \in 1 .. n + 1 : longer[i] = start[i] BY <3>2
    <3> HIDE DEF longer
    <3> QED BY <3>3, <3>4, <3>5
  <2>17. ASSUME NEW i \in 1 .. n + 1
         PROVE  /\ s[i + 1] = s[i] + programs'[i].size
                /\ \A k \in 1 .. programs'[i].size :
                     Pieces'[s[i] + k] = [at |-> Place(i)' + (k - 1) * SECTOR,
                                          what |-> <<i, k>>]
    <3>1. CASE i = n + 1
      <4>1. /\ programs'[i].size = size /\ Place(i)' = a.segment + a.offset
        BY <2>2, <3>1 DEF Place
      <4>2. s[i] = Len(Pieces) /\ s[i + 1] = last
        <5>1. i + 1 = n + 2 BY <2>12, <3>1
        <5> QED BY <2>14, <2>16, <3>1, <5>1
      <4> QED BY <2>3, <2>5, <3>1, <4>1, <4>2
    <3>2. CASE i # n + 1
      <4>1. i \in 1 .. n /\ i + 1 \in 1 .. n + 1 BY <2>12, <3>2
      <4>2. programs'[i] = programs[i] /\ Place(i)' = Place(i)
        BY <2>2, <4>1 DEF Place
      <4>3. s[i] = start[i] /\ s[i + 1] = start[i + 1]
        BY <2>16, <4>1
      <4>4. ASSUME NEW k \in 1 .. programs[i].size
            PROVE  Pieces'[s[i] + k] = [at |-> Place(i)' + (k - 1) * SECTOR,
                                        what |-> <<i, k>>]
        <5>1. start[i] + k \in 1 .. Len(Pieces)
          <6>1. start[i + 1] <= Len(Pieces)
            BY <4>1, StartsGrow DEF Image
          <6>2. programs[i].size \in Nat
            BY <1>1, <4>1, Numbers
          <6>3. start[i] \in Nat
            <7>1. i \in 1 .. n + 1 BY <2>12, <4>1
            <7> QED BY <2>14, <7>1
          <6>4. start[i + 1] = start[i] + programs[i].size
            BY <2>14, <4>1
          <6> HIDE DEF n
          <6> QED BY <2>12, <6>1, <6>2, <6>3, <6>4
        <5> QED BY <2>5, <2>14, <4>1, <4>2, <4>3, <5>1
      <4> QED BY <2>14, <4>1, <4>2, <4>3, <4>4
    <3> QED BY <3>1, <3>2
  <2>18. Layout(s)'
    <3>1. Len(programs') + 1 = n + 2 /\ Len(Pieces') = last
          /\ Len(programs') = n + 1
      BY <2>2, <2>5, <2>12
    <3>2. s[1] = 2
      <4>1. 1 \in 1 .. n + 1 BY <2>12
      <4> QED BY <2>14, <2>16, <4>1
    <3> HIDE DEF last
    <3>3. s \in [1 .. Len(programs') + 1 -> Nat]
          /\ s[Len(programs') + 1] = Len(Pieces')
      BY <2>16, <3>1
    <3>4. \A i \in 1 .. Len(programs') :
            /\ s[i + 1] = s[i] + programs'[i].size
            /\ \A k \in 1 .. programs'[i].size :
                 Pieces'[s[i] + k] = [at |-> Place(i)' + (k - 1) * SECTOR,
                                      what |-> <<i, k>>]
      BY <2>17, <3>1
    <3> QED BY <3>2, <3>3, <3>4 DEF Layout
  <2>19. IsPrefix(Pieces, Pieces')
    <3>1. Len(Pieces) <= Len(Pieces') BY <1>1, <2>5, <2>12
    <3>2. SubSeq(Pieces, 1, Len(Pieces)) = SubSeq(Pieces', 1, Len(Pieces))
      <4>1. \A s1, s2, m : (\A j \in 1 .. m : s1[j] = s2[j]) /\ m \in Nat
              => SubSeq(s1, 1, m) = SubSeq(s2, 1, m)
        OBVIOUS
      <4> QED BY <2>5, <2>12, <4>1
    <3> QED BY <3>1, <3>2 DEF IsPrefix
  <2> QED BY <2>13, <2>18, <2>19
<1> QED BY <1>2, <1>3

\* No step of the loader changes the image.
LEMMA ImageKept ==
  ASSUME UNCHANGED buildvars
  PROVE  /\ Pieces' = Pieces
         /\ Image => Image'
         /\ \A start : Layout(start) => Layout(start)'
<1>1. UNCHANGED <<programs, out, info, build>> BY DEF buildvars
<1>2. Pieces' = Pieces BY <1>1 DEF Pieces
<1>3. Image => Image'
  <2> SUFFICES ASSUME Image PROVE Image'
    OBVIOUS
  <2>1. \A d : TableWord(d)' = TableWord(d) BY <1>1 DEF TableWord
  <2> QED BY <1>1, <1>2, <2>1 DEF Image
<1>4. ASSUME NEW start, Layout(start) PROVE Layout(start)'
  <2>1. \A i : Place(i)' = Place(i) BY <1>1 DEF Place
  <2> QED BY <1>1, <1>2, <1>4, <2>1 DEF Layout
<1> QED BY <1>2, <1>3, <1>4
-----------------------------------------------------------------------------
(* The steps of the loader *)

Positions == [cyl : Nat, head : 0 .. max_head - 1, sec : 1 .. max_sec - 1]

\* The next sector on the disk has one more sector before it.
LEMMA NextOnDiskIsNext ==
  ASSUME chs \in Positions
  PROVE  /\ SectorsBefore(chs) \in Nat
         /\ NextOnDisk \in Positions
         /\ SectorsBefore(NextOnDisk) = SectorsBefore(chs) + 1
<1> DEFINE c == chs.cyl
           h == chs.head
           t == max_sec - 1
<1>1. /\ c \in Nat /\ h \in 0 .. max_head - 1 /\ chs.sec \in 1 .. t
      /\ t \in Nat /\ t >= 2 /\ max_head \in Nat /\ max_head >= 1
  BY Numbers DEF Positions
<1>2. \A x, y \in Nat : x * y \in Nat OBVIOUS
<1>3. \A x, y \in Nat : (x + 1) * y = x * y + y OBVIOUS
<1>4. c * max_head \in Nat /\ c * max_head + h \in Nat
      /\ (c * max_head + h) * t \in Nat
  BY <1>1, <1>2
<1>5. SectorsBefore(chs) = (c * max_head + h) * t + chs.sec - 1
  BY DEF SectorsBefore
<1>6. CASE chs.sec + 1 # max_sec
  <2>1. /\ NextOnDisk = [chs EXCEPT !.sec = @ + 1] /\ chs.sec + 1 \in 1 .. t
    BY <1>1, <1>6, Numbers DEF NextOnDisk
  <2>2. /\ NextOnDisk \in Positions /\ NextOnDisk.cyl = c /\ NextOnDisk.head = h
        /\ NextOnDisk.sec = chs.sec + 1
    BY <2>1 DEF Positions
  <2>3. SectorsBefore(NextOnDisk) = (c * max_head + h) * t + (chs.sec + 1) - 1
    BY <2>2 DEF SectorsBefore
  <2> QED BY <1>1, <1>4, <1>5, <2>2, <2>3
<1>7. CASE chs.sec + 1 = max_sec /\ h + 1 # max_head
  <2>1. /\ NextOnDisk = [chs EXCEPT !.sec = 1, !.head = @ + 1]
        /\ h + 1 \in 0 .. max_head - 1 /\ chs.sec = t /\ 1 \in 1 .. t
    BY <1>1, <1>7, Numbers DEF NextOnDisk
  <2>2. /\ NextOnDisk \in Positions /\ NextOnDisk.cyl = c
        /\ NextOnDisk.head = h + 1 /\ NextOnDisk.sec = 1
    BY <2>1 DEF Positions
  <2>3. SectorsBefore(NextOnDisk) = (c * max_head + (h + 1)) * t + 1 - 1
    BY <2>2 DEF SectorsBefore
  <2>4. c * max_head + (h + 1) = (c * max_head + h) + 1 BY <1>1, <1>4
  <2>5. (c * max_head + (h + 1)) * t = (c * max_head + h) * t + t
    BY <1>1, <1>3, <1>4, <2>4
  <2> QED BY <1>1, <1>4, <1>5, <2>1, <2>2, <2>3, <2>5
<1>8. CASE chs.sec + 1 = max_sec /\ h + 1 = max_head
  <2>1. /\ NextOnDisk = [cyl |-> chs.cyl + 1, head |-> 0, sec |-> 1]
        /\ chs.sec = t /\ 1 \in 1 .. t /\ 0 \in 0 .. max_head - 1
    BY <1>1, <1>8, Numbers DEF NextOnDisk
  <2>2. /\ NextOnDisk \in Positions /\ NextOnDisk.cyl = c + 1
        /\ NextOnDisk.head = 0 /\ NextOnDisk.sec = 1
    BY <1>1, <2>1 DEF Positions
  <2>3. SectorsBefore(NextOnDisk) = ((c + 1) * max_head + 0) * t + 1 - 1
    BY <2>2 DEF SectorsBefore
  <2>4. (c + 1) * max_head + 0 = (c * max_head + h) + 1
    BY <1>1, <1>3, <1>4, <1>8
  <2>5. ((c + 1) * max_head + 0) * t = (c * max_head + h) * t + t
    BY <1>1, <1>3, <1>4, <2>4
  <2> QED BY <1>1, <1>4, <1>5, <2>1, <2>2, <2>3, <2>5
<1> QED BY <1>6, <1>7, <1>8

\* The sector the loader reads next is the next piece, and it goes where that
\* is wanted.
LEMMA NextPiece ==
  ASSUME Image, NEW start, Layout(start), Loader(start), phase = "read"
  PROVE  /\ SectorsBefore(chs) \in Nat /\ SectorsBefore(chs) < Len(Pieces)
         /\ Pieces[SectorsBefore(chs) + 1].at = es + bx
         /\ Pieces[SectorsBefore(chs) + 1].what = OnDisk(chs)
<1> DEFINE j == SectorsBefore(chs)
           n == Len(programs)
<1>1. /\ j \in Nat /\ n \in Nat /\ Len(Pieces) \in Nat /\ Len(Pieces) >= 2
  BY NextOnDiskIsNext, LenProperties DEF Loader, Image, Positions
<1>2. j < Len(Pieces) /\ Pieces[j + 1].at = es + bx
  <2>1. CASE j = 1 /\ es + bx = BOOT + SECTOR
    <3>1. Pieces[2].at = BOOT + SECTOR /\ j + 1 = 2 BY <2>1 DEF Image
    <3> HIDE DEF j
    <3> QED BY <1>1, <2>1, <3>1
  <2>2. CASE \E i \in 1 .. n :
               /\ ax \in 1 .. programs[i].size
               /\ j = start[i] + programs[i].size - ax
               /\ es + bx = Place(i) + (programs[i].size - ax) * SECTOR
    <3>1. PICK i \in 1 .. n :
            /\ ax \in 1 .. programs[i].size
            /\ j = start[i] + programs[i].size - ax
            /\ es + bx = Place(i) + (programs[i].size - ax) * SECTOR
      BY <2>2
    <3> HIDE DEF j
    <3>2. /\ programs[i].size \in Nat /\ i \in 1 .. n + 1 /\ i + 1 \in 1 .. n + 1
      <4>1. programs[i] \in [size : Sizes, addr : Addresses]
        BY ElementOfSeq DEF Image
      <4> QED BY <1>1, <4>1, Numbers
    <3>3. start[i] \in Nat /\ start[i + 1] = start[i] + programs[i].size
      BY <3>2 DEF Layout
    <3>4. start[i + 1] <= Len(Pieces) BY <3>2, StartsGrow DEF Image
    <3> DEFINE z == programs[i].size
               k == z - ax + 1
    <3>5. /\ k \in 1 .. z /\ j + 1 = start[i] + k
          /\ k - 1 = z - ax /\ j < Len(Pieces)
      <4>1. z \in Nat /\ ax \in 1 .. z /\ j = start[i] + z - ax
            /\ start[i + 1] = start[i] + z
        BY <3>1, <3>2, <3>3
      <4> HIDE DEF z
      <4> QED BY <1>1, <3>3, <3>4, <4>1
    <3> HIDE DEF k
    <3>6. Pieces[start[i] + k].at = Place(i) + (k - 1) * SECTOR
      <4>1. Pieces[start[i] + k] = [at |-> Place(i) + (k - 1) * SECTOR,
                                    what |-> <<i, k>>]
        BY <3>5 DEF Layout
      <4> QED BY <4>1
    <3> QED BY <3>1, <3>5, <3>6
  <2> QED BY <2>1, <2>2 DEF Loader
<1>3. Pieces[j + 1].what = OnDisk(chs)
  <2>1. build # "quit" BY DEF Loader
  <2>2. j + 1 \in 1 .. Len(Pieces) BY <1>1, <1>2
  <2>3. Len(out) = Len(Pieces) /\ out[j + 1] = Pieces[j + 1].what
    BY <2>1, <2>2 DEF Image
  <2> QED BY <1>2, <2>3 DEF OnDisk
<1> QED BY <1>1, <1>2, <1>3

\* A sector is read: ReadSector puts the next piece in its place.
LEMMA ReadIsLoad ==
  ASSUME Image, NEW start, Layout(start), Loader(start), UNCHANGED buildvars,
         ReadSector
  PROVE  Loader(start)' /\ Boot!Load
<1> DEFINE n == Len(programs)
           j == SectorsBefore(chs)
<1>1. /\ phase = "read" /\ build = "built" /\ build' = "built" /\ chs \in Positions
      /\ programs' = programs /\ n \in Nat
  BY LenProperties DEF ReadSector, Reading, Loader, buildvars, Positions, Image
<1>2. /\ j \in Nat /\ j < Len(Pieces)
      /\ Pieces[j + 1].at = es + bx /\ Pieces[j + 1].what = OnDisk(chs)
  BY <1>1, NextPiece
<1>3. chs' \in Positions /\ SectorsBefore(chs)' = j + 1
  BY <1>1, NextOnDiskIsNext DEF ReadSector, SectorsBefore
<1>4. Boot!Load
  <2>1. Pieces' = Pieces BY ImageKept
  <2>2. Loaded = j /\ Stage = "loading" BY <1>1 DEF Loaded, Stage
  <2>3. phase' \in {"too big", "read", "next"} BY DEF ReadSector
  <2>4. Loaded' = j + 1 /\ Stage' \in {"loading", "stopped"}
    BY <1>3, <2>3 DEF Loaded, Stage
  <2>5. memory' = Boot!With(memory, es + bx, OnDisk(chs))
    BY DEF ReadSector, WithSector, Boot!With
  <2> QED BY <1>2, <2>1, <2>2, <2>4, <2>5 DEF Boot!Load
<1>5. Loader(start)'
  <2>1. CASE phase' = "too big"
    BY <1>1, <1>3, <2>1 DEF Loader, Positions
  <2>2. CASE phase' # "too big"
    <3>1. /\ ax' = ax - 1 /\ phase' = (IF ax - 1 > 0 THEN "read" ELSE "next")
          /\ di' = di
      BY <2>2 DEF ReadSector
    <3>2. ASSUME es \in Int, bx \in Int
          PROVE  es' \in Int /\ bx' \in Int /\ es' + bx' = es + bx + SECTOR
      <4>1. CASE bx = OFFSETS - SECTOR
        <5>1. bx' = 0 /\ es' = es + OFFSETS BY <4>1 DEF ReadSector, Adjust
        <5> QED BY <3>2, <4>1, <5>1, Numbers
      <4>2. CASE bx # OFFSETS - SECTOR
        <5>1. bx' = bx + SECTOR /\ es' = es BY <4>2 DEF ReadSector, Adjust
        <5> QED BY <3>2, <5>1, Numbers
      <4> QED BY <4>1, <4>2
    <3>3. CASE di = 0 /\ ax = 1 /\ j = 1
      <4>1. phase' = "next" /\ di' = 3 * 0 BY <3>1, <3>3
      <4>2. 0 \in 0 .. n /\ SectorsBefore(chs)' = start[0 + 1]
        <5>1. start[1] = 2 /\ 0 + 1 = 1 BY DEF Layout
        <5> HIDE DEF j
        <5> QED BY <1>1, <1>3, <3>3, <5>1
      <4> QED BY <1>1, <1>3, <4>1, <4>2 DEF Loader, Positions
    <3>4. CASE \E i \in 1 .. n :
                 /\ di = 3 * i /\ ax \in 1 .. programs[i].size
                 /\ j = start[i] + programs[i].size - ax
                 /\ es \in Int /\ bx \in Int
                 /\ es + bx = Place(i) + (programs[i].size - ax) * SECTOR
      <4>1. PICK i \in 1 .. n :
              /\ di = 3 * i /\ ax \in 1 .. programs[i].size
              /\ j = start[i] + programs[i].size - ax
              /\ es \in Int /\ bx \in Int
              /\ es + bx = Place(i) + (programs[i].size - ax) * SECTOR
        BY <3>4
      <4>2. /\ programs[i].size \in Nat /\ start[i] \in Nat
            /\ start[i + 1] = start[i] + programs[i].size
            /\ programs'[i] = programs[i] /\ Place(i)' = Place(i) /\ Place(i) \in Nat
        <5>1. programs[i] \in [size : Sizes, addr : Addresses]
          BY ElementOfSeq DEF Image
        <5>2. i \in 1 .. n + 1 BY <1>1
        <5>3. programs[i].size \in Nat /\ Place(i) \in Nat
          BY <5>1, Numbers DEF Place
        <5>4. start[i] \in Nat /\ start[i + 1] = start[i] + programs[i].size
          BY <5>2 DEF Layout
        <5>5. programs'[i] = programs[i] /\ Place(i)' = Place(i)
          BY <1>1 DEF Place
        <5> QED BY <5>3, <5>4, <5>5
      <4> HIDE DEF j
      <4> DEFINE z == programs[i].size
      <4>3. /\ z \in Nat /\ ax \in 1 .. z /\ j = start[i] + z - ax
            /\ start[i + 1] = start[i] + z
            /\ es + bx = Place(i) + (z - ax) * SECTOR
        BY <4>1, <4>2
      <4>4. CASE ax = 1
        <5>1. phase' = "next" /\ di' = 3 * i BY <3>1, <4>1, <4>4
        <5>2. i \in 0 .. n /\ SectorsBefore(chs)' = start[i + 1]
          <6> HIDE DEF z
          <6> QED BY <1>1, <1>3, <4>2, <4>3, <4>4
        <5> QED BY <1>1, <1>3, <5>1, <5>2 DEF Loader, Positions
      <4>5. CASE ax # 1
        <5> HIDE DEF z
        <5>1. ax - 1 \in 1 .. z /\ ax - 1 > 0 BY <4>3, <4>5
        <5>2. phase' = "read" /\ di' = 3 * i /\ ax' = ax - 1
          BY <3>1, <4>1, <5>1
        <5>3. SectorsBefore(chs)' = start[i] + z - ax'
          <6>1. start[i] \in Nat /\ ax \in Nat BY <4>2, <4>3
          <6>2. j + 1 = start[i] + z - (ax - 1) BY <4>3, <6>1
          <6> QED BY <1>3, <5>2, <6>2
        <5>4. es' + bx' = Place(i) + (z - ax') * SECTOR
          <6>1. z - ax' = (z - ax) + 1 /\ z - ax \in Int BY <4>3, <5>2
          <6>2. \A x, y \in Int : (x + 1) * y = x * y + y /\ x * y \in Int
            OBVIOUS
          <6>3. /\ (z - ax') * SECTOR = (z - ax) * SECTOR + SECTOR
                /\ (z - ax) * SECTOR \in Int
            BY <6>1, <6>2, Numbers
          <6>4. es' + bx' = (es + bx) + SECTOR BY <3>2, <4>1
          <6> QED BY <4>2, <4>3, <6>3, <6>4, Numbers
        <5>5. /\ i \in 1 .. Len(programs') /\ programs'[i].size = z
              /\ Place(i)' = Place(i)
          BY <1>1, <4>2 DEF z
        <5>6. es' \in Int /\ bx' \in Int BY <3>2, <4>1
        <5> QED BY <1>1, <1>3, <5>1, <5>2, <5>3, <5>4, <5>5, <5>6 DEF Loader, Positions
      <4> QED BY <4>4, <4>5
    <3> QED BY <1>1, <3>3, <3>4 DEF Loader
  <2> QED BY <2>1, <2>2
<1> QED BY <1>4, <1>5

\* The table has an entry for each program, and a zero behind the last one.
LEMMA NextBlockStep ==
  ASSUME Image, NEW start, Layout(start), Loader(start), UNCHANGED buildvars,
         nextblock
  PROVE  Loader(start)' /\ (Boot!Run \/ UNCHANGED Boot!vars)
<1> DEFINE n == Len(programs)
<1>1. /\ phase = "next" /\ build = "built" /\ build' = "built" /\ chs \in Positions
      /\ chs' = chs /\ memory' = memory /\ SectorsBefore(chs)' = SectorsBefore(chs)
      /\ programs' = programs /\ n \in Nat /\ Pieces' = Pieces
  BY LenProperties, ImageKept
  DEF nextblock, Loader, buildvars, Positions, Image, SectorsBefore
<1>2. PICK i \in 0 .. n : di = 3 * i /\ SectorsBefore(chs) = start[i + 1]
  BY <1>1 DEF Loader
<1>3. Loaded = SectorsBefore(chs) /\ Stage = "loading" BY <1>1 DEF Loaded, Stage
<1>4. CASE i = n
  <2>1. TableWord(di) = 0 BY <1>1, <1>2, <1>4 DEF Image, TableWord
  <2>2. phase' = "running" BY <2>1 DEF nextblock
  <2>3. Loader(start)' BY <1>1, <2>2 DEF Loader, Positions
  <2>4. /\ Loaded = Len(Pieces) /\ Loaded' = Loaded /\ Stage' = "running"
    BY <1>1, <1>2, <1>3, <1>4, <2>2 DEF Loaded, Stage, Layout
  <2> QED BY <1>1, <1>3, <2>3, <2>4 DEF Boot!Run
<1>5. CASE i # n
  <2> DEFINE m == i + 1
  <2>1. /\ m \in 1 .. n /\ 3 * m - 3 = di /\ 3 * m - 2 = di + 1 /\ 3 * m - 1 = di + 2
        /\ di + 3 = 3 * m
    BY <1>1, <1>2, <1>5
  <2> HIDE DEF m
  <2>2. /\ TableWord(di) = programs[m].size
        /\ TableWord(di + 1) = programs[m].addr.segment
        /\ TableWord(di + 2) = programs[m].addr.offset
    BY <2>1 DEF Image
  <2>3. programs[m] \in [size : Sizes, addr : Addresses]
    BY <2>1, ElementOfSeq DEF Image
  <2>4. /\ programs[m].size \in Nat /\ programs[m].size >= 1
        /\ programs[m].addr.segment \in Nat /\ programs[m].addr.offset \in Nat
    BY <2>3, Numbers
  <2>5. /\ phase' = "read" /\ ax' = programs[m].size /\ di' = 3 * m
        /\ es' = programs[m].addr.segment /\ bx' = programs[m].addr.offset
    BY <2>1, <2>2, <2>4 DEF nextblock
  <2>6. Loader(start)'
    <3>1. /\ programs[m].size - ax' = 0 /\ ax' \in 1 .. programs[m].size
      BY <2>4, <2>5
    <3>2. es' + bx' = Place(m) + (programs[m].size - ax') * SECTOR
          /\ es' \in Int /\ bx' \in Int /\ Place(m)' = Place(m)
      <4>1. 0 * SECTOR = 0 BY Numbers
      <4> QED BY <1>1, <2>4, <2>5, <3>1, <4>1 DEF Place
    <3>3. SectorsBefore(chs)' = start[m] + programs[m].size - ax'
      <4>1. m \in 1 .. n + 1 BY <1>1, <2>1
      <4>2. start[m] \in Nat BY <4>1 DEF Layout
      <4> QED BY <1>1, <1>2, <2>4, <2>5, <4>2 DEF m
    <3>4. /\ m \in 1 .. Len(programs') /\ di' = 3 * m /\ ax' \in 1 .. programs'[m].size
          /\ SectorsBefore(chs)' = start[m] + programs'[m].size - ax'
          /\ es' \in Int /\ bx' \in Int
          /\ es' + bx' = Place(m)' + (programs'[m].size - ax') * SECTOR
      BY <1>1, <2>1, <2>5, <3>1, <3>2, <3>3
    <3> QED BY <1>1, <2>5, <3>4 DEF Loader, Positions
  <2>7. UNCHANGED Boot!vars
    BY <1>1, <1>3, <2>5 DEF Boot!vars, Loaded, Stage
  <2> QED BY <2>6, <2>7
<1> QED BY <1>4, <1>5

\* The boot sector is the first piece: PowerOn and, over a running system,
\* disk_done.
LEMMA BootSectorIsLoad ==
  ASSUME Image, NEW start, Layout(start), Loader(start), UNCHANGED buildvars,
         PowerOn \/ disk_done
  PROVE  Loader(start)' /\ Boot!Load
<1>1. /\ phase \in {"off", "disk_read"} /\ phase' = "boot" /\ build = "built"
      /\ build' = "built" /\ BootSector
      /\ chs' = [cyl |-> 0, head |-> 0, sec |-> 2]
  BY DEF PowerOn, disk_done, BootSector, Loader, buildvars
<1> DEFINE first == [cyl |-> 0, head |-> 0, sec |-> 1]
<1>2. /\ chs' \in Positions /\ SectorsBefore(chs)' = 1 /\ SectorsBefore(first) = 0
  <2>1. 0 * max_head = 0 /\ 0 * (max_sec - 1) = 0 BY Numbers
  <2>2. /\ 2 \in 1 .. max_sec - 1 /\ 0 \in 0 .. max_head - 1 BY Numbers
  <2> QED BY <1>1, <2>1, <2>2 DEF SectorsBefore, Positions
<1>3. Loader(start)' BY <1>1, <1>2 DEF Loader, Positions
<1>4. OnDisk(first) = <<0, 1>>
  <2>1. 1 \in 1 .. Len(Pieces) /\ Len(out) = Len(Pieces) /\ Len(Pieces) \in Nat
        /\ Len(Pieces) >= 2
        /\ out[1] = Pieces[1].what /\ Pieces[1].what = <<0, 1>>
    <3>1. Len(Pieces) \in Nat /\ Len(Pieces) >= 2 BY LenProperties DEF Image
    <3> QED BY <1>1, <3>1 DEF Image
  <2> QED BY <1>2, <2>1 DEF OnDisk
<1>5. Boot!Load
  <2>1. Pieces' = Pieces BY ImageKept
  <2>2. Loaded = 0 /\ Stage \in {"off", "loading"} /\ Loaded' = 1 /\ Stage' = "loading"
    BY <1>1, <1>2 DEF Loaded, Stage
  <2>3. /\ 0 < Len(Pieces) /\ Pieces[1].at = BOOT /\ Pieces[1].what = <<0, 1>>
    BY LenProperties DEF Image
  <2>4. memory' = Boot!With(memory, BOOT, <<0, 1>>)
    BY <1>1, <1>4 DEF BootSector, WithSector, Boot!With
  <2> QED BY <2>1, <2>2, <2>3, <2>4 DEF Boot!Load
<1> QED BY <1>3, <1>5

\* The other steps: retries, giving up, and the way to a new boot.
LEMMA OtherSteps ==
  ASSUME Image, NEW start, Layout(start), Loader(start), UNCHANGED buildvars,
         begtext \/ ReadFails \/ Hotswap \/ disk_reset \/ disk_fail
  PROVE  /\ Loader(start)'
         /\ Boot!Stop \/ Boot!BootAgain \/ UNCHANGED Boot!vars
<1>1. /\ chs' = chs /\ SectorsBefore(chs)' = SectorsBefore(chs) /\ Pieces' = Pieces
      /\ programs' = programs /\ build' = build /\ chs \in Positions
      /\ \A i : Place(i)' = Place(i)
  BY ImageKept
  DEF begtext, ReadFails, Hotswap, disk_reset, disk_fail, SectorsBefore,
      buildvars, Loader, Positions, Place
<1>2. CASE begtext
  <2>1. CASE phase' = "not ready"
    <3>1. /\ Loaded' = Loaded /\ Stage' = "stopped" /\ memory' = memory
      BY <1>1, <1>2, <2>1 DEF begtext, Loaded, Stage
    <3>2. Boot!Stop BY <1>1, <3>1 DEF Boot!Stop
    <3>3. Loader(start)' BY <1>1, <1>2, <2>1 DEF begtext, Loader, Positions
    <3> QED BY <3>2, <3>3
  <2>2. CASE phase' = "read" /\ ax' = 1 /\ es' = 0 /\ bx' = BOOT + SECTOR /\ di' = 0
    <3>1. UNCHANGED Boot!vars
      BY <1>1, <1>2, <2>2 DEF begtext, Loaded, Stage, Boot!vars
    <3>2. SectorsBefore(chs) = 1 /\ build = "built" BY <1>2 DEF begtext, Loader
    <3>3. es' \in Int /\ bx' \in Int /\ es' + bx' = BOOT + SECTOR
      BY <2>2, Numbers
    <3>4. Loader(start)' BY <1>1, <2>2, <3>2, <3>3 DEF Loader, Positions
    <3> QED BY <3>1, <3>4
  <2> QED BY <1>2, <2>1, <2>2 DEF begtext
<1>3. CASE ReadFails
  <2>1. phase = "read" /\ phase' \in {"failed", "read"} /\ memory' = memory
        /\ UNCHANGED <<di, ax, es, bx>>
    BY <1>3 DEF ReadFails, Reading
  <2>2. Loader(start)' BY <1>1, <2>1 DEF Loader, Positions
  <2>3. CASE phase' = "failed"
    BY <1>1, <2>1, <2>2, <2>3 DEF Boot!Stop, Loaded, Stage
  <2>4. CASE phase' = "read"
    BY <1>1, <2>1, <2>2, <2>4 DEF Boot!vars, Loaded, Stage
  <2> QED BY <2>1, <2>3, <2>4
<1>4. CASE Hotswap
  <2>1. phase = "running" /\ phase' = "prompt"
        /\ memory' = [a \in Memory |-> Old] /\ Old = Boot!Old
    BY <1>4 DEF Hotswap, Old, Boot!Old
  <2>2. Loader(start)' BY <1>1, <2>1 DEF Loader, Positions
  <2>3. Boot!BootAgain BY <1>1, <2>1 DEF Boot!BootAgain, Loaded, Stage
  <2> QED BY <2>2, <2>3
<1>5. CASE disk_reset \/ disk_fail
  <2>1. phase \in {"prompt", "disk_read"} /\ phase' \in {"prompt", "disk_read"}
        /\ memory' = memory
    BY <1>5 DEF disk_reset, disk_fail
  <2>2. Loader(start)' BY <1>1, <2>1 DEF Loader, Positions
  <2>3. UNCHANGED Boot!vars BY <1>1, <2>1 DEF Boot!vars, Loaded, Stage
  <2> QED BY <2>2, <2>3
<1> QED BY <1>2, <1>3, <1>4, <1>5

\* BuildImage only adds to the image, and is done before the power is on.
LEMMA BuildSteps ==
  ASSUME Image, NEW start, Layout(start), Loader(start), UNCHANGED bootvars,
         (\E size \in Sizes, a \in Addresses : process_file(size, a)) \/ Finish
  PROVE  IInv' /\ (Boot!Edit \/ UNCHANGED Boot!vars)
<1>1. /\ UNCHANGED <<phase, memory, chs>> /\ phase = "off"
  BY DEF bootvars, process_file, Finish, Loader
<1>2. /\ Loaded = 0 /\ Loaded' = 0 /\ Stage = "off" /\ Stage' = "off"
  BY <1>1 DEF Loaded, Stage
<1>3. \A s : Loader(s)'
  BY <1>1 DEF Loader, Positions
<1>4. CASE \E size \in Sizes, a \in Addresses : process_file(size, a)
  <2>1. Image' /\ (\E s : Layout(s)') /\ IsPrefix(Pieces, Pieces')
    BY <1>4, ProcessFile
  <2>2. Boot!Edit BY <1>1, <1>2, <2>1 DEF Boot!Edit, IsPrefix, Boot!IsPrefix
  <2> QED BY <1>3, <2>1, <2>2 DEF IInv
<1>5. CASE Finish
  <2>1. UNCHANGED <<programs, out, info>> /\ build = "open"
        /\ build' \in {"built", "quit"}
    BY <1>5 DEF Finish
  <2>2. Pieces' = Pieces BY <2>1 DEF Pieces
  <2>3. Image'
    <3>1. \A d : TableWord(d)' = TableWord(d) BY <2>1 DEF TableWord
    <3> QED BY <2>1, <2>2, <3>1 DEF Image
  <2>4. Layout(start)'
    <3>1. \A i : Place(i)' = Place(i) BY <2>1 DEF Place
    <3> QED BY <2>1, <2>2, <3>1 DEF Layout
  <2>5. UNCHANGED Boot!vars BY <1>1, <1>2, <2>2 DEF Boot!vars
  <2> QED BY <1>3, <2>3, <2>4, <2>5 DEF IInv
<1> QED BY <1>4, <1>5

-----------------------------------------------------------------------------
(* The theorem *)

LEMMA NextInv == IInv /\ [Next]_allvars => IInv' /\ [Boot!Next]_(Boot!vars)
<1> SUFFICES ASSUME IInv, [Next]_allvars PROVE IInv' /\ [Boot!Next]_(Boot!vars)
  OBVIOUS
<1>1. PICK start : Layout(start) /\ Loader(start)
  BY DEF IInv
<1>2. Image BY DEF IInv
<1>3. CASE UNCHANGED allvars
  <2>1. UNCHANGED buildvars /\ UNCHANGED <<phase, di, ax, es, bx, chs, memory>>
    BY <1>3 DEF allvars, bootvars, regs
  <2>2. /\ Image' /\ Layout(start)' /\ Pieces' = Pieces
    BY <1>1, <1>2, <2>1, ImageKept
  <2>3. Loader(start)'
    <3>1. \A i : Place(i)' = Place(i) BY <2>1 DEF Place, buildvars
    <3>2. SectorsBefore(chs)' = SectorsBefore(chs) BY <2>1 DEF SectorsBefore
    <3>3. programs' = programs /\ build' = build BY <2>1 DEF buildvars
    <3> QED BY <1>1, <2>1, <3>1, <3>2, <3>3 DEF Loader
  <2>4. UNCHANGED Boot!vars BY <2>1, <2>2 DEF Boot!vars, Loaded, Stage, SectorsBefore
  <2> QED BY <2>2, <2>3, <2>4 DEF IInv
<1>4. CASE /\ \/ \E size \in Sizes, a \in Addresses : process_file(size, a)
              \/ Finish
           /\ UNCHANGED bootvars
  BY <1>1, <1>2, <1>4, BuildSteps DEF Boot!Next
<1>5. CASE /\ PowerOn \/ LoaderStep \/ Hotswap \/ disk_reset \/ disk_done
              \/ disk_fail
           /\ UNCHANGED buildvars
  <2>1. Image' /\ Layout(start)' BY <1>1, <1>2, <1>5, ImageKept
  <2>2. CASE ReadSector
    BY <1>1, <1>2, <1>5, <2>1, <2>2, ReadIsLoad DEF IInv, Boot!Next
  <2>3. CASE nextblock
    BY <1>1, <1>2, <1>5, <2>1, <2>3, NextBlockStep DEF IInv, Boot!Next
  <2>4. CASE PowerOn \/ disk_done
    BY <1>1, <1>2, <1>5, <2>1, <2>4, BootSectorIsLoad DEF IInv, Boot!Next
  <2>5. CASE begtext \/ ReadFails \/ Hotswap \/ disk_reset \/ disk_fail
    BY <1>1, <1>2, <1>5, <2>1, <2>5, OtherSteps DEF IInv, Boot!Next
  <2> QED BY <1>5, <2>2, <2>3, <2>4, <2>5 DEF LoaderStep
<1> QED BY <1>3, <1>4, <1>5 DEF Next

\* No program is in memory yet, and both sectors of the boot file fit there.
LEMMA InitRefined == Init => Boot!Init
<1> SUFFICES ASSUME Init PROVE Boot!Init
  OBVIOUS
<1>1. /\ programs = <<>> /\ phase = "off" /\ memory = [a \in Memory |-> Old]
  BY DEF Init, BInit
<1>2. Pieces \in Seq([at : Memory, what : Nat \X Nat])
  <2>1. Image BY InitInv DEF IInv
  <2>2. Pieces \in Seq(Piece) /\ Len(Pieces) = 2
    <3>1. PICK start : Layout(start) BY InitInv DEF IInv
    <3>2. Len(programs) = 0 /\ 0 + 1 = 1 BY <1>1
    <3>3. Len(Pieces) = start[1] /\ start[1] = 2 BY <3>1, <3>2 DEF Layout
    <3> QED BY <2>1, <3>3 DEF Image
  <2>3. /\ Pieces[1] \in [at : Memory, what : Nat \X Nat]
        /\ Pieces[2] \in [at : Memory, what : Nat \X Nat]
    BY <2>1, Numbers DEF Image
  <2>4. \A S, T : \A s \in Seq(S) :
          (Len(s) = 2 /\ s[1] \in T /\ s[2] \in T) => s \in Seq(T)
    <3> SUFFICES ASSUME NEW S, NEW T, NEW s \in Seq(S),
                        Len(s) = 2, s[1] \in T, s[2] \in T
                 PROVE  s \in Seq(T)
      OBVIOUS
    <3>1. s = [i \in 1 .. 2 |-> s[i]] BY LenProperties
    <3>2. \A i \in 1 .. 2 : s[i] \in T
      <4>1. \A i \in 1 .. 2 : i = 1 \/ i = 2 OBVIOUS
      <4> QED BY <4>1
    <3>3. s \in [1 .. 2 -> T] BY <3>1, <3>2
    <3>4. \A m \in Nat : \A f \in [1 .. m -> T] : f \in Seq(T) OBVIOUS
    <3> QED BY <3>3, <3>4
  <2> QED BY <2>2, <2>3, <2>4
<1>3. Loaded = 0 /\ Stage = "off" BY <1>1 DEF Loaded, Stage
<1>4. memory \in [Memory -> {Boot!Old}] BY <1>1 DEF Old, Boot!Old
<1> QED BY <1>2, <1>3, <1>4 DEF Boot!Init

\* Through retries, the end of 64K, of a track and of a head, with programs of
\* any lengths at any addresses, the loader puts every sector of the image where
\* BuildImage was told to put it and writes nothing else, and the system is
\* started only when all of them are in memory, at the first boot as after a hot
\* swap.
THEOREM BootImplemented == Spec => ImplementsBoot
<1>1. Init => IInv /\ Boot!Init
  BY InitInv, InitRefined
<1>2. IInv /\ [Next]_allvars => IInv' /\ [Boot!Next]_(Boot!vars)
  BY NextInv
<1> QED BY <1>1, <1>2, PTL DEF Spec, ImplementsBoot, Boot!Spec
-----------------------------------------------------------------------------
(* What is stored in memory *)

\* What a place holds after the stores.
Untouched(puts, a) == \A i \in DOMAIN puts : ~Covers(puts[i], a)
Final(puts, a, v) ==
  \E i \in DOMAIN puts :
    /\ Covers(puts[i], a) /\ v = puts[i].bytes[a - puts[i].addr + 1]
    /\ \A j \in DOMAIN puts : Covers(puts[j], a) => j <= i

\* The greatest element.
LEMMA MaxIs ==
  ASSUME NEW N \in Nat, NEW S, S \subseteq 0 .. N, S # {}
  PROVE  Max(S) \in S /\ \A i \in S : i <= Max(S)
<1>1. PICK m \in S : \A i \in S : m >= i BY GreatestIn
<1>2. Max(S) \in S /\ \A i \in S : Max(S) >= i BY <1>1 DEF Max
<1> QED BY <1>2

LEMMA StoredFacts ==
  ASSUME NEW m, NEW base, NEW puts, NEW b \in DOMAIN m,
         Len(puts) \in Nat, DOMAIN puts = 1 .. Len(puts)
  PROVE  /\ DOMAIN Stored(m, base, puts) = DOMAIN m
         /\ Untouched(puts, b - base) => Stored(m, base, puts)[b] = m[b]
         /\ \A v : Final(puts, b - base, v) => Stored(m, base, puts)[b] = v
         /\ Untouched(puts, b - base) \/ \E v : Final(puts, b - base, v)
<1> DEFINE a == b - base
           over == {i \in DOMAIN puts : Covers(puts[i], a)}
           last == puts[Max(over)]
<1>1. /\ DOMAIN Stored(m, base, puts) = DOMAIN m
      /\ Stored(m, base, puts)[b] = IF over = {} THEN m[b]
                                    ELSE last.bytes[a - last.addr + 1]
  BY DEF Stored
<1>2. over \subseteq 1 .. Len(puts) /\ (over = {} <=> Untouched(puts, a))
  BY DEF Untouched
<1>3. over # {} => Max(over) \in over /\ \A i \in over : i <= Max(over)
  <2>1. over \subseteq 0 .. Len(puts) BY <1>2
  <2> QED BY <2>1, MaxIs
<1>4. ASSUME NEW v, Final(puts, a, v) PROVE Stored(m, base, puts)[b] = v
  <2>1. PICK i \in over : /\ v = puts[i].bytes[a - puts[i].addr + 1]
                          /\ \A j \in over : j <= i
    BY <1>4 DEF Final
  <2>2. over # {} /\ Max(over) \in over /\ i <= Max(over) /\ Max(over) <= i
    BY <1>3, <2>1
  <2>3. i \in Int /\ Max(over) \in Int BY <1>2, <2>1, <2>2
  <2>4. Max(over) = i BY <2>2, <2>3
  <2> HIDE DEF over
  <2> QED BY <1>1, <2>1, <2>2, <2>4
<1>5. over # {} => Final(puts, a, last.bytes[a - last.addr + 1])
  BY <1>3 DEF Final
<1> HIDE DEF over, last, a
<1>6. over = {} => Stored(m, base, puts)[b] = m[b] BY <1>1
<1> QED BY <1>1, <1>2, <1>4, <1>5, <1>6 DEF a

\* Stores in a row: the later ones count.
LEMMA LaterPuts ==
  ASSUME NEW S, NEW s \in Seq(S), NEW t \in Seq(S), NEW a
  PROVE  /\ s \o t \in Seq(S)
         /\ Untouched(s, a) /\ Untouched(t, a) => Untouched(s \o t, a)
         /\ \A v : Final(t, a, v) => Final(s \o t, a, v)
         /\ \A v : Final(s, a, v) /\ Untouched(t, a) => Final(s \o t, a, v)
<1> DEFINE u == s \o t
           M == Len(s)
           N == Len(t)
<1>1. /\ M \in Nat /\ N \in Nat /\ u \in Seq(S)
      /\ DOMAIN s = 1 .. M /\ DOMAIN t = 1 .. N /\ DOMAIN u = 1 .. M + N
  OBVIOUS
<1>2. /\ \A i \in 1 .. M : u[i] = s[i] /\ i \in 1 .. M + N
      /\ \A i \in 1 .. N : u[M + i] = t[i] /\ M + i \in 1 .. M + N
  BY <1>1
<1>3. \A j \in 1 .. M + N : j \in 1 .. M \/ (j - M \in 1 .. N /\ j = M + (j - M))
  BY <1>1
<1> HIDE DEF u, M, N
<1>4. \A j \in 1 .. M + N :
        \/ j \in 1 .. M /\ u[j] = s[j]
        \/ j - M \in 1 .. N /\ u[j] = t[j - M]
  BY <1>2, <1>3
<1>5. Untouched(s, a) /\ Untouched(t, a) => Untouched(u, a)
  BY <1>1, <1>4 DEF Untouched
<1>6. ASSUME NEW v, Final(t, a, v) PROVE Final(u, a, v)
  <2>1. PICK i \in 1 .. N : /\ Covers(t[i], a) /\ v = t[i].bytes[a - t[i].addr + 1]
                            /\ \A j \in 1 .. N : Covers(t[j], a) => j <= i
    BY <1>1, <1>6 DEF Final
  <2>2. M + i \in 1 .. M + N /\ u[M + i] = t[i] BY <1>2
  <2>3. ASSUME NEW j \in 1 .. M + N, Covers(u[j], a) PROVE j <= M + i
    <3>1. CASE j \in 1 .. M BY <1>1, <3>1
    <3>2. CASE j - M \in 1 .. N /\ u[j] = t[j - M]
      <4>1. j - M <= i BY <2>1, <2>3, <3>2
      <4> QED BY <1>1, <4>1
    <3> QED BY <1>4, <3>1, <3>2
  <2> QED BY <1>1, <2>1, <2>2, <2>3 DEF Final
<1>7. ASSUME NEW v, Final(s, a, v), Untouched(t, a) PROVE Final(u, a, v)
  <2>1. PICK i \in 1 .. M : /\ Covers(s[i], a) /\ v = s[i].bytes[a - s[i].addr + 1]
                            /\ \A j \in 1 .. M : Covers(s[j], a) => j <= i
    BY <1>1, <1>7 DEF Final
  <2>2. i \in 1 .. M + N /\ u[i] = s[i] BY <1>2
  <2>3. ASSUME NEW j \in 1 .. M + N, Covers(u[j], a) PROVE j <= i
    <3>1. CASE j \in 1 .. M /\ u[j] = s[j] BY <2>1, <2>3, <3>1
    <3>2. CASE j - M \in 1 .. N /\ u[j] = t[j - M]
      BY <1>1, <1>7, <2>3, <3>2 DEF Untouched
    <3> QED BY <1>4, <3>1, <3>2
  <2> QED BY <1>1, <2>1, <2>2, <2>3 DEF Final
<1> QED BY <1>1, <1>5, <1>6, <1>7 DEF u
-----------------------------------------------------------------------------
(* Types *)

\* The images that are ever loaded, and what a byte may hold.
Runnable == {i \in DOMAIN Images : Images[i].valid \/ i = 0}
Contents == {Nul, Left} \cup {Char(c) : c \in STRING}
              \cup {FileByte(i, k) : i \in Runnable, k \in Nat}
              \cup {<<"word", v, k>> : v \in Int, k \in Nat}
Puts == [addr : Int, bytes : Seq(Contents)]

LEMMA ContentsFacts ==
  /\ Nul \in Contents /\ Left \in Contents
  /\ \A c \in STRING : Char(c) \in Contents
  /\ \A i \in Runnable, k \in Nat : FileByte(i, k) \in Contents
  /\ \A v \in Int, k \in Nat : <<"word", v, k>> \in Contents
  /\ \A v \in Contents : v[1] = "file" => v[2] \in Runnable
<1>1. /\ Nul \in Contents /\ Left \in Contents
      /\ \A c \in STRING : Char(c) \in Contents
      /\ \A i \in Runnable, k \in Nat : FileByte(i, k) \in Contents
      /\ \A v \in Int, k \in Nat : <<"word", v, k>> \in Contents
  BY DEF Contents
<1>2. ASSUME NEW v \in Contents, v[1] = "file" PROVE v[2] \in Runnable
  <2>1. CASE v \in {Nul, Left}
    <3>1. v = <<"nul">> \/ v = <<"left over">> BY <2>1 DEF Nul, Left
    <3>2. ASSUME v = <<"nul">> PROVE FALSE
      <4>1. v[1] = "nul" BY <3>2
      <4> QED BY <1>2, <4>1
    <3>3. ASSUME v = <<"left over">> PROVE FALSE
      <4>1. v[1] = "left over" BY <3>3
      <4> QED BY <1>2, <4>1
    <3> QED BY <3>1, <3>2, <3>3
  <2>2. CASE v \in {Char(c) : c \in STRING} BY <1>2, <2>2 DEF Char
  <2>3. CASE v \in {FileByte(i, k) : i \in Runnable, k \in Nat}
    BY <2>3 DEF FileByte
  <2>4. CASE v \in {<<"word", w, k>> : w \in Int, k \in Nat}
    <3>1. PICK w \in Int, k \in Nat : v = <<"word", w, k>> BY <2>4
    <3>2. v[1] = "word" BY <3>1
    <3> QED BY <1>2, <3>2
  <2> QED BY <2>1, <2>2, <2>3, <2>4 DEF Contents
<1> QED BY <1>1, <1>2

LEMMA MachineSizes ==
  /\ WORD \in Nat /\ WORD >= 2 /\ LOW \in Nat \ {0} /\ MID \in Nat \ {0}
  /\ PAGE \in Nat \ {0} /\ N_OFFSETS \in Nat /\ EXIT \in Nat \ {0}
  /\ STACK \in Nat /\ CONTEXT \in Nat /\ SEGMENT_SIZE \in Nat /\ MEMORY \in Nat
  /\ STACK < SEGMENT_SIZE /\ SEGMENT_SIZE <= LOW * PAGE
  /\ \A s \in Segments : s \in Nat /\ 0 < s /\ s + SEGMENT_SIZE <= MEMORY
BY ExecveAssumption

LEMMA ZerosFacts ==
  ASSUME NEW n \in Int
  PROVE  /\ Zeros(n) \in Seq(Contents)
         /\ DOMAIN Zeros(n) = 1 .. n /\ \A k \in 1 .. n : Zeros(n)[k] = Nul
<1>1. DOMAIN Zeros(n) = 1 .. n /\ \A k \in 1 .. n : Zeros(n)[k] = Nul BY DEF Zeros
<1>2. CASE n \in Nat BY <1>1, <1>2, ContentsFacts DEF Zeros
<1>3. CASE n \notin Nat
  <2>1. 1 .. n = {} /\ 1 .. 0 = {} BY <1>3
  <2>2. Zeros(n) = <<>> BY <2>1 DEF Zeros
  <2> QED BY <1>1, <2>2
<1> QED BY <1>1, <1>2, <1>3

LEMMA WordFacts ==
  ASSUME NEW v \in Int
  PROVE  Word(v) \in Seq(Contents) /\ DOMAIN Word(v) = 1 .. WORD
<1>1. \A k \in 1 .. WORD : (IF v = 0 THEN Nul ELSE <<"word", v, k>>) \in Contents
  BY ContentsFacts
<1> QED BY <1>1, MachineSizes DEF Word

LEMMA BytesFacts ==
  ASSUME NEW string \in Seq(STRING)
  PROVE  /\ Bytes(string) \in Seq(Contents)
         /\ DOMAIN Bytes(string) = 1 .. Len(string) + 1
         /\ \A k \in 1 .. Len(string) : Bytes(string)[k] = Char(string[k])
         /\ Bytes(string)[Len(string) + 1] = Nul
<1>1. Len(string) \in Nat /\ \A k \in 1 .. Len(string) : string[k] \in STRING
  OBVIOUS
<1>2. \A k \in 1 .. Len(string) + 1 :
        (IF k > Len(string) THEN Nul ELSE Char(string[k])) \in Contents
  <2> SUFFICES ASSUME NEW k \in 1 .. Len(string) + 1
               PROVE  (IF k > Len(string) THEN Nul ELSE Char(string[k])) \in Contents
    OBVIOUS
  <2>1. CASE k > Len(string) BY <2>1, ContentsFacts
  <2>2. CASE ~(k > Len(string))
    <3>1. string[k] \in STRING BY <1>1, <2>2
    <3> QED BY <2>2, <3>1, ContentsFacts
  <2> QED BY <2>1, <2>2
<1> QED BY <1>1, <1>2 DEF Bytes

LEMMA PutFacts ==
  ASSUME NEW addr \in Int, NEW bytes \in Seq(Contents)
  PROVE  /\ Put(addr, bytes) \in Puts
         /\ Put(addr, bytes).addr = addr /\ Put(addr, bytes).bytes = bytes
         /\ \A a \in Int : Covers(Put(addr, bytes), a)
                             <=> a >= addr /\ a < addr + Len(bytes)
<1>1. /\ Put(addr, bytes) \in Puts
      /\ Put(addr, bytes).addr = addr /\ Put(addr, bytes).bytes = bytes
  BY DEF Put, Puts
<1>2. DOMAIN bytes = 1 .. Len(bytes) /\ Len(bytes) \in Nat OBVIOUS
<1> QED BY <1>1, <1>2 DEF Covers

LEMMA StoredTyped ==
  ASSUME NEW D, D \subseteq Int, NEW m \in [D -> Contents], NEW base \in Int,
         NEW puts \in Seq(Puts)
  PROVE  Stored(m, base, puts) \in [D -> Contents]
<1>1. Len(puts) \in Nat /\ DOMAIN puts = 1 .. Len(puts) OBVIOUS
<1>2. Stored(m, base, puts) = [b \in D |-> Stored(m, base, puts)[b]]
  BY DEF Stored
<1>3. ASSUME NEW b \in D PROVE Stored(m, base, puts)[b] \in Contents
  <2>1. CASE Untouched(puts, b - base) BY <1>1, <2>1, StoredFacts
  <2>2. ASSUME NEW v, Final(puts, b - base, v) PROVE Stored(m, base, puts)[b] \in Contents
    <3>1. Stored(m, base, puts)[b] = v BY <1>1, <2>2, StoredFacts
    <3>2. PICK i \in DOMAIN puts :
             Covers(puts[i], b - base) /\ v = puts[i].bytes[b - base - puts[i].addr + 1]
      BY <2>2 DEF Final
    <3>3. puts[i] \in Puts BY <1>1
    <3>4. puts[i].bytes \in Seq(Contents) BY <3>3 DEF Puts
    <3>5. b - base - puts[i].addr + 1 \in DOMAIN puts[i].bytes BY <3>2 DEF Covers
    <3>6. \A S, q \in Seq(Contents) : S \in DOMAIN q => q[S] \in Contents OBVIOUS
    <3> QED BY <3>1, <3>2, <3>4, <3>5, <3>6
  <2> QED BY <1>1, <2>1, <2>2, StoredFacts
<1> QED BY <1>2, <1>3

\* One store.
LEMMA OnePut ==
  ASSUME NEW put \in Puts, NEW a \in Int
  PROVE  /\ <<put>> \in Seq(Puts)
         /\ ~Covers(put, a) => Untouched(<<put>>, a)
         /\ Covers(put, a) => Final(<<put>>, a, put.bytes[a - put.addr + 1])
<1>1. DOMAIN <<put>> = {1} /\ <<put>>[1] = put /\ <<put>> \in Seq(Puts) OBVIOUS
<1> QED BY <1>1 DEF Untouched, Final
-----------------------------------------------------------------------------
(* The new stack *)

\* Products with the size of a word.
LEMMA Products ==
  /\ \A a, b \in Int : a <= b => WORD * a <= WORD * b
  /\ \A a \in Int : WORD * a \in Int /\ WORD * (a - 1) = WORD * a - WORD
  /\ \A a \in Nat : a > 0 => WORD * a >= a + 1
  /\ \A a \in Nat : WORD * a >= a
  /\ WORD * 0 = 0
<1>1. WORD \in Nat /\ WORD >= 2 BY MachineSizes
<1>2. ASSUME NEW a \in Int, NEW b \in Int, a <= b PROVE WORD * a <= WORD * b
  <2>1. (b - a) \in Nat BY <1>2
  <2>2. WORD * (b - a) >= 0 BY <1>1, <2>1
  <2> QED BY <1>1, <2>2
<1>3. \A a \in Int : WORD * a \in Int /\ WORD * (a - 1) = WORD * a - WORD BY <1>1
<1>4. ASSUME NEW a \in Nat PROVE WORD * a >= 2 * a
  <2>1. (WORD - 2) * a >= 0 BY <1>1
  <2> QED BY <1>1, <2>1
<1> QED BY <1>1, <1>2, <1>3, <1>4

\* Words one after the other.
LEMMA WordsFacts ==
  ASSUME NEW addr \in Int, NEW words \in Seq(Int)
  PROVE  /\ Words(addr, words) \in Seq(Puts)
         /\ \A a \in Int : a < addr \/ a >= addr + WORD * Len(words)
                             => Untouched(Words(addr, words), a)
         /\ \A i \in 1 .. Len(words), k \in 1 .. WORD :
              Final(Words(addr, words), addr + WORD * (i - 1) + k - 1, Word(words[i])[k])
<1> DEFINE n == Len(words)
           puts == Words(addr, words)
           at_(i) == addr + WORD * (i - 1)
<1>1. n \in Nat /\ DOMAIN words = 1 .. n /\ \A i \in 1 .. n : words[i] \in Int
  OBVIOUS
<1>2. \A i \in 1 .. n : at_(i) \in Int /\ Word(words[i]) \in Seq(Contents)
                        /\ Len(Word(words[i])) = WORD
  BY <1>1, Products, WordFacts, MachineSizes
<1>3. DOMAIN puts = 1 .. n /\ \A i \in 1 .. n : puts[i] = Put(at_(i), Word(words[i]))
  BY <1>1 DEF Words
<1>4. ASSUME NEW i \in 1 .. n
      PROVE  /\ puts[i] \in Puts
             /\ puts[i].addr = at_(i) /\ puts[i].bytes = Word(words[i])
             /\ \A a \in Int : Covers(puts[i], a) <=> a >= at_(i) /\ a < at_(i) + WORD
  <2> HIDE DEF at_
  <2> QED BY <1>2, <1>3, PutFacts
<1>5. puts \in Seq(Puts)
  <2>1. puts = [i \in 1 .. n |-> puts[i]] BY <1>1 DEF Words
  <2> QED BY <1>1, <1>4, <2>1
<1>6. \A i \in 1 .. n : at_(i) >= addr /\ at_(i) + WORD <= addr + WORD * n
  <2>1. \A i \in 1 .. n : WORD * (i - 1) >= 0 /\ WORD * i <= WORD * n
    <3>1. \A i \in 1 .. n : i \in Int /\ 1 <= i /\ i <= n /\ i - 1 \in Nat BY <1>1
    <3> QED BY <1>1, <3>1, Products
  <2>2. \A i \in 1 .. n : WORD * (i - 1) = WORD * i - WORD /\ WORD * i \in Int
    BY Products
  <2> QED BY <1>1, <2>1, <2>2, MachineSizes, Products
<1>7. \A i, j \in 1 .. n : i < j => at_(i) + WORD <= at_(j)
  <2>1. \A i, j \in 1 .. n : i < j => WORD * i <= WORD * (j - 1)
    BY <1>1, Products
  <2>2. \A i \in 1 .. n : /\ WORD * (i - 1) = WORD * i - WORD /\ WORD * i \in Int
                          /\ WORD * (i - 1) \in Int
    BY Products
  <2> QED BY <1>1, <2>1, <2>2, MachineSizes
<1> HIDE DEF at_, puts
<1>8. \A a \in Int : a < addr \/ a >= addr + WORD * n => Untouched(puts, a)
  BY <1>2, <1>3, <1>4, <1>6, Products, MachineSizes DEF Untouched
<1>9. ASSUME NEW i \in 1 .. n, NEW k \in 1 .. WORD
      PROVE  Final(puts, at_(i) + k - 1, Word(words[i])[k])
  <2> DEFINE a == at_(i) + k - 1
  <2>1. a \in Int /\ a >= at_(i) /\ a < at_(i) + WORD /\ a - at_(i) + 1 = k
    BY <1>2, MachineSizes
  <2>2. Covers(puts[i], a) BY <1>4, <2>1
  <2>3. ASSUME NEW j \in 1 .. n, Covers(puts[j], a) PROVE j <= i
    <3>1. a >= at_(j) /\ at_(j) \in Int BY <1>2, <1>4, <2>1, <2>3
    <3>2. ~(i < j) BY <1>2, <1>7, <2>1, <3>1, MachineSizes
    <3> QED BY <1>1, <3>2
  <2>4. puts[i].bytes[a - puts[i].addr + 1] = Word(words[i])[k] BY <1>4, <2>1
  <2> HIDE DEF a
  <2>5. Final(puts, a, Word(words[i])[k]) BY <1>3, <2>2, <2>3, <2>4 DEF Final
  <2> QED BY <2>5 DEF a
<1> QED BY <1>5, <1>8, <1>9 DEF puts, at_
-----------------------------------------------------------------------------

\* Where the strings go: each below the one before.
Strings == Seq(Seq(STRING))
IsPointers(ptr, strings) ==
  /\ ptr[0] = STACK
  /\ \A i \in 0 .. Len(strings) : ptr[i] \in Int
  /\ \A i \in 1 .. Len(strings) : ptr[i] = ptr[i - 1] - WORD * Len(strings[i])

LEMMA PointersFacts ==
  ASSUME NEW strings \in Strings
  PROVE  IsPointers(Pointers(strings), strings)
<1> DEFINE N == Len(strings)
           size(i) == WORD * Len(strings[i])
           step == [i \in 1 .. N |-> [p \in Int |-> p - size(i)]]
           Fits(ptr) == ptr = [i \in 0 .. N |-> IF i = 0 THEN STACK
                                          ELSE ptr[i - 1] - WORD * Len(strings[i])]
<1>1. N \in Nat /\ STACK \in Int /\ \A i \in 1 .. N : size(i) \in Int
  <2>1. N \in Nat /\ \A i \in 1 .. N : strings[i] \in Seq(STRING) BY DEF Strings
  <2>2. \A i \in 1 .. N : Len(strings[i]) \in Int BY <2>1
  <2> QED BY <2>1, <2>2, Products, MachineSizes
<1> HIDE DEF N, size
<1>2. step \in [1 .. N -> [Int -> Int]]
  <2>1. \A i \in 1 .. N : \A p \in Int : p - size(i) \in Int BY <1>1
  <2> QED BY <2>1
<1>3. PICK f \in [0 .. N -> Int] : Repeats(f, STACK, step, N)
  <2> HIDE DEF step
  <2> QED BY <1>1, <1>2, Repetition
<1>4. ASSUME NEW i \in 1 .. N PROVE f[i] = f[i - 1] - size(i)
  <2>1. i - 1 \in 0 .. N /\ f[i - 1] \in Int BY <1>1
  <2>2. f[i] = step[i][f[i - 1]] BY <1>3 DEF Repeats
  <2> QED BY <2>1, <2>2
<1>5. Fits(f)
  <2> HIDE DEF step
  <2>1. \A i \in 0 .. N : i = 0 \/ i \in 1 .. N BY <1>1
  <2>2. \A i \in 0 .. N : f[i] = IF i = 0 THEN STACK
                                 ELSE f[i - 1] - WORD * Len(strings[i])
    BY <1>3, <1>4, <2>1 DEF Repeats, size
  <2>3. f = [i \in 0 .. N |-> f[i]] OBVIOUS
  <2> QED BY <2>2, <2>3
<1> DEFINE ptr == CHOOSE ptr : Fits(ptr)
<1>6. Fits(ptr) BY <1>5
<1>7. Pointers(strings) = ptr BY DEF Pointers, N
<1> HIDE DEF ptr, step
<1>8. /\ ptr[0] = STACK /\ ptr = [i \in 0 .. N |-> ptr[i]]
      /\ \A i \in 1 .. N : ptr[i] = ptr[i - 1] - size(i)
  <2>1. /\ ptr = [i \in 0 .. N |-> ptr[i]]
        /\ \A i \in 0 .. N : ptr[i] = IF i = 0 THEN STACK
                                      ELSE ptr[i - 1] - WORD * Len(strings[i])
    BY <1>6
  <2>2. 0 \in 0 .. N /\ \A i \in 1 .. N : i \in 0 .. N /\ i # 0 BY <1>1
  <2> QED BY <2>1, <2>2 DEF size
<1> HIDE DEF Fits
<1>9. \A i \in 0 .. N : ptr[i] \in Int
  <2>1. \A i \in 1 .. N : ptr[i - 1] \in Int => ptr[i] \in Int BY <1>1, <1>8
  <2> QED BY <1>1, <1>8, <2>1, StepInduction
<1> QED BY <1>7, <1>8, <1>9 DEF IsPointers, N, size

\* None of them reaches the one before, and all are between the last and the
\* end of the stack.
LEMMA PointersApart ==
  ASSUME NEW strings \in Strings, NEW ptr, IsPointers(ptr, strings)
  PROVE  /\ \A i \in 1 .. Len(strings) :
              /\ ptr[i] + WORD * Len(strings[i]) = ptr[i - 1]
              /\ ptr[i - 1] <= STACK /\ ptr[Len(strings)] <= ptr[i]
         /\ \A i, j \in 1 .. Len(strings) :
              i < j => ptr[j] + WORD * Len(strings[j]) <= ptr[i]
         /\ ptr[Len(strings)] \in Int /\ ptr[Len(strings)] <= STACK
<1> DEFINE N == Len(strings)
           size(i) == WORD * Len(strings[i])
<1>1. N \in Nat /\ \A i \in 1 .. N : size(i) \in Int /\ size(i) >= 0
  <2>1. N \in Nat /\ \A i \in 1 .. N : strings[i] \in Seq(STRING) BY DEF Strings
  <2>2. \A i \in 1 .. N : Len(strings[i]) \in Nat BY <2>1
  <2> QED BY <2>1, <2>2, Products, MachineSizes
<1>2. /\ ptr[0] = STACK /\ \A i \in 0 .. N : ptr[i] \in Int
      /\ \A i \in 1 .. N : ptr[i] = ptr[i - 1] - size(i)
  BY DEF IsPointers
<1> HIDE DEF N, size
<1>3. ASSUME NEW i \in 0 .. N
      PROVE  \A j \in 0 .. N : i <= j => ptr[j] <= ptr[i]
  <2> DEFINE T == {n \in Nat : i + n <= N => ptr[i + n] <= ptr[i]}
  <2>1. 0 \in T BY <1>1, <1>2
  <2>2. ASSUME NEW n \in Nat, n \in T PROVE n + 1 \in T
    <3>1. SUFFICES ASSUME i + (n + 1) <= N PROVE ptr[i + (n + 1)] <= ptr[i]
      OBVIOUS
    <3>2. i + (n + 1) \in 1 .. N /\ i + (n + 1) - 1 = i + n /\ i + n \in 0 .. N
      BY <1>1, <3>1
    <3>3. ptr[i + n] <= ptr[i] BY <1>1, <2>2, <3>1
    <3>4. ptr[i + (n + 1)] = ptr[i + n] - size(i + (n + 1)) BY <1>2, <3>2
    <3>5. /\ size(i + (n + 1)) \in Int /\ size(i + (n + 1)) >= 0
          /\ ptr[i + n] \in Int /\ ptr[i] \in Int
      BY <1>1, <1>2, <3>2
    <3> QED BY <3>3, <3>4, <3>5
  <2>3. \A n \in Nat : n \in T
    <3> HIDE DEF T
    <3> QED BY <2>1, <2>2, SetInduction
  <2>4. ASSUME NEW j \in 0 .. N, i <= j PROVE ptr[j] <= ptr[i]
    <3>1. j - i \in T /\ i + (j - i) = j /\ j <= N BY <1>1, <2>3, <2>4
    <3> QED BY <3>1
  <2> QED BY <2>4
<1>4. \A i \in 1 .. N : /\ ptr[i] + size(i) = ptr[i - 1]
                        /\ ptr[i - 1] <= STACK /\ ptr[N] <= ptr[i]
  <2>1. \A i \in 1 .. N : /\ i - 1 \in 0 .. N /\ i \in 0 .. N /\ N \in 0 .. N
                          /\ 0 \in 0 .. N /\ 0 <= i - 1 /\ i <= N
    BY <1>1
  <2> QED BY <1>1, <1>2, <1>3, <2>1
<1>5. \A i, j \in 1 .. N : i < j => ptr[j] + size(j) <= ptr[i]
  <2>1. \A i, j \in 1 .. N : i < j => i <= j - 1 /\ j - 1 \in 0 .. N /\ i \in 0 .. N
    BY <1>1
  <2> QED BY <1>3, <1>4, <2>1
<1>6. ptr[N] \in Int /\ ptr[N] <= STACK
  <2>1. N \in 0 .. N /\ 0 \in 0 .. N /\ 0 <= N BY <1>1
  <2> QED BY <1>2, <1>3, <2>1
<1> QED BY <1>4, <1>5, <1>6 DEF N, size

\* The strings.
StringPuts(strings) ==
  [i \in 1 .. Len(strings) |-> Put(Pointers(strings)[i], Bytes(strings[i]))]

LEMMA StringPutsFacts ==
  ASSUME NEW strings \in Strings
  PROVE  LET ptr == Pointers(strings)
             puts == StringPuts(strings)
         IN  /\ puts \in Seq(Puts)
             /\ \A a \in Int : a < ptr[Len(strings)] \/ a > STACK => Untouched(puts, a)
             /\ Proper(strings) => \A a \in Int : a >= STACK => Untouched(puts, a)
             /\ Proper(strings) =>
                  \A i \in 1 .. Len(strings) : \A k \in 1 .. Len(strings[i]) + 1 :
                    Final(puts, ptr[i] + k - 1, Bytes(strings[i])[k])
<1> DEFINE n == Len(strings)
           ptr == Pointers(strings)
           puts == StringPuts(strings)
           len(i) == Len(strings[i])
<1>1. n \in Nat /\ \A i \in 1 .. n : strings[i] \in Seq(STRING) /\ len(i) \in Nat
  <2>1. n \in Nat /\ \A i \in 1 .. n : strings[i] \in Seq(STRING) BY DEF Strings
  <2> QED BY <2>1
<1>2. IsPointers(ptr, strings) BY PointersFacts
<1>3. \A i \in 1 .. n : ptr[i] \in Int /\ i \in 0 .. n BY <1>1, <1>2 DEF IsPointers
<1>4. DOMAIN puts = 1 .. n /\ \A i \in 1 .. n : puts[i] = Put(ptr[i], Bytes(strings[i]))
  BY <1>1 DEF StringPuts
<1>5. ASSUME NEW i \in 1 .. n
      PROVE  /\ puts[i] \in Puts
             /\ puts[i].addr = ptr[i] /\ puts[i].bytes = Bytes(strings[i])
             /\ \A a \in Int : Covers(puts[i], a) <=> a >= ptr[i] /\ a < ptr[i] + len(i) + 1
  <2>1. /\ Bytes(strings[i]) \in Seq(Contents)
        /\ DOMAIN Bytes(strings[i]) = 1 .. len(i) + 1
    BY <1>1, BytesFacts
  <2>2. Len(Bytes(strings[i])) = len(i) + 1 BY <1>1, <2>1
  <2>3. /\ Put(ptr[i], Bytes(strings[i])) \in Puts
        /\ Put(ptr[i], Bytes(strings[i])).addr = ptr[i]
        /\ Put(ptr[i], Bytes(strings[i])).bytes = Bytes(strings[i])
        /\ \A a \in Int : Covers(Put(ptr[i], Bytes(strings[i])), a)
                            <=> a >= ptr[i] /\ a < ptr[i] + Len(Bytes(strings[i]))
    BY <1>3, <2>1, PutFacts
  <2> HIDE DEF ptr, len
  <2> QED BY <1>1, <1>3, <1>4, <2>2, <2>3
<1>6. puts \in Seq(Puts)
  <2>1. puts = [i \in 1 .. n |-> puts[i]] BY DEF StringPuts
  <2> HIDE DEF puts
  <2> QED BY <1>1, <1>5, <2>1
<1>7. /\ \A i \in 1 .. n : /\ ptr[i] + WORD * len(i) = ptr[i - 1]
                           /\ ptr[i - 1] <= STACK /\ ptr[n] <= ptr[i]
      /\ \A i, j \in 1 .. n : i < j => ptr[j] + WORD * len(j) <= ptr[i]
      /\ ptr[n] \in Int
  <2> HIDE DEF ptr
  <2> QED BY <1>2, PointersApart
<1>8. /\ \A i \in 1 .. n : WORD * len(i) \in Int /\ WORD * len(i) >= len(i)
      /\ Proper(strings) =>
           \A i \in 1 .. n : len(i) > 0 /\ WORD * len(i) >= len(i) + 1
  <2>1. ASSUME NEW i \in 1 .. n
        PROVE  /\ WORD * len(i) \in Int /\ WORD * len(i) >= len(i)
               /\ len(i) > 0 => WORD * len(i) >= len(i) + 1
    <3>1. len(i) \in Nat /\ len(i) \in Int BY <1>1
    <3> HIDE DEF len
    <3> QED BY <3>1, Products
  <2>2. ASSUME Proper(strings), NEW i \in 1 .. n PROVE len(i) > 0
    <3>1. strings[i] # <<>> /\ strings[i] \in Seq(STRING)
      BY <1>1, <2>2 DEF Proper, Strings
    <3> QED BY <3>1, EmptySeq
  <2> HIDE DEF len, n
  <2> QED BY <2>1, <2>2
<1> HIDE DEF ptr, puts, len, n
<1>9. STACK \in Int BY MachineSizes
<1>10. ASSUME NEW a \in Int, a < ptr[n] \/ a > STACK PROVE Untouched(puts, a)
  <2>1. ASSUME NEW i \in 1 .. n, Covers(puts[i], a) PROVE FALSE
    <3>1. a >= ptr[i] /\ a < ptr[i] + len(i) + 1 BY <1>5, <2>1
    <3>2. ptr[n] <= ptr[i] BY <1>7
    <3>3. WORD * len(i) \in Int /\ WORD * len(i) >= len(i) BY <1>8
    <3>4. ptr[i] + WORD * len(i) = ptr[i - 1] /\ ptr[i - 1] <= STACK BY <1>7
    <3>5. ptr[i] + WORD * len(i) <= STACK BY <3>4
    <3>6. ptr[i] + len(i) <= STACK BY <1>1, <1>3, <1>9, <3>3, <3>5
    <3> QED BY <1>1, <1>3, <1>7, <1>9, <1>10, <3>1, <3>2, <3>6
  <2> QED BY <1>4, <2>1 DEF Untouched
<1>11. ASSUME Proper(strings), NEW a \in Int, a >= STACK PROVE Untouched(puts, a)
  <2>1. ASSUME NEW i \in 1 .. n, Covers(puts[i], a) PROVE FALSE
    <3>1. a < ptr[i] + len(i) + 1 BY <1>5, <2>1
    <3>2. WORD * len(i) \in Int /\ WORD * len(i) >= len(i) + 1 BY <1>8, <1>11
    <3>3. ptr[i] + WORD * len(i) = ptr[i - 1] /\ ptr[i - 1] <= STACK BY <1>7
    <3>4. ptr[i] + WORD * len(i) <= STACK BY <3>3
    <3>5. ptr[i] + len(i) + 1 <= STACK BY <1>1, <1>3, <1>9, <3>2, <3>4
    <3> QED BY <1>1, <1>3, <1>9, <1>11, <3>1, <3>5
  <2> QED BY <1>4, <2>1 DEF Untouched
<1>12. ASSUME Proper(strings), NEW i \in 1 .. n, NEW k \in 1 .. len(i) + 1
       PROVE  Final(puts, ptr[i] + k - 1, Bytes(strings[i])[k])
  <2> DEFINE a == ptr[i] + k - 1
  <2>1. a \in Int /\ a >= ptr[i] /\ a < ptr[i] + len(i) + 1 /\ a - ptr[i] + 1 = k
    BY <1>1, <1>3
  <2>2. Covers(puts[i], a) BY <1>5, <2>1
  <2>3. ASSUME NEW j \in 1 .. n, Covers(puts[j], a) PROVE j <= i
    <3>1. a < ptr[j] + len(j) + 1 /\ ptr[j] \in Int BY <1>3, <1>5, <2>1, <2>3
    <3>2. ASSUME i < j PROVE FALSE
      <4>1. ptr[j] + WORD * len(j) <= ptr[i] BY <1>7, <3>2
      <4>2. WORD * len(j) \in Int /\ WORD * len(j) >= len(j) + 1 BY <1>8, <1>12
      <4>3. ptr[j] + len(j) + 1 <= ptr[i] BY <1>1, <1>3, <4>1, <4>2
      <4>4. len(j) \in Nat /\ ptr[i] \in Int BY <1>1, <1>3
      <4> HIDE DEF a
      <4> QED BY <2>1, <3>1, <4>3, <4>4
    <3> QED BY <1>1, <3>2
  <2>4. puts[i].bytes[a - puts[i].addr + 1] = Bytes(strings[i])[k] BY <1>5, <2>1
  <2> HIDE DEF a
  <2>5. Final(puts, a, Bytes(strings[i])[k]) BY <1>4, <2>2, <2>3, <2>4 DEF Final
  <2> QED BY <2>5 DEF a
<1> QED BY <1>6, <1>10, <1>11, <1>12 DEF ptr, puts, n, len

\* Five groups of stores in a row.
LEMMA FiveGroups ==
  ASSUME NEW S, NEW q1 \in Seq(S), NEW q2 \in Seq(S), NEW q3 \in Seq(S),
         NEW q4 \in Seq(S), NEW q5 \in Seq(S)
  PROVE  LET all == q1 \o q2 \o q3 \o q4 \o q5
         IN  /\ all \in Seq(S)
             /\ \A a : /\ Untouched(q1, a) /\ Untouched(q2, a) /\ Untouched(q3, a)
                       /\ Untouched(q4, a) /\ Untouched(q5, a)
                       => Untouched(all, a)
             /\ \A a, v : /\ Untouched(q5, a)
                          /\ \/ Final(q4, a, v)
                             \/ Untouched(q4, a) /\ Final(q3, a, v)
                             \/ Untouched(q4, a) /\ Untouched(q3, a) /\ Final(q2, a, v)
                          => Final(all, a, v)
<1> DEFINE r2 == q1 \o q2
           r3 == r2 \o q3
           r4 == r3 \o q4
           all == r4 \o q5
<1>1. r2 \in Seq(S) /\ r3 \in Seq(S) /\ r4 \in Seq(S) /\ all \in Seq(S) OBVIOUS
<1>2. ASSUME NEW a
      PROVE  /\ Untouched(q1, a) /\ Untouched(q2, a) => Untouched(r2, a)
             /\ \A v : Final(q2, a, v) => Final(r2, a, v)
  BY LaterPuts
<1> HIDE DEF r2
<1>3. ASSUME NEW a
      PROVE  /\ Untouched(r2, a) /\ Untouched(q3, a) => Untouched(r3, a)
             /\ \A v : Final(q3, a, v) \/ (Final(r2, a, v) /\ Untouched(q3, a))
                         => Final(r3, a, v)
  BY <1>1, LaterPuts
<1> HIDE DEF r3
<1>4. ASSUME NEW a
      PROVE  /\ Untouched(r3, a) /\ Untouched(q4, a) => Untouched(r4, a)
             /\ \A v : Final(q4, a, v) \/ (Final(r3, a, v) /\ Untouched(q4, a))
                         => Final(r4, a, v)
  BY <1>1, LaterPuts
<1> HIDE DEF r4
<1>5. ASSUME NEW a
      PROVE  /\ Untouched(r4, a) /\ Untouched(q5, a) => Untouched(all, a)
             /\ \A v : Final(r4, a, v) /\ Untouched(q5, a) => Final(all, a, v)
  BY <1>1, LaterPuts
<1> HIDE DEF all
<1>6. \A a : /\ Untouched(q1, a) /\ Untouched(q2, a) /\ Untouched(q3, a)
             /\ Untouched(q4, a) /\ Untouched(q5, a)
             => Untouched(all, a)
  BY <1>2, <1>3, <1>4, <1>5
<1>7. ASSUME NEW a, NEW v, Untouched(q5, a),
             \/ Final(q4, a, v)
             \/ Untouched(q4, a) /\ Final(q3, a, v)
             \/ Untouched(q4, a) /\ Untouched(q3, a) /\ Final(q2, a, v)
      PROVE  Final(all, a, v)
  <2>1. CASE Final(q4, a, v)
    <3>1. Final(r4, a, v) BY <1>4, <2>1
    <3> QED BY <1>5, <1>7, <3>1
  <2>2. CASE Untouched(q4, a) /\ Final(q3, a, v)
    <3>1. Final(r3, a, v) BY <1>3, <2>2
    <3>2. Final(r4, a, v) BY <1>4, <2>2, <3>1
    <3> QED BY <1>5, <1>7, <3>2
  <2>3. CASE Untouched(q4, a) /\ Untouched(q3, a) /\ Final(q2, a, v)
    <3>1. Final(r2, a, v) BY <1>2, <2>3
    <3>2. Final(r3, a, v) BY <1>3, <2>3, <3>1
    <3>3. Final(r4, a, v) BY <1>4, <2>3, <3>2
    <3> QED BY <1>5, <1>7, <3>3
  <2> QED BY <1>7, <2>1, <2>2, <2>3
<1> QED BY <1>1, <1>6, <1>7 DEF all, r4, r3, r2

\* What Prepared promises: nothing is stored behind the stack, and main finds
\* its arguments, a function of the kernel its return address.
StoresWord(puts, a, v) == \A k \in 1 .. WORD : Final(puts, a + k - 1, Word(v)[k])
StoresString(puts, a, string) ==
  \A k \in 1 .. Len(string) + 1 : Final(puts, a + k - 1, Bytes(string)[k])
StoresArguments(puts, top, strings) ==
  /\ StoresWord(puts, top, Len(strings))
  /\ \E array \in 0 .. STACK - 1 :
       /\ StoresWord(puts, top + WORD, array)
       /\ \A i \in 1 .. Len(strings) : \E p \in 0 .. STACK - 1 :
            /\ StoresWord(puts, array + (i - 1) * WORD, p)
            /\ StoresString(puts, p, strings[i])

LEMMA PreparedFacts ==
  ASSUME NEW strings \in Strings, NEW isExec \in BOOLEAN,
         Prepared(strings, isExec).esp - CONTEXT >= 0
  PROVE  LET p == Prepared(strings, isExec)
         IN  /\ p.esp \in Nat /\ p.esp + WORD <= STACK /\ p.puts \in Seq(Puts)
             /\ \A a \in Int : a > STACK => Untouched(p.puts, a)
             /\ Proper(strings) => \A a \in Int : a >= STACK => Untouched(p.puts, a)
             /\ ~isExec /\ Proper(strings) /\ strings # <<>>
                  => StoresArguments(p.puts, p.esp, strings)
             /\ isExec => StoresWord(p.puts, p.esp, EXIT)
<1> DEFINE n == Len(strings)
           ptr == Pointers(strings)
           array == ptr[n] - WORD * n
           top == array - WORD * 2
           header == IF isExec THEN <<EXIT>> ELSE <<n, IF n = 0 THEN 0 ELSE array>>
           places == [i \in 1 .. n |-> ptr[i]]
           q1 == <<Put(0, Zeros(STACK))>>
           q2 == StringPuts(strings)
           q3 == Words(array, places)
           q4 == Words(top, header)
           q5 == <<Put(top - CONTEXT, [k \in 1 .. CONTEXT |-> Left])>>
           puts == q1 \o q2 \o q3 \o q4 \o q5
<1>1. Prepared(strings, isExec) = [esp |-> top, puts |-> puts]
  BY DEF Prepared, StringPuts
<1>2. /\ n \in Nat /\ strings \in Seq(Seq(STRING))
      /\ \A i \in 1 .. n : strings[i] \in Seq(STRING)
      /\ STACK \in Nat /\ CONTEXT \in Nat /\ WORD \in Nat /\ WORD >= 2 /\ EXIT \in Nat
  BY MachineSizes DEF Strings
<1>3. IsPointers(ptr, strings) BY PointersFacts
<1>4. /\ \A i \in 1 .. n : /\ ptr[i] \in Int /\ ptr[i - 1] <= STACK /\ ptr[n] <= ptr[i]
                           /\ ptr[i] + WORD * Len(strings[i]) = ptr[i - 1]
      /\ ptr[n] \in Int /\ ptr[n] <= STACK
  <2>1. \A i \in 1 .. n : i \in 0 .. n BY <1>2
  <2> HIDE DEF ptr
  <2> QED BY <1>3, <2>1, PointersApart DEF IsPointers
<1>5. WORD * n \in Int /\ WORD * n >= n /\ array \in Int /\ top \in Int
  <2> HIDE DEF n, ptr
  <2>1. WORD * n \in Int /\ WORD * n >= n BY <1>2, Products
  <2> QED BY <1>2, <1>4, <2>1
<1>6. /\ places \in Seq(Int) /\ Len(places) = n
      /\ \A i \in 1 .. n : places[i] = ptr[i]
  <2> HIDE DEF n, ptr
  <2> QED BY <1>2, <1>4
<1>7. /\ header \in Seq(Int)
      /\ isExec => header = <<EXIT>>
      /\ ~isExec /\ n > 0 => header = <<n, array>>
      /\ Len(header) \in {1, 2}
  <2> HIDE DEF n, array
  <2> QED BY <1>2, <1>5
<1>8. top - CONTEXT >= 0 BY <1>1
<1>9. top + WORD * 2 = array /\ array + WORD * n = ptr[n] /\ WORD * 2 = WORD + WORD
  BY <1>2, <1>4, <1>5
<1>10. /\ q2 \in Seq(Puts)
       /\ \A a \in Int : a < ptr[n] \/ a > STACK => Untouched(q2, a)
       /\ Proper(strings) => \A a \in Int : a >= STACK => Untouched(q2, a)
       /\ Proper(strings) =>
            \A i \in 1 .. n : \A k \in 1 .. Len(strings[i]) + 1 :
              Final(q2, ptr[i] + k - 1, Bytes(strings[i])[k])
  BY StringPutsFacts
<1> HIDE DEF n, ptr, array, top, header, places, q2
<1>11. /\ q3 \in Seq(Puts)
       /\ \A a \in Int : a < array \/ a >= ptr[n] => Untouched(q3, a)
       /\ \A i \in 1 .. n, k \in 1 .. WORD :
            Final(q3, array + WORD * (i - 1) + k - 1, Word(ptr[i])[k])
  <2>1. /\ q3 \in Seq(Puts)
        /\ \A a \in Int : a < array \/ a >= array + WORD * Len(places)
                             => Untouched(q3, a)
        /\ \A i \in 1 .. Len(places), k \in 1 .. WORD :
              Final(q3, array + WORD * (i - 1) + k - 1, Word(places[i])[k])
    BY <1>5, <1>6, WordsFacts
  <2> HIDE DEF q3
  <2> QED BY <1>6, <1>9, <2>1
<1>12. /\ q4 \in Seq(Puts)
       /\ \A a \in Int : a < top \/ a >= array => Untouched(q4, a)
       /\ \A i \in 1 .. Len(header), k \in 1 .. WORD :
            Final(q4, top + WORD * (i - 1) + k - 1, Word(header[i])[k])
  <2>1. /\ q4 \in Seq(Puts)
        /\ \A a \in Int : a < top \/ a >= top + WORD * Len(header)
                             => Untouched(q4, a)
        /\ \A i \in 1 .. Len(header), k \in 1 .. WORD :
              Final(q4, top + WORD * (i - 1) + k - 1, Word(header[i])[k])
    <3>1. header \in Seq(Int) BY <1>7
    <3> QED BY <1>5, <3>1, WordsFacts
  <2>2. top + WORD * Len(header) <= array
    <3>1. CASE Len(header) = 1 BY <1>2, <1>5, <1>9, <3>1
    <3>2. CASE Len(header) = 2 BY <1>5, <1>9, <3>2
    <3> QED BY <1>7, <3>1, <3>2
  <2>3. WORD * Len(header) \in Int BY <1>2, <1>7
  <2> HIDE DEF q4
  <2> QED BY <1>5, <2>1, <2>2, <2>3
<1>13. /\ q1 \in Seq(Puts)
       /\ \A a \in Int : a < 0 \/ a >= STACK => Untouched(q1, a)
  <2> DEFINE put == Put(0, Zeros(STACK))
  <2>1. Zeros(STACK) \in Seq(Contents) /\ Len(Zeros(STACK)) = STACK
    BY <1>2, ZerosFacts
  <2>2. put \in Puts /\ \A a \in Int : Covers(put, a) <=> a >= 0 /\ a < STACK
    <3>1. 0 + Len(Zeros(STACK)) = STACK BY <1>2, <2>1
    <3> QED BY <2>1, <3>1, PutFacts
  <2> HIDE DEF put
  <2>3. <<put>> \in Seq(Puts) /\ \A a \in Int : ~Covers(put, a) => Untouched(<<put>>, a)
    BY <2>2, OnePut
  <2>4. \A a \in Int : a < 0 \/ a >= STACK => Untouched(<<put>>, a)
    BY <1>2, <2>2, <2>3
  <2> QED BY <2>3, <2>4 DEF put
<1>14. /\ q5 \in Seq(Puts)
       /\ \A a \in Int : a >= top => Untouched(q5, a)
  <2> DEFINE bytes == [k \in 1 .. CONTEXT |-> Left]
             put == Put(top - CONTEXT, bytes)
  <2>1. bytes \in Seq(Contents) /\ Len(bytes) = CONTEXT BY <1>2, ContentsFacts
  <2>2. top - CONTEXT \in Int /\ top - CONTEXT + CONTEXT = top BY <1>2, <1>5
  <2>3. put \in Puts /\ \A a \in Int : Covers(put, a) => a < top
    <3> HIDE DEF bytes
    <3> QED BY <2>1, <2>2, PutFacts
  <2> HIDE DEF put
  <2>4. <<put>> \in Seq(Puts) /\ \A a \in Int : ~Covers(put, a) => Untouched(<<put>>, a)
    BY <2>3, OnePut
  <2>5. \A a \in Int : a >= top => Untouched(<<put>>, a) BY <1>5, <2>3, <2>4
  <2> QED BY <2>4, <2>5 DEF put, bytes
<1> HIDE DEF q1, q3, q4, q5
<1>15. /\ puts \in Seq(Puts)
       /\ \A a : /\ Untouched(q1, a) /\ Untouched(q2, a) /\ Untouched(q3, a)
                 /\ Untouched(q4, a) /\ Untouched(q5, a)
                 => Untouched(puts, a)
       /\ \A a, v : /\ Untouched(q5, a)
                    /\ \/ Final(q4, a, v)
                       \/ Untouched(q4, a) /\ Final(q3, a, v)
                       \/ Untouched(q4, a) /\ Untouched(q3, a) /\ Final(q2, a, v)
                    => Final(puts, a, v)
  BY <1>10, <1>11, <1>12, <1>13, <1>14, FiveGroups
<1> HIDE DEF puts
<1>16. /\ \A a \in Int : a >= array => a >= top
       /\ \A a \in Int : a >= ptr[n] => a >= array /\ a >= top
       /\ \A a \in Int : a >= STACK => a >= ptr[n] /\ a >= array /\ a >= top
       /\ n > 0 => array < STACK
  <2> DEFINE size == WORD * n
  <2>1. n \in Nat /\ size \in Int /\ size >= n /\ array + size = ptr[n]
    BY <1>2, <1>5, <1>9 DEF n
  <2> HIDE DEF size
  <2>2. array <= ptr[n] /\ (n > 0 => array < ptr[n]) BY <1>4, <1>5, <2>1
  <2>3. top <= array /\ top \in Int /\ array \in Int BY <1>2, <1>5, <1>9
  <2> QED BY <1>2, <1>4, <2>2, <2>3
<1>17. ASSUME NEW a \in Int, a > STACK PROVE Untouched(puts, a)
  <2>1. a >= STACK BY <1>2, <1>17
  <2> QED BY <1>10, <1>11, <1>12, <1>13, <1>14, <1>15, <1>16, <1>17, <2>1
<1>18. ASSUME Proper(strings), NEW a \in Int, a >= STACK PROVE Untouched(puts, a)
  BY <1>10, <1>11, <1>12, <1>13, <1>14, <1>15, <1>16, <1>18
<1>19. ASSUME NEW i \in 1 .. Len(header)
       PROVE  StoresWord(puts, top + WORD * (i - 1), header[i])
  <2>1. SUFFICES ASSUME NEW k \in 1 .. WORD
                 PROVE  Final(puts, top + WORD * (i - 1) + k - 1, Word(header[i])[k])
    BY DEF StoresWord
  <2>2. WORD * (i - 1) \in Int /\ WORD * (i - 1) >= 0
    <3>1. i - 1 \in Nat BY <1>7
    <3> QED BY <1>2, <3>1, Products
  <2>3. /\ top + WORD * (i - 1) + k - 1 \in Int /\ top + WORD * (i - 1) + k - 1 >= top
    BY <1>2, <1>5, <2>2
  <2> QED BY <1>12, <1>14, <1>15, <2>3
<1>20. ASSUME isExec PROVE StoresWord(puts, top, EXIT)
  <2>1. header = <<EXIT>> BY <1>7, <1>20
  <2>2. Len(header) = 1 /\ header[1] = EXIT BY <2>1
  <2>3. 1 \in 1 .. Len(header) /\ top + WORD * (1 - 1) = top BY <1>2, <1>5, <2>2
  <2> QED BY <1>19, <2>2, <2>3
<1>21. ASSUME ~isExec, Proper(strings), strings # <<>>
       PROVE  StoresArguments(puts, top, strings)
  <2>1. n > 0 BY <1>2, <1>21, EmptySeq DEF n
  <2>2. Len(header) = 2 /\ header[1] = n /\ header[2] = array BY <1>7, <1>21, <2>1
  <2>3. StoresWord(puts, top, n)
    <3>1. 1 \in 1 .. Len(header) /\ top + WORD * (1 - 1) = top BY <1>2, <1>5, <2>2
    <3> QED BY <1>19, <2>2, <3>1
  <2>4. StoresWord(puts, top + WORD, array)
    <3>1. 2 \in 1 .. Len(header) /\ top + WORD * (2 - 1) = top + WORD
      BY <1>2, <1>5, <2>2
    <3> QED BY <1>19, <2>2, <3>1
  <2>5. array \in 0 .. STACK - 1
    <3>1. array >= 0 BY <1>2, <1>5, <1>8, <1>9
    <3>2. array < STACK BY <1>16, <2>1
    <3> QED BY <1>2, <1>5, <3>1, <3>2
  <2>6. ASSUME NEW i \in 1 .. n
        PROVE  \E p \in 0 .. STACK - 1 : /\ StoresWord(puts, array + (i - 1) * WORD, p)
                                         /\ StoresString(puts, p, strings[i])
    <3>1. ptr[i] \in Int /\ ptr[n] <= ptr[i] /\ Len(strings[i]) \in Nat BY <1>2, <1>4
    <3>2. ptr[i] \in 0 .. STACK - 1
      <4>1. ptr[i] >= 0
        <5>1. array >= 0 /\ array \in Int BY <1>2, <2>5
        <5>2. ptr[i] >= array BY <1>16, <3>1
        <5> QED BY <3>1, <5>1, <5>2
      <4>2. Len(strings[i]) > 0
        <5>1. strings[i] # <<>> BY <1>2, <1>21 DEF Proper, n
        <5> QED BY <1>2, <5>1, EmptySeq
      <4>3. WORD * Len(strings[i]) \in Int /\ WORD * Len(strings[i]) >= 1
        <5> DEFINE len == Len(strings[i])
        <5>1. len \in Nat /\ len \in Int /\ len > 0 BY <3>1, <4>2
        <5> HIDE DEF len
        <5>2. WORD * len \in Int /\ WORD * len >= len BY <5>1, Products
        <5>3. WORD * len >= 1 BY <5>1, <5>2
        <5> QED BY <5>2, <5>3 DEF len
      <4>4. ptr[i] + WORD * Len(strings[i]) <= STACK BY <1>4
      <4>5. ptr[i] < STACK BY <1>2, <3>1, <4>3, <4>4
      <4> QED BY <1>2, <3>1, <4>1, <4>5
    <3>3. StoresWord(puts, array + (i - 1) * WORD, ptr[i])
      <4>1. SUFFICES ASSUME NEW k \in 1 .. WORD
                     PROVE  Final(puts, array + (i - 1) * WORD + k - 1, Word(ptr[i])[k])
        BY DEF StoresWord
      <4>2. /\ WORD * (i - 1) \in Int /\ WORD * (i - 1) >= 0
            /\ WORD * (i - 1) = (i - 1) * WORD
        <5>1. i - 1 \in Nat BY <1>2
        <5>2. WORD * (i - 1) \in Int /\ WORD * (i - 1) >= 0 BY <5>1, <1>2, Products
        <5>3. \A a, b \in Int : a * b = b * a OBVIOUS
        <5> QED BY <1>2, <5>1, <5>2, <5>3
      <4> DEFINE a == array + WORD * (i - 1) + k - 1
      <4>3. a \in Int /\ a >= array /\ a >= top
        <5> DEFINE d == WORD * (i - 1)
        <5>1. a \in Int /\ a >= array
          <6>1. d \in Int /\ d >= 0 BY <4>2
          <6> HIDE DEF d
          <6>2. array + d + k - 1 \in Int /\ array + d + k - 1 >= array
            BY <1>2, <1>5, <6>1
          <6> QED BY <6>2 DEF d
        <5> HIDE DEF a
        <5> QED BY <1>16, <5>1
      <4>4. Final(q3, a, Word(ptr[i])[k]) BY <1>11
      <4> HIDE DEF a
      <4>5. Final(puts, a, Word(ptr[i])[k]) BY <1>12, <1>14, <1>15, <4>3, <4>4
      <4> QED BY <4>2, <4>5 DEF a
    <3>4. StoresString(puts, ptr[i], strings[i])
      <4>1. SUFFICES ASSUME NEW k \in 1 .. Len(strings[i]) + 1
                     PROVE  Final(puts, ptr[i] + k - 1, Bytes(strings[i])[k])
        BY DEF StoresString
      <4> DEFINE a == ptr[i] + k - 1
      <4>2. a \in Int /\ a >= ptr[n] /\ a >= array /\ a >= top
        <5>1. a \in Int /\ a >= ptr[i] BY <3>1
        <5>2. a >= ptr[n] BY <1>4, <3>1, <5>1
        <5> HIDE DEF a
        <5> QED BY <1>16, <5>1, <5>2
      <4>3. Final(q2, a, Bytes(strings[i])[k]) BY <1>10, <1>21
      <4> HIDE DEF a
      <4>4. Final(puts, a, Bytes(strings[i])[k])
        BY <1>11, <1>12, <1>14, <1>15, <4>2, <4>3
      <4> QED BY <4>4 DEF a
    <3> QED BY <3>2, <3>3, <3>4
  <2> QED BY <2>3, <2>4, <2>5, <2>6 DEF StoresArguments, n
<1>22. top \in Nat /\ top + WORD <= STACK
  <2> DEFINE size == WORD * n
  <2>1. size \in Int /\ size >= 0 BY <1>2, <1>5 DEF n
  <2>2. array + size = ptr[n] BY <1>9
  <2> HIDE DEF size
  <2> QED BY <1>2, <1>4, <1>5, <1>8, <1>9, <2>1, <2>2
<1> QED BY <1>1, <1>15, <1>17, <1>18, <1>20, <1>21, <1>22
-----------------------------------------------------------------------------
(* Descriptors *)

\* Quotient and remainder are unique.
LEMMA Division ==
  ASSUME NEW d \in Nat \ {0}, NEW k \in Nat, NEW r \in 0 .. d - 1
  PROVE  (d * k + r) \div d = k /\ (d * k + r) % d = r
<1> DEFINE n == d * k + r
           q == n \div d
           s == n % d
<1>1. n \in Nat /\ q \in Nat /\ s \in 0 .. d - 1 /\ n = d * q + s
  <2>1. d * k \in Nat OBVIOUS
  <2>2. n \in Nat BY <2>1
  <2> HIDE DEF n
  <2> QED BY <2>2
<1> HIDE DEF q, s
<1>2. d * (k - q) = s - r BY <1>1
<1>3. ~(k - q >= 1)
  <2>1. ASSUME k - q >= 1 PROVE FALSE
    <3>1. k - q - 1 \in Nat BY <1>1, <2>1
    <3>2. d * (k - q - 1) >= 0 /\ d * (k - q - 1) = d * (k - q) - d BY <1>1, <3>1
    <3>3. s - r < d BY <1>1
    <3> QED BY <1>1, <1>2, <3>2, <3>3
  <2> QED BY <2>1
<1>4. ~(k - q <= -1)
  <2>1. ASSUME k - q <= -1 PROVE FALSE
    <3>1. q - k - 1 \in Nat BY <1>1, <2>1
    <3>2. d * (q - k - 1) >= 0 /\ d * (q - k - 1) = -(d * (k - q)) - d BY <1>1, <3>1
    <3>3. r - s < d BY <1>1
    <3> QED BY <1>1, <1>2, <3>2, <3>3
  <2> QED BY <2>1
<1>5. k = q BY <1>1, <1>3, <1>4
<1>6. r = s BY <1>1, <1>2, <1>5
<1> QED BY <1>5, <1>6 DEF q, s

\* A descriptor leads to where it was set to.
LEMMA Descriptor ==
  ASSUME NEW b \in Nat
  PROVE  /\ Base(__set_descriptor(b, LOW - 1)) = b
         /\ __set_descriptor(b, LOW - 1).limit = LOW - 1
<1> DEFINE q == b \div LOW
           r == b % LOW
           k == q \div MID
           t == q % MID
<1>1. LOW \in Nat \ {0} /\ MID \in Nat \ {0} BY MachineSizes
<1>2. q \in Nat /\ r \in 0 .. LOW - 1 /\ b = LOW * q + r BY <1>1
<1>3. k \in Nat /\ t \in 0 .. MID - 1 /\ q = MID * k + t
  <2> HIDE DEF q
  <2> QED BY <1>1, <1>2
<1> HIDE DEF q, r, k, t
<1>4. b \div (LOW * MID) = k
  <2> DEFINE d == LOW * MID
             u == LOW * t + r
  <2>1. d \in Nat \ {0} BY <1>1
  <2>2. u \in 0 .. d - 1
    <3>1. LOW * t \in Nat /\ u \in Nat BY <1>1, <1>2, <1>3
    <3>2. MID - 1 - t \in Nat BY <1>1, <1>3
    <3>3. LOW * (MID - 1 - t) >= 0 BY <1>1, <3>2
    <3>4. LOW * (MID - 1 - t) = d - LOW - LOW * t BY <1>1, <1>3
    <3>5. u <= d - 1 BY <1>1, <1>2, <2>1, <3>1, <3>3, <3>4
    <3> QED BY <2>1, <3>1, <3>5
  <2>3. b = d * k + u BY <1>1, <1>2, <1>3
  <2> HIDE DEF d, u
  <2>4. b \div d = k BY <1>3, <2>1, <2>2, <2>3, Division
  <2> QED BY <2>4 DEF d
<1>5. Base(__set_descriptor(b, LOW - 1)) = r + LOW * (t + MID * k)
  BY <1>4 DEF Base, __set_descriptor, q, r, t
<1>6. LOW * (t + MID * k) = LOW * q BY <1>1, <1>3
<1>7. (LOW - 1) % (LOW * 16) = LOW - 1
  <2>1. LOW * 16 \in Nat \ {0} /\ LOW - 1 \in 0 .. LOW * 16 - 1 BY <1>1
  <2>2. LOW - 1 = (LOW * 16) * 0 + (LOW - 1) BY <1>1
  <2> QED BY <2>1, <2>2, Division
<1> QED BY <1>1, <1>2, <1>5, <1>6, <1>7 DEF __set_descriptor
-----------------------------------------------------------------------------
(* Loading *)

LEMMA SpanFacts ==
  ASSUME NEW S, NEW seq \in Seq(S), NEW set
  PROVE  /\ Span(seq, set) \in 0 .. Len(seq)
         /\ \A i \in 1 .. Span(seq, set) : seq[i] \in set
         /\ \A n \in 0 .. Len(seq) :
              (\A i \in 1 .. n : seq[i] \in set) => n <= Span(seq, set)
<1> DEFINE T == {n \in 0 .. Len(seq) : \A i \in 1 .. n : seq[i] \in set}
<1>1. Len(seq) \in Nat OBVIOUS
<1>2. 0 \in T /\ T \subseteq 0 .. Len(seq) BY <1>1
<1>3. Max(T) \in T /\ \A n \in T : n <= Max(T)
  <2> HIDE DEF T
  <2> QED BY <1>1, <1>2, MaxIs
<1>4. Span(seq, set) = Max(T) BY DEF Span
<1> QED BY <1>3, <1>4

\* The images that are loaded.
Header == [type : STRING, vaddr : Nat, offset : Nat, filesz : Nat]
LEMMA ImageFacts ==
  ASSUME NEW image \in Runnable
  PROVE  /\ image \in DOMAIN Images
         /\ Images[image].entry \in Nat
         /\ Images[image].bss.from \in Nat /\ Images[image].bss.to \in Nat
         /\ Images[image].headers \in Seq(Header)
         /\ Images[image].bss.from < Images[image].bss.to =>
              STACK <= Images[image].bss.from /\ Images[image].bss.to <= SEGMENT_SIZE
         /\ \A h \in Parts(image) :
              /\ h \in Header /\ STACK <= h.vaddr /\ h.vaddr + h.filesz <= SEGMENT_SIZE
              /\ \/ Images[image].bss.to <= h.vaddr
                 \/ h.vaddr + h.filesz <= Images[image].bss.from
              /\ \A g \in Parts(image) \ {h} :
                   g.vaddr + g.filesz <= h.vaddr \/ h.vaddr + h.filesz <= g.vaddr
         /\ \E h \in Parts(image) : Images[image].entry \in h.vaddr .. h.vaddr + h.filesz - 1
<1>1. image \in DOMAIN Images /\ (Images[image].valid \/ image = 0)
  BY ImagesAssumption DEF Runnable
<1>2. /\ Images[image].entry \in Nat
      /\ Images[image].bss.from \in Nat /\ Images[image].bss.to \in Nat
      /\ Images[image].headers \in Seq(Header)
      /\ Images[image].bss.from < Images[image].bss.to =>
           STACK <= Images[image].bss.from /\ Images[image].bss.to <= SEGMENT_SIZE
      /\ \A h \in Parts(image) :
           /\ STACK <= h.vaddr /\ h.vaddr + h.filesz <= SEGMENT_SIZE
           /\ \/ Images[image].bss.to <= h.vaddr
              \/ h.vaddr + h.filesz <= Images[image].bss.from
           /\ \A g \in Parts(image) \ {h} :
                g.vaddr + g.filesz <= h.vaddr \/ h.vaddr + h.filesz <= g.vaddr
      /\ \E h \in Parts(image) : Images[image].entry \in h.vaddr .. h.vaddr + h.filesz - 1
  BY <1>1, ImagesAssumption DEF Header
<1>3. \A h \in Parts(image) : h \in Header
  <2>1. ToSet(Images[image].headers) \subseteq Header BY <1>2 DEF ToSet
  <2> QED BY <2>1 DEF Parts
<1> QED BY <1>1, <1>2, <1>3

LEMMA KernelFacts ==
  /\ Kernel \in Runnable /\ ~Images[Kernel].valid
  /\ Images[Kernel].bss.from >= Images[Kernel].bss.to
  /\ \A h \in ToSet(Images[Kernel].headers) : h \in Parts(Kernel) /\ STACK < h.vaddr
BY ImagesAssumption DEF Runnable, Kernel, Parts

\* Among stores that cover a place one is the last.
LEMMA OneIsLast ==
  ASSUME NEW puts, NEW N \in Nat, DOMAIN puts = 1 .. N, NEW a
  PROVE  \/ Untouched(puts, a)
         \/ \E i \in 1 .. N : /\ Covers(puts[i], a)
                              /\ Final(puts, a, puts[i].bytes[a - puts[i].addr + 1])
<1> DEFINE over == {i \in 1 .. N : Covers(puts[i], a)}
<1>1. over = {} => Untouched(puts, a) BY DEF Untouched
<1>2. over # {} => Max(over) \in over /\ \A i \in over : i <= Max(over)
  <2>1. over \subseteq 0 .. N OBVIOUS
  <2> HIDE DEF over
  <2> QED BY <2>1, MaxIs
<1>3. over # {} => Final(puts, a, puts[Max(over)].bytes[a - puts[Max(over)].addr + 1])
  BY <1>2 DEF Final
<1> QED BY <1>1, <1>2, <1>3

\* _elf_load puts nothing in front of the end of the stack, and every part of
\* an image whose loadable headers come first where it was linked for.
LEMMA LoadFacts ==
  ASSUME NEW image \in Runnable
  PROVE  LET puts == _elf_load(image)
         IN  /\ puts \in Seq(Puts)
             /\ \A a \in Int : a < STACK => Untouched(puts, a)
             /\ Ordered(image) => \A h \in Parts(image) : \A k \in 0 .. h.filesz - 1 :
                  Final(puts, h.vaddr + k, FileByte(image, h.offset + k))
<1> DEFINE headers == Images[image].headers
           N == Span(headers, Parts(image))
           bytes(h) == [k \in 1 .. h.filesz |-> FileByte(image, h.offset + k - 1)]
           puts == _elf_load(image)
<1>1. headers \in Seq(Header) /\ STACK \in Nat BY ImageFacts, MachineSizes
<1>2. /\ N \in 0 .. Len(headers) /\ \A i \in 1 .. N : headers[i] \in Parts(image)
      /\ \A n \in 0 .. Len(headers) :
           (\A i \in 1 .. n : headers[i] \in Parts(image)) => n <= N
  BY <1>1, SpanFacts
<1>3. N \in Nat /\ Len(headers) \in Nat BY <1>1, <1>2
<1>4. DOMAIN puts = 1 .. N /\ \A i \in 1 .. N : puts[i] = Put(headers[i].vaddr, bytes(headers[i]))
  BY DEF _elf_load
<1>5. puts = [i \in 1 .. N |-> puts[i]] BY DEF _elf_load
<1>6. ASSUME NEW h \in Parts(image)
      PROVE  /\ h.vaddr \in Nat /\ h.filesz \in Nat /\ h.offset \in Nat
             /\ STACK <= h.vaddr /\ bytes(h) \in Seq(Contents)
             /\ Len(bytes(h)) = h.filesz
             /\ \A k \in 1 .. h.filesz : bytes(h)[k] = FileByte(image, h.offset + k - 1)
  <2>1. h \in Header /\ STACK <= h.vaddr BY ImageFacts
  <2>2. h.vaddr \in Nat /\ h.filesz \in Nat /\ h.offset \in Nat BY <2>1 DEF Header
  <2>3. ASSUME NEW k \in 1 .. h.filesz PROVE FileByte(image, h.offset + k - 1) \in Contents
    <3>1. h.offset + k - 1 \in Nat BY <2>2
    <3> QED BY <3>1, ContentsFacts
  <2>4. bytes(h) \in Seq(Contents) BY <2>2, <2>3
  <2> QED BY <2>1, <2>2, <2>4
<1> HIDE DEF bytes, puts, N, headers
<1>7. ASSUME NEW i \in 1 .. N
      PROVE  LET h == headers[i]
             IN  /\ puts[i] \in Puts
                 /\ puts[i].addr = h.vaddr /\ puts[i].bytes = bytes(h)
                 /\ \A a \in Int : Covers(puts[i], a)
                                     <=> a >= h.vaddr /\ a < h.vaddr + h.filesz
  <2> DEFINE h == headers[i]
  <2>1. h \in Parts(image) BY <1>2
  <2> HIDE DEF h
  <2>2. h.vaddr \in Int /\ bytes(h) \in Seq(Contents) /\ Len(bytes(h)) = h.filesz
    BY <1>6, <2>1
  <2>3. /\ Put(h.vaddr, bytes(h)) \in Puts
        /\ Put(h.vaddr, bytes(h)).addr = h.vaddr
        /\ Put(h.vaddr, bytes(h)).bytes = bytes(h)
        /\ \A a \in Int : Covers(Put(h.vaddr, bytes(h)), a)
                            <=> a >= h.vaddr /\ a < h.vaddr + h.filesz
    BY <2>2, PutFacts
  <2>4. puts[i] = Put(h.vaddr, bytes(h)) BY <1>4 DEF h
  <2> QED BY <2>3, <2>4 DEF h
<1>8. puts \in Seq(Puts) BY <1>3, <1>5, <1>7
<1>9. ASSUME NEW a \in Int, a < STACK PROVE Untouched(puts, a)
  <2>1. ASSUME NEW i \in 1 .. N PROVE ~Covers(puts[i], a)
    <3>1. headers[i] \in Parts(image) BY <1>2
    <3>2. headers[i].vaddr \in Nat /\ STACK <= headers[i].vaddr BY <1>6, <3>1
    <3>3. ~(a >= headers[i].vaddr) BY <1>1, <1>9, <3>2
    <3> QED BY <1>7, <3>3
  <2> QED BY <1>4, <2>1 DEF Untouched
<1>10. ASSUME Ordered(image), NEW h \in Parts(image), NEW k \in 0 .. h.filesz - 1
       PROVE  Final(puts, h.vaddr + k, FileByte(image, h.offset + k))
  <2> DEFINE a == h.vaddr + k
  <2>1. h.vaddr \in Nat /\ h.filesz \in Nat /\ h.offset \in Nat BY <1>6
  <2>2. a \in Int /\ a >= h.vaddr /\ a < h.vaddr + h.filesz BY <2>1
  <2>3. PICK j \in 1 .. Len(headers) : headers[j] = h
    BY <1>1 DEF Parts, ToSet, headers
  <2>4. \A i \in 1 .. j : headers[i] \in Parts(image)
    <3>1. ASSUME NEW i \in 1 .. j PROVE headers[i] \in Parts(image)
      <4>1. i \in 1 .. Len(headers) /\ (i < j \/ i = j) BY <1>3
      <4>2. DOMAIN headers = 1 .. Len(headers) BY <1>1
      <4>3. Loadable(headers[j]) BY <2>3 DEF Parts
      <4>4. Loadable(headers[i]) BY <1>10, <2>3, <4>1, <4>2, <4>3 DEF Ordered, headers
      <4>5. headers[i] \in ToSet(headers) BY <4>1, <4>2 DEF ToSet
      <4> QED BY <4>4, <4>5 DEF Parts, headers
    <3> QED BY <3>1
  <2>5. j \in 1 .. N
    <3>1. j \in 0 .. Len(headers) BY <1>3
    <3> QED BY <1>2, <1>3, <2>4, <3>1
  <2>6. Covers(puts[j], a)
    <3> HIDE DEF a
    <3> QED BY <1>7, <2>2, <2>3, <2>5
  <2>7. PICK i \in 1 .. N : /\ Covers(puts[i], a)
                            /\ Final(puts, a, puts[i].bytes[a - puts[i].addr + 1])
    <3> HIDE DEF a
    <3>1. ~Untouched(puts, a) BY <1>4, <2>5, <2>6 DEF Untouched
    <3> QED BY <1>3, <1>4, <3>1, OneIsLast
  <2>8. headers[i] = h
    <3> DEFINE g == headers[i]
    <3>1. g \in Parts(image) BY <1>2
    <3>2. a >= g.vaddr /\ a < g.vaddr + g.filesz BY <1>7, <2>2, <2>7
    <3>3. g.vaddr \in Nat /\ g.filesz \in Nat BY <1>6, <3>1
    <3> HIDE DEF g
    <3>4. g # h => g.vaddr + g.filesz <= h.vaddr \/ h.vaddr + h.filesz <= g.vaddr
      BY <3>1, ImageFacts
    <3>5. g = h BY <2>1, <2>2, <3>2, <3>3, <3>4
    <3> QED BY <3>5 DEF g
  <2>9. puts[i].bytes[a - puts[i].addr + 1] = FileByte(image, h.offset + k)
    <3>1. puts[i].bytes = bytes(h) /\ a - puts[i].addr + 1 = k + 1 BY <1>7, <2>1, <2>8
    <3>2. k + 1 \in 1 .. h.filesz /\ h.offset + (k + 1) - 1 = h.offset + k BY <2>1
    <3>3. bytes(h)[k + 1] = FileByte(image, h.offset + (k + 1) - 1) BY <1>6, <3>2
    <3> QED BY <3>1, <3>2, <3>3
  <2> QED BY <2>7, <2>9
<1> QED BY <1>8, <1>9, <1>10 DEF puts
-----------------------------------------------------------------------------
(* Names of images *)

LEMMA DigitFacts ==
  /\ \A c \in DOMAIN Digits : Digits[c] \in Nat
  /\ \A base, c : c \in DigitsOf(base) => c \in DOMAIN Digits /\ Digits[c] < base
  /\ \A base : DigitsOf(base) = {c \in DOMAIN Digits : Digits[c] < base}
  /\ "0" \in DOMAIN Digits /\ Digits["0"] = 0
  /\ "x" \notin DOMAIN Digits /\ "nul" \notin DOMAIN Digits
<1>1. DOMAIN Digits = {"0", "1", "2", "7", "8", "a"} BY DEF Digits
<1>2. /\ Digits["0"] = 0 /\ Digits["1"] = 1 /\ Digits["2"] = 2 /\ Digits["7"] = 7
      /\ Digits["8"] = 8 /\ Digits["a"] = 10
  BY DEF Digits
<1>3. "x" \notin DOMAIN Digits /\ "nul" \notin DOMAIN Digits BY <1>1
<1> QED BY <1>1, <1>2, <1>3 DEF DigitsOf

\* What the digits in front are worth, from the left.
IsNumber(value, str, base, n) ==
  /\ value[0] = 0 /\ \A i \in 0 .. n : value[i] \in Nat
  /\ \A i \in 1 .. n : value[i] = value[i - 1] * base + Digits[str[i]]

LEMMA NumberFacts ==
  ASSUME NEW S, NEW str \in Seq(S), NEW base \in Nat
  PROVE  LET n == Span(str, DigitsOf(base))
         IN  \E value : IsNumber(value, str, base, n) /\ Number(str, base) = value[n]
<1> DEFINE n == Span(str, DigitsOf(base))
           digit(i) == Digits[str[i]]
           step == [i \in 1 .. n |-> [v \in Nat |-> v * base + digit(i)]]
           Fits(value) == value = [i \in 0 .. n |-> IF i = 0 THEN 0
                                     ELSE value[i - 1] * base + Digits[str[i]]]
<1>1. n \in Nat /\ \A i \in 1 .. n : digit(i) \in Nat
  <2>1. n \in 0 .. Len(str) /\ \A i \in 1 .. n : str[i] \in DigitsOf(base)
    BY SpanFacts
  <2> HIDE DEF n
  <2> QED BY <2>1, DigitFacts
<1> HIDE DEF n, digit
<1>2. step \in [1 .. n -> [Nat -> Nat]]
  <2>1. \A i \in 1 .. n : \A v \in Nat : v * base + digit(i) \in Nat BY <1>1
  <2> QED BY <2>1
<1>3. PICK f \in [0 .. n -> Nat] : Repeats(f, 0, step, n)
  <2> HIDE DEF step
  <2> QED BY <1>1, <1>2, Repetition
<1>4. ASSUME NEW i \in 1 .. n PROVE f[i] = f[i - 1] * base + digit(i)
  <2>1. i - 1 \in 0 .. n /\ f[i - 1] \in Nat BY <1>1
  <2>2. f[i] = step[i][f[i - 1]] BY <1>3 DEF Repeats
  <2> QED BY <2>1, <2>2
<1>5. Fits(f)
  <2> HIDE DEF step
  <2>1. \A i \in 0 .. n : i = 0 \/ i \in 1 .. n BY <1>1
  <2>2. \A i \in 0 .. n : f[i] = IF i = 0 THEN 0 ELSE f[i - 1] * base + Digits[str[i]]
    BY <1>3, <1>4, <2>1 DEF Repeats, digit
  <2>3. f = [i \in 0 .. n |-> f[i]] OBVIOUS
  <2> QED BY <2>2, <2>3
<1> DEFINE value == CHOOSE value : Fits(value)
<1>6. Fits(value) BY <1>5
<1>7. Number(str, base) = value[n] BY DEF Number, n
<1> HIDE DEF value, step
<1>8. /\ value[0] = 0 /\ \A i \in 1 .. n : value[i] = value[i - 1] * base + digit(i)
  <2>1. \A i \in 0 .. n : value[i] = IF i = 0 THEN 0
                                     ELSE value[i - 1] * base + Digits[str[i]]
    BY <1>6
  <2>2. 0 \in 0 .. n /\ \A i \in 1 .. n : i \in 0 .. n /\ i # 0 BY <1>1
  <2> QED BY <2>1, <2>2 DEF digit
<1> HIDE DEF Fits
<1>9. \A i \in 0 .. n : value[i] \in Nat
  <2>1. ASSUME NEW i \in 1 .. n, value[i - 1] \in Nat PROVE value[i] \in Nat
    <3>1. value[i - 1] * base \in Nat BY <2>1
    <3> QED BY <1>1, <1>8, <3>1
  <2>2. value[0] \in Nat BY <1>8
  <2> QED BY <1>1, <2>1, <2>2, StepInduction
<1>10. IsNumber(value, str, base, n) BY <1>8, <1>9 DEF IsNumber, digit
<1> QED BY <1>7, <1>10 DEF n

\* And from the right.
IsWeight(weight, base, n) ==
  /\ weight[0] = 1 /\ \A i \in 0 .. n : weight[i] \in Nat
  /\ \A i \in 1 .. n : weight[i] = weight[i - 1] * base
IsSum(sum, weight, str, n) ==
  /\ sum[0] = 0
  /\ \A i \in 1 .. n : sum[i] = sum[i - 1] + Digits[str[i]] * weight[n - i]

LEMMA WeightedFacts ==
  ASSUME NEW S, NEW str \in Seq(S), NEW base \in Nat
  PROVE  LET n == Span(str, DigitsOf(base))
         IN  \E weight, sum : /\ IsWeight(weight, base, n) /\ IsSum(sum, weight, str, n)
                              /\ Weighted(str, base) = sum[n]
<1> DEFINE n == Span(str, DigitsOf(base))
           FitsW(weight) == weight = [i \in 0 .. n |-> IF i = 0 THEN 1
                                                       ELSE weight[i - 1] * base]
           weight == CHOOSE weight : FitsW(weight)
           FitsS(sum, w) == sum = [i \in 0 .. n |-> IF i = 0 THEN 0
                               ELSE sum[i - 1] + Digits[str[i]] * w[n - i]]
           sum == CHOOSE sum : FitsS(sum, weight)
<1>1. n \in Nat /\ \A i \in 1 .. n : Digits[str[i]] \in Nat
  <2>1. n \in 0 .. Len(str) /\ \A i \in 1 .. n : str[i] \in DigitsOf(base)
    BY SpanFacts
  <2> HIDE DEF n
  <2> QED BY <2>1, DigitFacts
<1>2. Weighted(str, base) = sum[n] BY DEF Weighted, n
<1> HIDE DEF n
<1>3. IsWeight(weight, base, n)
  <2> DEFINE step == [i \in 1 .. n |-> [v \in Nat |-> v * base]]
  <2>1. step \in [1 .. n -> [Nat -> Nat]]
    <3>1. \A i \in 1 .. n : \A v \in Nat : v * base \in Nat BY <1>1
    <3> QED BY <3>1
  <2>2. PICK f \in [0 .. n -> Nat] : Repeats(f, 1, step, n)
    <3> HIDE DEF step
    <3> QED BY <1>1, <2>1, Repetition
  <2>3. ASSUME NEW i \in 1 .. n PROVE f[i] = f[i - 1] * base
    <3>1. i - 1 \in 0 .. n /\ f[i - 1] \in Nat BY <1>1
    <3>2. f[i] = step[i][f[i - 1]] BY <2>2 DEF Repeats
    <3> QED BY <3>1, <3>2
  <2>4. FitsW(f)
    <3> HIDE DEF step
    <3>1. \A i \in 0 .. n : i = 0 \/ i \in 1 .. n BY <1>1
    <3>2. \A i \in 0 .. n : f[i] = IF i = 0 THEN 1 ELSE f[i - 1] * base
      BY <2>2, <2>3, <3>1 DEF Repeats
    <3>3. f = [i \in 0 .. n |-> f[i]] OBVIOUS
    <3> QED BY <3>2, <3>3
  <2>5. FitsW(weight) BY <2>4
  <2> HIDE DEF weight, step
  <2>6. weight[0] = 1 /\ \A i \in 1 .. n : weight[i] = weight[i - 1] * base
    <3>1. \A i \in 0 .. n : weight[i] = IF i = 0 THEN 1 ELSE weight[i - 1] * base
      BY <2>5
    <3>2. 0 \in 0 .. n /\ \A i \in 1 .. n : i \in 0 .. n /\ i # 0 BY <1>1
    <3> QED BY <3>1, <3>2
  <2> HIDE DEF FitsW
  <2>7. \A i \in 0 .. n : weight[i] \in Nat
    <3>1. ASSUME NEW i \in 1 .. n, weight[i - 1] \in Nat PROVE weight[i] \in Nat
      BY <1>1, <2>6, <3>1
    <3>2. weight[0] \in Nat BY <2>6
    <3> QED BY <1>1, <3>1, <3>2, StepInduction
  <2> QED BY <2>6, <2>7 DEF IsWeight
<1> HIDE DEF weight
<1>4. IsSum(sum, weight, str, n)
  <2> DEFINE term(i) == Digits[str[i]] * weight[n - i]
             step == [i \in 1 .. n |-> [v \in Nat |-> v + term(i)]]
  <2>1. \A i \in 1 .. n : term(i) \in Nat
    <3>1. \A i \in 1 .. n : n - i \in 0 .. n BY <1>1
    <3>2. \A i \in 1 .. n : weight[n - i] \in Nat BY <1>3, <3>1 DEF IsWeight
    <3> QED BY <1>1, <3>2
  <2> HIDE DEF term
  <2>2. step \in [1 .. n -> [Nat -> Nat]]
    <3>1. \A i \in 1 .. n : \A v \in Nat : v + term(i) \in Nat BY <2>1
    <3> QED BY <3>1
  <2>3. PICK f \in [0 .. n -> Nat] : Repeats(f, 0, step, n)
    <3> HIDE DEF step
    <3> QED BY <1>1, <2>2, Repetition
  <2>4. ASSUME NEW i \in 1 .. n PROVE f[i] = f[i - 1] + term(i)
    <3>1. i - 1 \in 0 .. n /\ f[i - 1] \in Nat BY <1>1
    <3>2. f[i] = step[i][f[i - 1]] BY <2>3 DEF Repeats
    <3> QED BY <3>1, <3>2
  <2>5. FitsS(f, weight)
    <3> HIDE DEF step
    <3>1. \A i \in 0 .. n : i = 0 \/ i \in 1 .. n BY <1>1
    <3>2. \A i \in 0 .. n : f[i] = IF i = 0 THEN 0
                                   ELSE f[i - 1] + Digits[str[i]] * weight[n - i]
      BY <2>3, <2>4, <3>1 DEF Repeats, term
    <3>3. f = [i \in 0 .. n |-> f[i]] OBVIOUS
    <3> QED BY <3>2, <3>3
  <2>6. FitsS(sum, weight) BY <2>5
  <2> HIDE DEF sum, step
  <2>7. \A i \in 0 .. n : sum[i] = IF i = 0 THEN 0
                                   ELSE sum[i - 1] + Digits[str[i]] * weight[n - i]
    BY <2>6
  <2>8. 0 \in 0 .. n /\ \A i \in 1 .. n : i \in 0 .. n /\ i # 0 BY <1>1
  <2> HIDE DEF FitsS
  <2> QED BY <2>7, <2>8 DEF IsSum
<1> QED BY <1>2, <1>3, <1>4 DEF n

\* Both ways of counting agree.
LEMMA NumberIsWeighted ==
  ASSUME NEW S, NEW str \in Seq(S), NEW base \in Nat
  PROVE  Number(str, base) = Weighted(str, base) /\ Number(str, base) \in Nat
<1> DEFINE n == Span(str, DigitsOf(base))
<1>1. n \in Nat /\ \A i \in 1 .. n : Digits[str[i]] \in Nat
  <2>1. n \in 0 .. Len(str) /\ \A i \in 1 .. n : str[i] \in DigitsOf(base)
    BY SpanFacts
  <2> HIDE DEF n
  <2> QED BY <2>1, DigitFacts
<1>2. PICK value : IsNumber(value, str, base, n) /\ Number(str, base) = value[n]
  BY NumberFacts
<1>3. PICK weight, sum : /\ IsWeight(weight, base, n) /\ IsSum(sum, weight, str, n)
                         /\ Weighted(str, base) = sum[n]
  BY WeightedFacts
<1> HIDE DEF n
<1> DEFINE T == {i \in Nat : i <= n => sum[i] = value[i] * weight[n - i]}
<1>4. 0 \in T
  <2>1. value[0] = 0 /\ sum[0] = 0 BY <1>2, <1>3 DEF IsNumber, IsSum
  <2>2. weight[n - 0] \in Nat BY <1>1, <1>3 DEF IsWeight
  <2> QED BY <2>1, <2>2
<1>5. ASSUME NEW i \in Nat, i \in T PROVE i + 1 \in T
  <2>1. SUFFICES ASSUME i + 1 <= n PROVE sum[i + 1] = value[i + 1] * weight[n - (i + 1)]
    OBVIOUS
  <2> DEFINE v == value[i]
             w == weight[n - (i + 1)]
             d == Digits[str[i + 1]]
  <2>2. i \in 0 .. n /\ i + 1 \in 1 .. n /\ (i + 1) - 1 = i /\ n - i \in 1 .. n
        /\ (n - i) - 1 = n - (i + 1) /\ n - (i + 1) \in 0 .. n
    BY <1>1, <2>1
  <2>3. v \in Nat /\ w \in Nat /\ d \in Nat
    BY <1>1, <1>2, <1>3, <2>2 DEF IsNumber, IsWeight
  <2>4. weight[n - i] = w * base BY <1>3, <2>2 DEF IsWeight
  <2>5. value[i + 1] = v * base + d BY <1>2, <2>2 DEF IsNumber
  <2>6. sum[i + 1] = sum[i] + d * w BY <1>3, <2>2 DEF IsSum
  <2>7. sum[i] = v * (w * base) BY <1>1, <1>5, <2>1, <2>4
  <2> HIDE DEF v, w, d
  <2>8. v * (w * base) + d * w = (v * base + d) * w BY <2>3
  <2> QED BY <2>5, <2>6, <2>7, <2>8 DEF w
<1>6. n \in T
  <2> HIDE DEF T
  <2> QED BY <1>1, <1>4, <1>5, SetInduction
<1>7. sum[n] = value[n] * weight[0] /\ n - n = 0 BY <1>1, <1>6
<1>8. weight[0] = 1 /\ value[n] \in Nat BY <1>1, <1>2, <1>3 DEF IsWeight, IsNumber
<1> QED BY <1>2, <1>3, <1>7, <1>8

\* A zero in front is worth nothing, and ends the number when no digit follows.
LEMMA FromFacts ==
  ASSUME NEW S, NEW seq \in Seq(S), NEW i \in 1 .. Len(seq) + 1
  PROVE  /\ From(seq, i) \in Seq(S) /\ Len(From(seq, i)) = Len(seq) - i + 1
         /\ \A k \in 1 .. Len(seq) - i + 1 : From(seq, i)[k] = seq[i + k - 1]
<1> DEFINE n == Len(seq)
<1>1. n \in Nat /\ DOMAIN seq = 1 .. n /\ \A k \in 1 .. n : seq[k] \in S OBVIOUS
<1>2. i \in 1 .. n + 1 OBVIOUS
<1>3. From(seq, i) = [k \in 1 .. n - i + 1 |-> seq[i + k - 1]]
  BY <1>1, <1>2 DEF From
<1> HIDE DEF n
<1>4. \A k \in 1 .. n - i + 1 : i + k - 1 \in 1 .. n BY <1>1, <1>2
<1>5. n - i + 1 \in Nat BY <1>1, <1>2
<1>6. From(seq, i) \in Seq(S) BY <1>1, <1>3, <1>4, <1>5
<1> QED BY <1>3, <1>5, <1>6 DEF n

LEMMA LeadingZero ==
  ASSUME NEW str \in Seq(STRING), Len(str) > 0, str[1] = "0", NEW base \in Nat, base > 0
  PROVE  /\ Number(str, base) = Number(From(str, 2), base)
         /\ Len(str) = 1 \/ str[2] \notin DigitsOf(base) => Number(str, base) = 0
<1> DEFINE D == DigitsOf(base)
           rest == From(str, 2)
           n == Span(str, D)
           m == Span(rest, D)
           len == Len(str)
<1>1. len \in Nat /\ len > 0 OBVIOUS
<1>2. /\ rest \in Seq(STRING) /\ Len(rest) = len - 1
      /\ \A k \in 1 .. len - 1 : rest[k] = str[k + 1]
  <2>1. 2 \in 1 .. len + 1 /\ len - 2 + 1 = len - 1
        /\ \A k \in 1 .. len - 1 : 2 + k - 1 = k + 1
    BY <1>1
  <2>2. /\ rest \in Seq(STRING) /\ Len(rest) = len - 2 + 1
        /\ \A k \in 1 .. len - 2 + 1 : rest[k] = str[2 + k - 1]
    BY <2>1, FromFacts
  <2> HIDE DEF rest, len
  <2> QED BY <2>1, <2>2
<1>3. "0" \in D /\ Digits["0"] = 0 BY DigitFacts
<1>4. /\ n \in 0 .. len /\ \A i \in 1 .. n : str[i] \in D
      /\ \A k \in 0 .. len : (\A i \in 1 .. k : str[i] \in D) => k <= n
  BY SpanFacts
<1>5. /\ m \in 0 .. len - 1 /\ \A i \in 1 .. m : rest[i] \in D
      /\ \A k \in 0 .. len - 1 : (\A i \in 1 .. k : rest[i] \in D) => k <= m
  <2>1. /\ m \in 0 .. Len(rest) /\ \A i \in 1 .. m : rest[i] \in D
        /\ \A k \in 0 .. Len(rest) : (\A i \in 1 .. k : rest[i] \in D) => k <= m
    <3> HIDE DEF rest, D
    <3> QED BY <1>2, SpanFacts
  <2> HIDE DEF rest, m
  <2> QED BY <1>2, <2>1
<1>6. PICK value : IsNumber(value, str, base, n) /\ Number(str, base) = value[n]
  BY NumberFacts
<1>7. PICK after : IsNumber(after, rest, base, m) /\ Number(rest, base) = after[m]
  <2> HIDE DEF rest
  <2> QED BY <1>2, NumberFacts
<1> HIDE DEF D, rest, n, m, len
<1>8. n = m + 1
  <2>1. \A i \in 1 .. m + 1 : str[i] \in D
    <3>1. ASSUME NEW i \in 1 .. m + 1 PROVE str[i] \in D
      <4>1. CASE i = 1 BY <1>3, <4>1
      <4>2. CASE i # 1
        <5>1. i - 1 \in 1 .. m /\ i - 1 \in 1 .. len - 1 /\ (i - 1) + 1 = i
          BY <1>1, <1>5, <4>2
        <5> QED BY <1>2, <1>5, <5>1
      <4> QED BY <4>1, <4>2
    <3> QED BY <3>1
  <2>2. m + 1 <= n
    <3>1. m + 1 \in 0 .. len BY <1>1, <1>5
    <3> QED BY <1>4, <2>1, <3>1
  <2>3. n >= 1 BY <1>4, <1>5, <2>2
  <2>4. \A i \in 1 .. n - 1 : rest[i] \in D
    <3>1. \A i \in 1 .. n - 1 : i \in 1 .. len - 1 /\ i + 1 \in 1 .. n BY <1>1, <1>4
    <3> QED BY <1>2, <1>4, <3>1
  <2>5. n - 1 <= m
    <3>1. n - 1 \in 0 .. len - 1 BY <1>1, <1>4, <2>3
    <3> QED BY <1>5, <2>4, <3>1
  <2> QED BY <1>4, <1>5, <2>2, <2>5
<1>9. value[1] = 0 /\ after[0] = 0
  <2>1. 1 \in 1 .. n BY <1>5, <1>8
  <2>2. value[1] = value[1 - 1] * base + Digits[str[1]] BY <1>6, <2>1 DEF IsNumber
  <2>3. value[0] = 0 /\ after[0] = 0 BY <1>6, <1>7 DEF IsNumber
  <2> QED BY <1>3, <2>2, <2>3
<1>10. value[m + 1] = after[m]
  <2> DEFINE T == {i \in Nat : i <= m => value[i + 1] = after[i]}
  <2>1. 0 \in T BY <1>9
  <2>2. ASSUME NEW i \in Nat, i \in T PROVE i + 1 \in T
    <3>1. SUFFICES ASSUME i + 1 <= m PROVE value[(i + 1) + 1] = after[i + 1]
      OBVIOUS
    <3>2. /\ i + 1 \in 1 .. m /\ (i + 1) - 1 = i /\ (i + 1) + 1 \in 1 .. n
          /\ ((i + 1) + 1) - 1 = i + 1 /\ i + 1 \in 1 .. len - 1
      BY <1>1, <1>4, <1>5, <1>8, <3>1
    <3>3. after[i + 1] = after[i] * base + Digits[rest[i + 1]]
      BY <1>7, <3>2 DEF IsNumber
    <3>4. value[(i + 1) + 1] = value[i + 1] * base + Digits[str[(i + 1) + 1]]
      BY <1>6, <3>2 DEF IsNumber
    <3>5. rest[i + 1] = str[(i + 1) + 1] BY <1>2, <3>2
    <3>6. value[i + 1] = after[i] BY <1>5, <2>2, <3>1
    <3> QED BY <3>3, <3>4, <3>5, <3>6
  <2>3. m \in T
    <3> HIDE DEF T
    <3>1. m \in Nat BY <1>5
    <3> QED BY <2>1, <2>2, <3>1, SetInduction
  <2> QED BY <1>5, <2>3
<1>11. ASSUME Len(str) = 1 \/ str[2] \notin D PROVE Number(str, base) = 0
  <2>1. ~(m >= 1)
    <3>1. ASSUME m >= 1 PROVE FALSE
      <4>1. 1 \in 1 .. m /\ 1 \in 1 .. len - 1 /\ 1 + 1 = 2 BY <1>1, <1>5, <3>1
      <4>2. str[2] \in D /\ len # 1 BY <1>2, <1>5, <4>1
      <4> QED BY <1>11, <4>2 DEF len
    <3> QED BY <3>1
  <2>2. m = 0 BY <1>5, <2>1
  <2> QED BY <1>7, <1>8, <1>9, <1>10, <1>6, <2>2
<1> QED BY <1>6, <1>7, <1>8, <1>10, <1>11 DEF rest, D

\* A plain name is read as it is written.
LEMMA PlainNames ==
  ASSUME NEW name \in Seq(STRING), IsPlain(name)
  PROVE  strtol(name) = Written(name) /\ Written(name) \in Nat
<1> DEFINE len == Len(name)
<1>1. len \in Nat /\ DOMAIN name = 1 .. len OBVIOUS
<1>2. PICK i \in 1 .. len : name[i] = "0" /\ \A j \in 1 .. i - 1 : name[j] = " "
  BY <1>1 DEF IsPlain
<1>3. ASSUME NEW set, " " \in set, "0" \notin set
      PROVE  Span(name, set) = i - 1
  <2> DEFINE n == Span(name, set)
  <2>1. /\ n \in 0 .. len /\ \A j \in 1 .. n : name[j] \in set
        /\ \A k \in 0 .. len : (\A j \in 1 .. k : name[j] \in set) => k <= n
    BY SpanFacts
  <2> HIDE DEF n, len
  <2>2. i - 1 <= n
    <3>1. i - 1 \in 0 .. len BY <1>1
    <3> QED BY <1>2, <1>3, <2>1, <3>1
  <2>3. ~(i <= n)
    <3>1. ASSUME i <= n PROVE FALSE
      <4>1. i \in 1 .. n BY <1>1, <2>1, <3>1
      <4> QED BY <1>2, <1>3, <2>1, <4>1
    <3> QED BY <3>1
  <2>4. n = i - 1 BY <1>1, <2>1, <2>2, <2>3
  <2> QED BY <2>4 DEF n
<1> DEFINE str == From(name, i)
           second == IF Len(str) > 1 THEN str[2] ELSE "nul"
<1>4. Span(name, {" "}) = i - 1 BY <1>3
<1>5. Span(name, ToSet(name) \ {"0"}) = i - 1
  <2>1. CASE i = 1
    <3> DEFINE set == ToSet(name) \ {"0"}
               n == Span(name, set)
    <3>1. n \in 0 .. len /\ \A j \in 1 .. n : name[j] \in set BY SpanFacts
    <3> HIDE DEF n
    <3>2. ~(n >= 1)
      <4>1. ASSUME n >= 1 PROVE FALSE
        <5>1. n \in Int /\ 1 <= n BY <1>1, <3>1, <4>1
        <5>2. 1 \in 1 .. n BY <5>1
        <5>3. name[1] \in set BY <3>1, <5>2
        <5> QED BY <1>2, <2>1, <5>3
      <4> QED BY <4>1
    <3>3. n = 0 BY <1>1, <3>1, <3>2
    <3> QED BY <2>1, <3>3 DEF n
  <2>2. CASE i # 1
    <3>1. 1 \in 1 .. i - 1 /\ 1 \in 1 .. len BY <1>1, <2>2
    <3>2. " " \in ToSet(name) BY <1>1, <1>2, <3>1 DEF ToSet
    <3>3. " " \in ToSet(name) \ {"0"} BY <3>2
    <3> QED BY <1>3, <3>3
  <2> QED BY <2>1, <2>2
<1>6. (i - 1) + 1 = i BY <1>1
<1>7. /\ str \in Seq(STRING) /\ Len(str) > 0 /\ str[1] = "0" /\ Len(str) \in Nat
  <2>1. i \in 1 .. len + 1 BY <1>1
  <2>2. /\ str \in Seq(STRING) /\ Len(str) = len - i + 1
        /\ \A k \in 1 .. len - i + 1 : str[k] = name[i + k - 1]
    BY <2>1, FromFacts
  <2> HIDE DEF str, len
  <2>3. 1 \in 1 .. len - i + 1 /\ i + 1 - 1 = i BY <1>1
  <2>4. str[1] = name[i] BY <2>2, <2>3
  <2>5. Len(str) > 0 /\ Len(str) \in Nat BY <1>1, <2>2
  <2> QED BY <1>2, <2>2, <2>4, <2>5
<1>8. strtol(name) = CASE second \in DigitsOf(10) -> Number(From(str, 2), 8)
                       [] second = "x" -> Number(From(str, 3), 16)
                       [] OTHER -> Number(str, 10)
  BY <1>5, <1>6 DEF strtol
<1>9. Written(name) = IF Len(str) > 1 /\ str[1] = "0" /\ str[2] = "x"
                      THEN Weighted(From(str, 3), 16)
                      ELSE Weighted(str, IF str # <<>> /\ str[1] = "0" THEN 8 ELSE 10)
  BY <1>4, <1>6 DEF Written
<1> HIDE DEF str
<1>10. str # <<>> BY <1>7
<1>11. /\ From(str, 2) \in Seq(STRING)
       /\ Len(str) > 1 => From(str, 3) \in Seq(STRING)
  <2>1. 2 \in 1 .. Len(str) + 1 /\ (Len(str) > 1 => 3 \in 1 .. Len(str) + 1) BY <1>7
  <2> QED BY <1>7, <2>1, FromFacts
<1>12. CASE Len(str) > 1 /\ str[2] = "x"
  <2>1. second = "x" /\ second \notin DigitsOf(10) BY <1>12, DigitFacts
  <2>2. strtol(name) = Number(From(str, 3), 16) BY <1>8, <2>1
  <2>3. Written(name) = Weighted(From(str, 3), 16) BY <1>7, <1>9, <1>12
  <2>4. /\ Number(From(str, 3), 16) = Weighted(From(str, 3), 16)
        /\ Number(From(str, 3), 16) \in Nat
    BY <1>11, <1>12, NumberIsWeighted
  <2> QED BY <2>2, <2>3, <2>4
<1>13. CASE ~(Len(str) > 1 /\ str[2] = "x")
  <2>1. Written(name) = Weighted(str, 8) BY <1>7, <1>9, <1>10, <1>13
  <2>2. Number(str, 8) = Weighted(str, 8) /\ Number(str, 8) \in Nat
    BY <1>7, NumberIsWeighted
  <2>3. CASE second \in DigitsOf(10)
    <3>1. strtol(name) = Number(From(str, 2), 8)
      <4>1. second # "x" BY <2>3, DigitFacts
      <4> QED BY <1>8, <2>3, <4>1
    <3>2. Number(str, 8) = Number(From(str, 2), 8) BY <1>7, LeadingZero
    <3> QED BY <2>1, <2>2, <3>1, <3>2
  <2>4. CASE second \notin DigitsOf(10)
    <3>1. second # "x" BY <1>13
    <3>2. strtol(name) = Number(str, 10) BY <1>8, <2>4, <3>1
    <3>3. Len(str) = 1 \/ str[2] \notin DigitsOf(10)
      <4>1. CASE Len(str) > 1 BY <2>4, <4>1
      <4>2. CASE ~(Len(str) > 1) BY <1>7, <4>2
      <4> QED BY <4>1, <4>2
    <3>4. Number(str, 10) = 0 BY <1>7, <3>3, LeadingZero
    <3>5. DigitsOf(8) \subseteq DigitsOf(10)
      <4>1. ASSUME NEW c \in DigitsOf(8) PROVE c \in DigitsOf(10)
        <5>1. c \in DOMAIN Digits /\ Digits[c] < 8 /\ Digits[c] \in Nat BY DigitFacts
        <5>2. Digits[c] < 10 BY <5>1
        <5> QED BY <5>1, <5>2 DEF DigitsOf
      <4> QED BY <4>1
    <3>6. Number(str, 8) = 0 BY <1>7, <3>3, <3>5, LeadingZero
    <3> QED BY <2>1, <2>2, <3>2, <3>4, <3>6
  <2> QED BY <2>3, <2>4
<1> QED BY <1>12, <1>13
-----------------------------------------------------------------------------
(* The inductive invariant *)

Places == {"main", "_start", "function", "refused", "overrun", "wild"}
XTypeOK ==
  /\ ram \in [0 .. MEMORY - 1 -> Contents]
  /\ segment \in Segments
  /\ ldt = __set_descriptor(segment, LOW - 1)
  /\ eip \in 0 .. SEGMENT_SIZE - 1
  /\ at \in Places
  /\ asked \in Int
  /\ argv \in Strings

\* What the memory m holds of the segment at base: an image, zeros in its BSS,
\* words, strings, and the arguments of main as top leads to them.
HoldsImage(m, base, image) ==
  \A h \in Parts(image) : \A k \in 0 .. h.filesz - 1 :
    m[base + (h.vaddr + k)] = FileByte(image, h.offset + k)
HoldsZeros(m, base, image) ==
  \A a \in Images[image].bss.from .. Images[image].bss.to - 1 : m[base + a] = Nul
WordAt(m, base, a, v) ==
  \A k \in 1 .. WORD : /\ a + k - 1 \in 0 .. STACK - 1
                       /\ m[base + (a + k - 1)] = Word(v)[k]
StringAt(m, base, a, string) ==
  \A k \in 1 .. Len(string) + 1 : /\ a + k - 1 \in 0 .. STACK - 1
                                  /\ m[base + (a + k - 1)] = Bytes(string)[k]
ArgumentsAt(m, base, top, strings) ==
  /\ WordAt(m, base, top, Len(strings))
  /\ \E array \in 0 .. STACK - 1 :
       /\ WordAt(m, base, top + WORD, array)
       /\ \A i \in 1 .. Len(strings) : \E p \in 0 .. STACK - 1 :
            /\ WordAt(m, base, array + (i - 1) * WORD, p)
            /\ StringAt(m, base, p, strings[i])

\* The kernel's image runs until there is another; a program that was asked for
\* by its plain name is in place from the moment execve returns to it.
KernelRuns ==
  /\ at \in {"_start", "wild"} => asked # Kernel
  /\ at = "function" => asked = Kernel
  /\ at \in {"main", "function"} /\ asked = Kernel =>
       HoldsImage(ram, segment, Kernel) /\ eip = Images[Kernel].entry
ImageRuns ==
  /\ at = "refused" /\ asked >= 0 => ~_elf_valid(asked)
  /\ asked > 0 /\ Proper(argv) /\ Ordered(asked) =>
       /\ at # "wild"
       /\ at \in {"_start", "main"} =>
            /\ asked \in Runnable /\ HoldsImage(ram, segment, asked)
            /\ eip = Images[asked].entry
       /\ at = "main" => HoldsZeros(ram, segment, asked)
ArgumentsThere ==
  /\ at \in {"_start", "main"} /\ argv # <<>> /\ Proper(argv) =>
       ArgumentsAt(ram, segment, esp, argv)
  /\ at = "function" => WordAt(ram, segment, esp, EXIT)

XInv == XTypeOK /\ KernelRuns /\ ImageRuns /\ ArgumentsThere

\* Memory after stores into a segment.
LEMMA StoredAt ==
  ASSUME NEW m, NEW base \in Int, NEW puts \in Seq(Puts), NEW a \in Int,
         base + a \in DOMAIN m
  PROVE  /\ Untouched(puts, a) => Stored(m, base, puts)[base + a] = m[base + a]
         /\ \A v : Final(puts, a, v) => Stored(m, base, puts)[base + a] = v
<1>1. Len(puts) \in Nat /\ DOMAIN puts = 1 .. Len(puts) OBVIOUS
<1> DEFINE b == base + a
<1>2. b \in DOMAIN m /\ b - base = a OBVIOUS
<1> HIDE DEF b
<1>3. Untouched(puts, b - base) => Stored(m, base, puts)[b] = m[b]
  BY <1>1, <1>2, StoredFacts
<1>4. ASSUME NEW v, Final(puts, b - base, v) PROVE Stored(m, base, puts)[b] = v
  BY <1>1, <1>2, <1>4, StoredFacts
<1> QED BY <1>2, <1>3, <1>4 DEF b

LEMMA AfterStores ==
  ASSUME NEW m \in [0 .. MEMORY - 1 -> Contents], NEW base \in Segments,
         NEW puts \in Seq(Puts)
  PROVE  /\ Stored(m, base, puts) \in [0 .. MEMORY - 1 -> Contents]
         /\ \A a \in 0 .. SEGMENT_SIZE - 1 :
              /\ Untouched(puts, a) => Stored(m, base, puts)[base + a] = m[base + a]
              /\ \A v : Final(puts, a, v) => Stored(m, base, puts)[base + a] = v
<1>1. base \in Nat /\ base + SEGMENT_SIZE <= MEMORY /\ SEGMENT_SIZE \in Nat /\ MEMORY \in Nat
  BY MachineSizes
<1>2. Stored(m, base, puts) \in [0 .. MEMORY - 1 -> Contents]
  <2>1. 0 .. MEMORY - 1 \subseteq Int /\ base \in Int BY <1>1
  <2> QED BY <2>1, StoredTyped
<1>3. ASSUME NEW a \in 0 .. SEGMENT_SIZE - 1
      PROVE  /\ Untouched(puts, a) => Stored(m, base, puts)[base + a] = m[base + a]
             /\ \A v : Final(puts, a, v) => Stored(m, base, puts)[base + a] = v
  <2>1. base + a \in DOMAIN m /\ base \in Int /\ a \in Int BY <1>1
  <2>2. ASSUME Untouched(puts, a)
        PROVE  Stored(m, base, puts)[base + a] = m[base + a]
    BY <2>1, <2>2, StoredAt
  <2>3. ASSUME NEW v, Final(puts, a, v) PROVE Stored(m, base, puts)[base + a] = v
    BY <2>1, <2>3, StoredAt
  <2> QED BY <2>2, <2>3
<1> QED BY <1>2, <1>3

\* What nothing is stored over stays.
LEMMA Undisturbed ==
  ASSUME NEW m \in [0 .. MEMORY - 1 -> Contents], NEW base \in Segments,
         NEW puts \in Seq(Puts), \A a \in Int : a < STACK => Untouched(puts, a)
  PROVE  /\ \A a, v : WordAt(m, base, a, v) => WordAt(Stored(m, base, puts), base, a, v)
         /\ \A a, s : StringAt(m, base, a, s) => StringAt(Stored(m, base, puts), base, a, s)
         /\ \A a, s : ArgumentsAt(m, base, a, s)
                        => ArgumentsAt(Stored(m, base, puts), base, a, s)
<1> DEFINE after == Stored(m, base, puts)
<1>1. \A a \in 0 .. STACK - 1 : after[base + a] = m[base + a]
  <2>1. ASSUME NEW a \in 0 .. STACK - 1 PROVE after[base + a] = m[base + a]
    <3>1. a \in 0 .. SEGMENT_SIZE - 1 /\ a \in Int /\ a < STACK BY MachineSizes
    <3>2. Untouched(puts, a) BY <3>1
    <3> QED BY <3>1, <3>2, AfterStores
  <2> QED BY <2>1
<1> HIDE DEF after
<1>2. ASSUME NEW a, NEW v, WordAt(m, base, a, v) PROVE WordAt(after, base, a, v)
  BY <1>1, <1>2 DEF WordAt
<1>3. ASSUME NEW a, NEW s, StringAt(m, base, a, s) PROVE StringAt(after, base, a, s)
  BY <1>1, <1>3 DEF StringAt
<1>4. ASSUME NEW a, NEW s, ArgumentsAt(m, base, a, s) PROVE ArgumentsAt(after, base, a, s)
  <2>1. WordAt(after, base, a, Len(s)) BY <1>2, <1>4 DEF ArgumentsAt
  <2>2. PICK array \in 0 .. STACK - 1 :
           /\ WordAt(m, base, a + WORD, array)
           /\ \A i \in 1 .. Len(s) : \E p \in 0 .. STACK - 1 :
                /\ WordAt(m, base, array + (i - 1) * WORD, p)
                /\ StringAt(m, base, p, s[i])
    BY <1>4 DEF ArgumentsAt
  <2>3. WordAt(after, base, a + WORD, array) BY <1>2, <2>2
  <2>4. \A i \in 1 .. Len(s) : \E p \in 0 .. STACK - 1 :
          /\ WordAt(after, base, array + (i - 1) * WORD, p)
          /\ StringAt(after, base, p, s[i])
    <3>1. ASSUME NEW i \in 1 .. Len(s)
          PROVE  \E p \in 0 .. STACK - 1 :
                   /\ WordAt(after, base, array + (i - 1) * WORD, p)
                   /\ StringAt(after, base, p, s[i])
      <4>1. PICK p \in 0 .. STACK - 1 : /\ WordAt(m, base, array + (i - 1) * WORD, p)
                                        /\ StringAt(m, base, p, s[i])
        BY <2>2
      <4>2. WordAt(after, base, array + (i - 1) * WORD, p) BY <1>2, <4>1
      <4>3. StringAt(after, base, p, s[i]) BY <1>3, <4>1
      <4> QED BY <4>2, <4>3
    <3> QED BY <3>1
  <2> QED BY <2>1, <2>3, <2>4 DEF ArgumentsAt
<1> QED BY <1>2, <1>3, <1>4 DEF after

\* _exec_common: where the new stack is stored last, and the image is behind it.
LEMMA NewSegment ==
  ASSUME NEW m \in [0 .. MEMORY - 1 -> Contents], NEW base \in Segments,
         NEW contents \in Seq(Puts), NEW strings \in Strings, NEW isExec \in BOOLEAN,
         Prepared(strings, isExec).esp - CONTEXT >= 0
  PROVE  LET p == Prepared(strings, isExec)
             after == Stored(m, base, contents \o p.puts)
         IN  /\ after \in [0 .. MEMORY - 1 -> Contents]
             /\ \A a \in 0 .. SEGMENT_SIZE - 1 :
                  a > STACK \/ (a >= STACK /\ Proper(strings))
                    => \A v : Final(contents, a, v) => after[base + a] = v
             /\ ~isExec /\ Proper(strings) /\ strings # <<>>
                  => ArgumentsAt(after, base, p.esp, strings)
             /\ isExec => WordAt(after, base, p.esp, EXIT)
<1> DEFINE p == Prepared(strings, isExec)
           top == p.esp
           puts == p.puts
           all == contents \o puts
           after == Stored(m, base, all)
<1>1. /\ top \in Nat /\ top + WORD <= STACK /\ puts \in Seq(Puts)
      /\ \A a \in Int : a > STACK => Untouched(puts, a)
      /\ Proper(strings) => \A a \in Int : a >= STACK => Untouched(puts, a)
      /\ ~isExec /\ Proper(strings) /\ strings # <<>>
           => StoresArguments(puts, top, strings)
      /\ isExec => StoresWord(puts, top, EXIT)
  BY PreparedFacts
<1> HIDE DEF p, top, puts
<1>2. ASSUME NEW a
      PROVE  /\ all \in Seq(Puts)
             /\ \A v : Final(puts, a, v) => Final(all, a, v)
             /\ \A v : Final(contents, a, v) /\ Untouched(puts, a) => Final(all, a, v)
  BY <1>1, LaterPuts
<1> HIDE DEF all
<1>3. /\ after \in [0 .. MEMORY - 1 -> Contents]
      /\ \A a \in 0 .. SEGMENT_SIZE - 1 : \A v : Final(all, a, v) => after[base + a] = v
  BY <1>2, AfterStores
<1> HIDE DEF after
<1>4. /\ STACK \in Nat /\ SEGMENT_SIZE \in Nat /\ STACK < SEGMENT_SIZE
      /\ WORD \in Nat /\ WORD >= 2
  BY MachineSizes
<1>5. ASSUME NEW a \in 0 .. SEGMENT_SIZE - 1,
             a > STACK \/ (a >= STACK /\ Proper(strings)),
             NEW v, Final(contents, a, v)
      PROVE  after[base + a] = v
  <2>1. a \in Int /\ Untouched(puts, a) BY <1>1, <1>4, <1>5
  <2> QED BY <1>2, <1>3, <1>5, <2>1
<1>6. ASSUME NEW a \in 0 .. STACK - 1, NEW v, Final(puts, a, v)
      PROVE  after[base + a] = v
  <2>1. a \in 0 .. SEGMENT_SIZE - 1 BY <1>4
  <2> QED BY <1>2, <1>3, <1>6, <2>1
<1>7. ASSUME isExec PROVE WordAt(after, base, top, EXIT)
  <2>1. \A k \in 1 .. WORD : top + k - 1 \in 0 .. STACK - 1 BY <1>1, <1>4
  <2>2. \A k \in 1 .. WORD : Final(puts, top + k - 1, Word(EXIT)[k])
    BY <1>1, <1>7 DEF StoresWord
  <2> QED BY <1>6, <2>1, <2>2 DEF WordAt
<1>8. ASSUME Proper(strings), NEW a \in Int, a >= 0, NEW v, StoresWord(puts, a, v)
      PROVE  WordAt(after, base, a, v)
  <2>1. ASSUME NEW k \in 1 .. WORD
        PROVE  /\ a + k - 1 \in 0 .. STACK - 1
               /\ after[base + (a + k - 1)] = Word(v)[k]
    <3> DEFINE b == a + k - 1
    <3>1. b \in Int /\ b >= 0 BY <1>4, <1>8
    <3>2. Final(puts, b, Word(v)[k]) BY <1>8 DEF StoresWord
    <3> HIDE DEF b
    <3>3. ~Untouched(puts, b) BY <3>2 DEF Untouched, Final
    <3>4. b < STACK BY <1>1, <1>4, <1>8, <3>1, <3>3
    <3>5. b \in 0 .. STACK - 1 BY <1>4, <3>1, <3>4
    <3> QED BY <1>6, <3>2, <3>5 DEF b
  <2> QED BY <2>1 DEF WordAt
<1>9. ASSUME Proper(strings), NEW a \in Int, a >= 0, NEW s, Len(s) \in Nat,
             StoresString(puts, a, s)
      PROVE  StringAt(after, base, a, s)
  <2>1. ASSUME NEW k \in 1 .. Len(s) + 1
        PROVE  /\ a + k - 1 \in 0 .. STACK - 1
               /\ after[base + (a + k - 1)] = Bytes(s)[k]
    <3> DEFINE b == a + k - 1
    <3>1. b \in Int /\ b >= 0 BY <1>9
    <3>2. Final(puts, b, Bytes(s)[k]) BY <1>9 DEF StoresString
    <3> HIDE DEF b
    <3>3. ~Untouched(puts, b) BY <3>2 DEF Untouched, Final
    <3>4. b < STACK BY <1>1, <1>4, <1>9, <3>1, <3>3
    <3>5. b \in 0 .. STACK - 1 BY <1>4, <3>1, <3>4
    <3> QED BY <1>6, <3>2, <3>5 DEF b
  <2> QED BY <2>1 DEF StringAt
<1>10. ASSUME ~isExec, Proper(strings), strings # <<>>
       PROVE  ArgumentsAt(after, base, top, strings)
  <2>1. StoresArguments(puts, top, strings) BY <1>1, <1>10
  <2>2. WordAt(after, base, top, Len(strings))
    BY <1>1, <1>8, <1>10, <2>1 DEF StoresArguments
  <2>3. PICK array \in 0 .. STACK - 1 :
          /\ StoresWord(puts, top + WORD, array)
          /\ \A i \in 1 .. Len(strings) : \E q \in 0 .. STACK - 1 :
               /\ StoresWord(puts, array + (i - 1) * WORD, q)
               /\ StoresString(puts, q, strings[i])
    BY <2>1 DEF StoresArguments
  <2>4. WordAt(after, base, top + WORD, array)
    <3>1. top + WORD \in Int /\ top + WORD >= 0 BY <1>1, <1>4
    <3> QED BY <1>8, <1>10, <2>3, <3>1
  <2>5. ASSUME NEW i \in 1 .. Len(strings)
        PROVE  \E q \in 0 .. STACK - 1 : /\ WordAt(after, base, array + (i - 1) * WORD, q)
                                         /\ StringAt(after, base, q, strings[i])
    <3>1. PICK q \in 0 .. STACK - 1 : /\ StoresWord(puts, array + (i - 1) * WORD, q)
                                      /\ StoresString(puts, q, strings[i])
      BY <2>3
    <3>2. array + (i - 1) * WORD \in Int /\ array + (i - 1) * WORD >= 0
      <4>1. strings \in Seq(Seq(STRING)) BY DEF Strings
      <4>2. Len(strings) \in Nat BY <4>1
      <4>3. i - 1 \in Nat BY <4>2
      <4>4. (i - 1) * WORD \in Nat BY <1>4, <4>3
      <4> QED BY <1>4, <4>4
    <3>3. Len(strings[i]) \in Nat
      <4>1. strings \in Seq(Seq(STRING)) BY DEF Strings
      <4>2. strings[i] \in Seq(STRING) BY <4>1
      <4> QED BY <4>2
    <3>4. q \in Int /\ q >= 0 BY <1>4
    <3> QED BY <1>8, <1>9, <1>10, <3>1, <3>2, <3>3, <3>4
  <2> QED BY <2>2, <2>3, <2>4, <2>5 DEF ArgumentsAt
<1> QED BY <1>3, <1>5, <1>7, <1>10 DEF after, all, top, puts, p

\* An image in a segment, when what was loaded is still there.
LEMMA LoadedImage ==
  ASSUME NEW m, NEW base, NEW image \in Runnable, Ordered(image),
         \A h \in Parts(image) : \A k \in 0 .. h.filesz - 1 :
           h.vaddr + k \in 0 .. SEGMENT_SIZE - 1 /\ h.vaddr + k >= STACK
             => \A v : Final(_elf_load(image), h.vaddr + k, v)
                         => m[base + (h.vaddr + k)] = v
  PROVE  HoldsImage(m, base, image)
<1> SUFFICES ASSUME NEW h \in Parts(image), NEW k \in 0 .. h.filesz - 1
             PROVE  m[base + (h.vaddr + k)] = FileByte(image, h.offset + k)
  BY DEF HoldsImage
<1>1. /\ h \in Header /\ STACK <= h.vaddr /\ h.vaddr + h.filesz <= SEGMENT_SIZE
  BY ImageFacts
<1>2. h.vaddr \in Nat /\ h.filesz \in Nat /\ STACK \in Nat /\ SEGMENT_SIZE \in Nat
  BY <1>1, MachineSizes DEF Header
<1>3. h.vaddr + k \in 0 .. SEGMENT_SIZE - 1 /\ h.vaddr + k >= STACK BY <1>1, <1>2
<1>4. Final(_elf_load(image), h.vaddr + k, FileByte(image, h.offset + k)) BY LoadFacts
<1> QED BY <1>3, <1>4

LEMMA EntryFacts ==
  ASSUME NEW image \in Runnable
  PROVE  /\ Images[image].entry \in 0 .. SEGMENT_SIZE - 1
         /\ \A m, base : HoldsImage(m, base, image) =>
              \E n : m[base + Images[image].entry] = FileByte(image, n)
<1> DEFINE entry == Images[image].entry
<1>1. PICK h \in Parts(image) : entry \in h.vaddr .. h.vaddr + h.filesz - 1
  BY ImageFacts
<1>2. /\ entry \in Nat /\ h \in Header /\ STACK <= h.vaddr
      /\ h.vaddr + h.filesz <= SEGMENT_SIZE
  BY ImageFacts
<1> HIDE DEF entry
<1>3. h.vaddr \in Nat /\ h.filesz \in Nat /\ SEGMENT_SIZE \in Nat
  BY <1>2, MachineSizes DEF Header
<1>4. entry \in 0 .. SEGMENT_SIZE - 1 BY <1>1, <1>2, <1>3
<1>5. ASSUME NEW m, NEW base, HoldsImage(m, base, image)
      PROVE  \E n : m[base + entry] = FileByte(image, n)
  <2> DEFINE k == entry - h.vaddr
  <2>1. k \in 0 .. h.filesz - 1 /\ h.vaddr + k = entry BY <1>1, <1>2, <1>3
  <2> HIDE DEF k
  <2>2. m[base + (h.vaddr + k)] = FileByte(image, h.offset + k)
    BY <1>5, <2>1 DEF HoldsImage
  <2> QED BY <2>1, <2>2
<1> QED BY <1>4, <1>5 DEF entry

\* The processor finds what memory holds.
LEMMA FetchIs ==
  ASSUME XTypeOK, NEW a \in 0 .. SEGMENT_SIZE - 1
  PROVE  Fetch(a) = ram[segment + a] /\ segment + a \in 0 .. MEMORY - 1
<1>1. /\ segment \in Nat /\ segment + SEGMENT_SIZE <= MEMORY /\ LOW \in Nat \ {0}
      /\ PAGE \in Nat \ {0} /\ SEGMENT_SIZE <= LOW * PAGE
      /\ SEGMENT_SIZE \in Nat /\ MEMORY \in Nat
  BY MachineSizes DEF XTypeOK
<1>2. Base(ldt) = segment /\ ldt.limit = LOW - 1 BY <1>1, Descriptor DEF XTypeOK
<1>3. a < (ldt.limit + 1) * PAGE
  <2>1. (ldt.limit + 1) = LOW BY <1>1, <1>2
  <2>2. LOW * PAGE \in Nat BY <1>1
  <2> QED BY <1>1, <2>1, <2>2
<1>4. segment + a \in 0 .. MEMORY - 1 BY <1>1
<1>5. DOMAIN ram = 0 .. MEMORY - 1 BY DEF XTypeOK
<1> QED BY <1>2, <1>3, <1>4, <1>5 DEF Fetch
-----------------------------------------------------------------------------
(* Every step keeps it *)

LEMMA KernelLoaded ==
  /\ Ordered(Kernel)
  /\ \A h \in Parts(Kernel) : h.vaddr \in Nat /\ h.vaddr > STACK
<1>1. Ordered(Kernel)
  <2>1. \A h \in ToSet(Images[Kernel].headers) : Loadable(h)
    BY KernelFacts DEF Parts
  <2> QED BY <2>1 DEF Ordered, ToSet
<1>2. \A h \in Parts(Kernel) : h.vaddr \in Nat /\ h.vaddr > STACK
  <2>1. ASSUME NEW h \in Parts(Kernel) PROVE h.vaddr \in Nat /\ h.vaddr > STACK
    <3>1. h \in ToSet(Images[Kernel].headers) BY DEF Parts
    <3>2. h \in Header BY KernelFacts, ImageFacts
    <3> QED BY <3>1, <3>2, KernelFacts, MachineSizes DEF Header
  <2> QED BY <2>1
<1> QED BY <1>1, <1>2

LEMMA XInvInit == ASSUME XInit PROVE XInv
<1>1. PICK byte \in {Nul, Left} :
        ram = Stored([a \in 0 .. MEMORY - 1 |-> byte], segment, _elf_load(Kernel))
  BY DEF XInit
<1> DEFINE m == [a \in 0 .. MEMORY - 1 |-> byte]
<1>2. m \in [0 .. MEMORY - 1 -> Contents] BY ContentsFacts
<1> HIDE DEF m
<1>3. /\ segment \in Segments /\ ldt = __set_descriptor(segment, LOW - 1)
      /\ eip = Images[Kernel].entry /\ at = "main" /\ asked = Kernel /\ argv = <<>>
  BY DEF XInit
<1>4. Kernel \in Runnable BY KernelFacts
<1>5. /\ ram \in [0 .. MEMORY - 1 -> Contents]
      /\ \A a \in 0 .. SEGMENT_SIZE - 1 : \A v :
           Final(_elf_load(Kernel), a, v) => ram[segment + a] = v
  <2>1. _elf_load(Kernel) \in Seq(Puts) BY <1>4, LoadFacts
  <2> QED BY <1>1, <1>2, <1>3, <2>1, AfterStores DEF m
<1>6. HoldsImage(ram, segment, Kernel) BY <1>4, <1>5, KernelLoaded, LoadedImage
<1>7. eip \in 0 .. SEGMENT_SIZE - 1 BY <1>3, <1>4, EntryFacts
<1>8. argv \in Strings BY <1>3 DEF Strings
<1>9. XTypeOK BY <1>3, <1>5, <1>7, <1>8 DEF XTypeOK, Places, Kernel
<1>10. KernelRuns BY <1>3, <1>6 DEF KernelRuns
<1>11. ImageRuns BY <1>3 DEF ImageRuns, Kernel
<1>12. ArgumentsThere BY <1>3 DEF ArgumentsThere
<1> QED BY <1>9, <1>10, <1>11, <1>12 DEF XInv

LEMMA XInvExecve ==
  ASSUME XInv, NEW name \in Seq(STRING), NEW strings \in Strings, Execve(name, strings)
  PROVE  XInv'
<1> DEFINE address == strtol(name)
<1>1. /\ XTypeOK /\ Runs /\ argv' = strings
      /\ asked' = IF IsPlain(name) THEN Written(name) ELSE -1
  BY DEF XInv, Execve
<1>2. \/ asked' = -1
      \/ asked' = address /\ address \in Nat
  BY <1>1, PlainNames
<1>3. CASE address = 0 \/ ~_elf_valid(address)
  <2>1. at' = "refused" /\ UNCHANGED <<ram, segment, ldt, eip, esp>>
    BY <1>3 DEF Execve
  <2>2. XTypeOK' BY <1>1, <1>2, <2>1 DEF XTypeOK, Places
  <2>3. KernelRuns' BY <2>1 DEF KernelRuns
  <2>4. ImageRuns'
    <3>1. ~_elf_valid(address) BY <1>3, KernelFacts DEF _elf_valid, Kernel
    <3>2. asked' >= 0 => ~_elf_valid(asked') BY <1>2, <3>1
    <3> QED BY <2>1, <3>2 DEF ImageRuns
  <2>5. ArgumentsThere' BY <2>1 DEF ArgumentsThere
  <2> QED BY <2>2, <2>3, <2>4, <2>5 DEF XInv
<1>4. CASE ~(address = 0 \/ ~_elf_valid(address))
  <2> DEFINE contents == _elf_load(address)
             p == Prepared(strings, FALSE)
  <2>1. PICK new \in NewSegments :
          _exec_common(new, contents, strings, Images[address].entry, FALSE)
    BY <1>4 DEF Execve
  <2>2. address \in Runnable /\ address # 0
    BY <1>4 DEF _elf_valid, Runnable
  <2>3. asked' # Kernel BY <1>2, <2>2 DEF Kernel
  <2>4. CASE Len(strings) > N_OFFSETS \/ p.esp - CONTEXT < 0
    <3>1. at' = "overrun" /\ UNCHANGED <<ram, segment, ldt, eip, esp>>
      BY <2>1, <2>4 DEF _exec_common
    <3>2. XTypeOK' BY <1>1, <1>2, <3>1 DEF XTypeOK, Places
    <3> QED BY <3>1, <3>2 DEF XInv, KernelRuns, ImageRuns, ArgumentsThere
  <2>5. CASE ~(Len(strings) > N_OFFSETS \/ p.esp - CONTEXT < 0)
    <3>1. /\ ram' = Stored(ram, new, contents \o p.puts)
          /\ segment' = new /\ ldt' = __set_descriptor(new, LOW - 1)
          /\ eip' = Images[address].entry /\ esp' = p.esp /\ at' = "_start"
      BY <2>1, <2>5 DEF _exec_common
    <3>2. new \in Segments /\ ram \in [0 .. MEMORY - 1 -> Contents]
      BY <1>1, <2>1 DEF NewSegments, XTypeOK
    <3>3. contents \in Seq(Puts) BY <2>2, LoadFacts
    <3>4. p.esp - CONTEXT >= 0
      <4>1. p.esp \in Int
        <5>1. IsPointers(Pointers(strings), strings) BY PointersFacts
        <5>2. strings \in Seq(Seq(STRING)) BY DEF Strings
        <5>3. Len(strings) \in Nat BY <5>2
        <5>4. Pointers(strings)[Len(strings)] \in Int BY <5>1, <5>3 DEF IsPointers
        <5>5. WORD * Len(strings) \in Int /\ WORD * 2 \in Int BY <5>3, MachineSizes
        <5> QED BY <5>4, <5>5 DEF Prepared
      <4> HIDE DEF p
      <4>2. ~(p.esp - CONTEXT < 0) BY <2>5
      <4>3. CONTEXT \in Int BY MachineSizes
      <4> QED BY <4>1, <4>2, <4>3
    <3> HIDE DEF contents, p
    <3>5. /\ ram' \in [0 .. MEMORY - 1 -> Contents]
          /\ \A a \in 0 .. SEGMENT_SIZE - 1 : a >= STACK /\ Proper(strings)
               => \A v : Final(contents, a, v) => ram'[new + a] = v
          /\ Proper(strings) /\ strings # <<>>
               => ArgumentsAt(ram', new, p.esp, strings)
      <4>1. FALSE \in BOOLEAN /\ ~FALSE OBVIOUS
      <4> QED BY <3>1, <3>2, <3>3, <3>4, <4>1, NewSegment DEF p
    <3>6. Images[address].entry \in 0 .. SEGMENT_SIZE - 1 BY <2>2, EntryFacts
    <3>7. XTypeOK' BY <1>1, <1>2, <3>1, <3>2, <3>5, <3>6 DEF XTypeOK, Places
    <3>8. KernelRuns' BY <2>3, <3>1 DEF KernelRuns
    <3>9. ImageRuns'
      <4>1. ASSUME asked' > 0, Proper(strings), Ordered(asked')
            PROVE  /\ asked' \in Runnable /\ HoldsImage(ram', new, asked')
                   /\ Images[address].entry = Images[asked'].entry
        <5>1. asked' = address BY <1>2, <4>1
        <5>2. HoldsImage(ram', new, address)
          BY <2>2, <3>5, <4>1, <5>1, LoadedImage DEF contents
        <5> QED BY <2>2, <5>1, <5>2
      <4> QED BY <1>1, <3>1, <4>1 DEF ImageRuns
    <3>10. ArgumentsThere' BY <1>1, <3>1, <3>5 DEF ArgumentsThere
    <3> QED BY <3>7, <3>8, <3>9, <3>10 DEF XInv
  <2> QED BY <2>4, <2>5
<1> QED BY <1>3, <1>4

LEMMA XInvExec == ASSUME XInv, Exec PROVE XInv'
<1> DEFINE bytes == [k \in 1 .. SEGMENT_SIZE |-> ram[segment + k - 1]]
           contents == <<Put(0, bytes)>>
           p == Prepared(argv', TRUE)
<1>1. /\ XTypeOK /\ at \in {"main", "function"} /\ asked = Kernel /\ asked' = asked
  BY DEF XInv, Exec
<1>2. HoldsImage(ram, segment, Kernel) BY <1>1 DEF XInv, KernelRuns
<1>3. PICK new \in NewSegments :
        /\ argv' = IF Stored(ram, new, contents)[segment - 1] = Nul
                   THEN <<>> ELSE << <<>> >>
        /\ _exec_common(new, contents, argv', Images[Kernel].entry, TRUE)
  BY DEF Exec
<1>4. argv' \in Strings
  <2> DEFINE none == <<>>
  <2>1. none \in Seq(STRING) /\ none \in Seq(Seq(STRING)) OBVIOUS
  <2>2. <<none>> \in Seq(Seq(STRING))
    <3> HIDE DEF none
    <3> QED BY <2>1
  <2>3. argv' = none \/ argv' = <<none>> BY <1>3
  <2> QED BY <2>1, <2>2, <2>3 DEF Strings
<1>5. CASE Len(argv') > N_OFFSETS \/ p.esp - CONTEXT < 0
  <2>1. at' = "overrun" /\ UNCHANGED <<ram, segment, ldt, eip, esp>>
    BY <1>3, <1>5 DEF _exec_common
  <2>2. XTypeOK' BY <1>1, <1>4, <2>1 DEF XTypeOK, Places
  <2> QED BY <2>1, <2>2 DEF XInv, KernelRuns, ImageRuns, ArgumentsThere
<1>6. CASE ~(Len(argv') > N_OFFSETS \/ p.esp - CONTEXT < 0)
  <2>1. /\ ram' = Stored(ram, new, contents \o p.puts)
        /\ segment' = new /\ ldt' = __set_descriptor(new, LOW - 1)
        /\ eip' = Images[Kernel].entry /\ esp' = p.esp /\ at' = "function"
    BY <1>3, <1>6 DEF _exec_common
  <2>2. /\ new \in Segments /\ segment \in Nat /\ segment + SEGMENT_SIZE <= MEMORY
        /\ ram \in [0 .. MEMORY - 1 -> Contents] /\ SEGMENT_SIZE \in Nat
        /\ MEMORY \in Nat /\ STACK \in Nat
    BY <1>1, <1>3, MachineSizes DEF NewSegments, XTypeOK
  <2>3. bytes \in Seq(Contents) /\ Len(bytes) = SEGMENT_SIZE
    <3>1. \A k \in 1 .. SEGMENT_SIZE : ram[segment + k - 1] \in Contents
      <4>1. \A k \in 1 .. SEGMENT_SIZE : segment + k - 1 \in 0 .. MEMORY - 1 BY <2>2
      <4> QED BY <2>2, <4>1
    <3> QED BY <2>2, <3>1
  <2>4. /\ contents \in Seq(Puts)
        /\ \A a \in 0 .. SEGMENT_SIZE - 1 : Final(contents, a, ram[segment + a])
    <3> DEFINE put == Put(0, bytes)
    <3>1. \A a \in 0 .. SEGMENT_SIZE - 1 : bytes[a + 1] = ram[segment + a]
      <4>1. \A a \in 0 .. SEGMENT_SIZE - 1 :
              a + 1 \in 1 .. SEGMENT_SIZE /\ segment + (a + 1) - 1 = segment + a
        BY <2>2
      <4> QED BY <4>1
    <3> HIDE DEF bytes
    <3>2. /\ put \in Puts /\ put.addr = 0 /\ put.bytes = bytes
          /\ \A a \in Int : Covers(put, a) <=> a >= 0 /\ a < 0 + Len(bytes)
      BY <2>3, PutFacts
    <3> HIDE DEF put
    <3>3. ASSUME NEW a \in 0 .. SEGMENT_SIZE - 1 PROVE Final(<<put>>, a, ram[segment + a])
      <4>1. a \in Int /\ Covers(put, a) BY <2>2, <2>3, <3>2
      <4>2. Final(<<put>>, a, put.bytes[a - put.addr + 1]) BY <3>2, <4>1, OnePut
      <4>3. a - put.addr + 1 = a + 1 BY <3>2
      <4> QED BY <3>1, <3>2, <4>2, <4>3
    <3>4. <<put>> \in Seq(Puts) BY <3>2
    <3> QED BY <3>3, <3>4 DEF put
  <2>5. p.esp - CONTEXT >= 0
    <3>1. p.esp \in Int
      <4>1. IsPointers(Pointers(argv'), argv') BY <1>4, PointersFacts
      <4>2. argv' \in Seq(Seq(STRING)) BY <1>4 DEF Strings
      <4>3. Len(argv') \in Nat BY <4>2
      <4>4. Pointers(argv')[Len(argv')] \in Int BY <4>1, <4>3 DEF IsPointers
      <4>5. WORD * Len(argv') \in Int /\ WORD * 2 \in Int BY <4>3, MachineSizes
      <4> QED BY <4>4, <4>5 DEF Prepared
    <3> HIDE DEF p
    <3>2. ~(p.esp - CONTEXT < 0) BY <1>6
    <3>3. CONTEXT \in Int BY MachineSizes
    <3> QED BY <3>1, <3>2, <3>3
  <2> HIDE DEF contents, p, bytes
  <2>6. /\ ram' \in [0 .. MEMORY - 1 -> Contents]
        /\ \A a \in 0 .. SEGMENT_SIZE - 1 : a > STACK
             => \A v : Final(contents, a, v) => ram'[new + a] = v
        /\ WordAt(ram', new, p.esp, EXIT)
    <3>1. TRUE \in BOOLEAN OBVIOUS
    <3> QED BY <1>4, <2>1, <2>2, <2>4, <2>5, <3>1, NewSegment DEF p
  <2>7. HoldsImage(ram', new, Kernel)
    <3>1. SUFFICES ASSUME NEW h \in Parts(Kernel), NEW k \in 0 .. h.filesz - 1
                   PROVE  ram'[new + (h.vaddr + k)] = FileByte(Kernel, h.offset + k)
      BY DEF HoldsImage
    <3> DEFINE a == h.vaddr + k
    <3>2. h \in Header /\ h.vaddr + h.filesz <= SEGMENT_SIZE /\ h.vaddr > STACK
      BY KernelFacts, KernelLoaded, ImageFacts
    <3>3. h.vaddr \in Nat /\ h.filesz \in Nat BY <3>2 DEF Header
    <3>4. a \in 0 .. SEGMENT_SIZE - 1 /\ a > STACK BY <2>2, <3>2, <3>3
    <3>5. ram[segment + a] = FileByte(Kernel, h.offset + k) BY <1>2 DEF HoldsImage
    <3> HIDE DEF a
    <3>6. ram'[new + a] = ram[segment + a] BY <2>4, <2>6, <3>4
    <3> QED BY <3>5, <3>6 DEF a
  <2>8. Images[Kernel].entry \in 0 .. SEGMENT_SIZE - 1 BY KernelFacts, EntryFacts
  <2>9. XTypeOK' BY <1>1, <1>4, <2>1, <2>2, <2>6, <2>8 DEF XTypeOK, Places
  <2>10. KernelRuns' BY <1>1, <2>1, <2>7 DEF KernelRuns
  <2>11. ImageRuns' BY <1>1, <2>1 DEF ImageRuns, Kernel
  <2>12. ArgumentsThere' BY <2>1, <2>6 DEF ArgumentsThere
  <2> QED BY <2>9, <2>10, <2>11, <2>12 DEF XInv
<1> QED BY <1>5, <1>6

LEMMA XInvStart == ASSUME XInv, _start PROVE XInv'
<1>1. /\ XTypeOK /\ at = "_start" /\ asked # Kernel
      /\ UNCHANGED <<segment, ldt, eip, esp, asked, argv>>
  BY DEF XInv, KernelRuns, _start
<1>2. /\ Fetch(eip) = ram[segment + eip] /\ Fetch(eip) \in Contents
      /\ segment \in Segments /\ ram \in [0 .. MEMORY - 1 -> Contents]
  <2>1. eip \in 0 .. SEGMENT_SIZE - 1 BY <1>1 DEF XTypeOK
  <2>2. Fetch(eip) = ram[segment + eip] /\ segment + eip \in 0 .. MEMORY - 1
    BY <1>1, <2>1, FetchIs
  <2> QED BY <1>1, <2>2 DEF XTypeOK
\* A program that was asked for is found at its entry.
<1>3. ASSUME asked > 0, Proper(argv), Ordered(asked)
      PROVE  /\ asked \in Runnable /\ HoldsImage(ram, segment, asked)
             /\ eip = Images[asked].entry
             /\ Fetch(eip)[1] = "file" /\ Fetch(eip)[2] = asked
  <2>1. /\ asked \in Runnable /\ HoldsImage(ram, segment, asked)
        /\ eip = Images[asked].entry
    BY <1>1, <1>3 DEF XInv, ImageRuns
  <2>2. PICK n : ram[segment + eip] = FileByte(asked, n) BY <2>1, EntryFacts
  <2>3. Fetch(eip) = <<"file", asked, n>> BY <1>2, <2>2 DEF FileByte
  <2> QED BY <2>1, <2>3
<1>4. CASE Fetch(eip)[1] # "file"
  <2>1. at' = "wild" /\ UNCHANGED ram BY <1>4 DEF _start
  <2>2. ~(asked > 0 /\ Proper(argv) /\ Ordered(asked)) BY <1>3, <1>4
  <2>3. XTypeOK' BY <1>1, <2>1 DEF XTypeOK, Places
  <2>4. KernelRuns' BY <1>1, <2>1 DEF KernelRuns
  <2>5. ImageRuns' BY <1>1, <2>1, <2>2 DEF ImageRuns, Proper, Ordered
  <2>6. ArgumentsThere' BY <2>1 DEF ArgumentsThere
  <2> QED BY <2>3, <2>4, <2>5, <2>6 DEF XInv
<1>5. CASE Fetch(eip)[1] = "file"
  <2> DEFINE image == Fetch(eip)[2]
             bss == Images[image].bss
             zeros == Zeros(bss.to - bss.from)
             put == Put(bss.from, zeros)
  <2>1. at' = "main" /\ ram' = Stored(ram, segment, <<put>>)
    <3>1. Base(ldt) = segment BY <1>1, Descriptor, MachineSizes DEF XTypeOK
    <3> QED BY <1>5, <3>1 DEF _start
  <2>2. image \in Runnable BY <1>2, <1>5, ContentsFacts
  <2>3. /\ bss.from \in Nat /\ bss.to \in Nat
        /\ bss.from < bss.to => STACK <= bss.from /\ bss.to <= SEGMENT_SIZE
    BY <2>2, ImageFacts
  <2> HIDE DEF image
  <2>4. /\ zeros \in Seq(Contents) /\ DOMAIN zeros = 1 .. bss.to - bss.from
        /\ \A k \in 1 .. bss.to - bss.from : zeros[k] = Nul
    <3>1. bss.to - bss.from \in Int BY <2>3
    <3> HIDE DEF bss
    <3> QED BY <3>1, ZerosFacts
  <2> HIDE DEF bss
  <2>5. put \in Puts /\ put.addr = bss.from /\ put.bytes = zeros
    <3> HIDE DEF zeros
    <3> QED BY <2>3, <2>4, PutFacts
  <2>6. \A a \in Int : Covers(put, a) <=> a >= bss.from /\ a < bss.to
    <3> HIDE DEF zeros, put
    <3> QED BY <2>3, <2>4, <2>5 DEF Covers
  <2> HIDE DEF zeros, put
  <2>7. /\ \A a \in Int : a < bss.from \/ a >= bss.to => Untouched(<<put>>, a)
        /\ \A a \in Int : a >= bss.from /\ a < bss.to => Final(<<put>>, a, Nul)
        /\ <<put>> \in Seq(Puts)
    <3>1. ASSUME NEW a \in Int, a < bss.from \/ a >= bss.to PROVE Untouched(<<put>>, a)
      <4>1. ~Covers(put, a) BY <2>3, <2>6, <3>1
      <4> QED BY <2>5, <4>1, OnePut
    <3>2. ASSUME NEW a \in Int, a >= bss.from, a < bss.to PROVE Final(<<put>>, a, Nul)
      <4>1. Covers(put, a) BY <2>6, <3>2
      <4>2. Final(<<put>>, a, put.bytes[a - put.addr + 1]) BY <2>5, <4>1, OnePut
      <4>3. a - put.addr + 1 \in 1 .. bss.to - bss.from BY <2>3, <2>5, <3>2
      <4>4. put.bytes[a - put.addr + 1] = Nul BY <2>4, <2>5, <4>3
      <4> QED BY <4>2, <4>4
    <3>3. <<put>> \in Seq(Puts) BY <2>5
    <3> QED BY <3>1, <3>2, <3>3
  <2>8. /\ ram' \in [0 .. MEMORY - 1 -> Contents]
        /\ \A a \in 0 .. SEGMENT_SIZE - 1 :
             /\ a < bss.from \/ a >= bss.to => ram'[segment + a] = ram[segment + a]
             /\ a >= bss.from /\ a < bss.to => ram'[segment + a] = Nul
    <3>1. /\ ram' \in [0 .. MEMORY - 1 -> Contents]
          /\ \A a \in 0 .. SEGMENT_SIZE - 1 :
               /\ Untouched(<<put>>, a) => ram'[segment + a] = ram[segment + a]
               /\ \A v : Final(<<put>>, a, v) => ram'[segment + a] = v
      BY <1>2, <2>1, <2>7, AfterStores
    <3>2. \A a \in 0 .. SEGMENT_SIZE - 1 : a \in Int BY MachineSizes
    <3> QED BY <2>7, <3>1, <3>2
  <2>9. XTypeOK' BY <1>1, <2>1, <2>8 DEF XTypeOK, Places
  <2>10. KernelRuns' BY <1>1, <2>1 DEF KernelRuns
  <2>11. ImageRuns'
    <3>1. ASSUME asked > 0, Proper(argv), Ordered(asked)
          PROVE  /\ asked \in Runnable /\ eip = Images[asked].entry
                 /\ HoldsImage(ram', segment, asked)
                 /\ HoldsZeros(ram', segment, asked)
      <4>1. /\ asked \in Runnable /\ HoldsImage(ram, segment, asked)
            /\ eip = Images[asked].entry /\ image = asked
        BY <1>3, <3>1 DEF image
      <4>2. HoldsZeros(ram', segment, asked)
        <5>1. ASSUME NEW a \in bss.from .. bss.to - 1 PROVE ram'[segment + a] = Nul
          <6>1. a \in 0 .. SEGMENT_SIZE - 1 /\ a >= bss.from /\ a < bss.to
            BY <2>3, MachineSizes
          <6> QED BY <2>8, <6>1
        <5> QED BY <4>1, <5>1 DEF HoldsZeros, bss
      <4>3. HoldsImage(ram', segment, asked)
        <5>1. SUFFICES ASSUME NEW h \in Parts(asked), NEW k \in 0 .. h.filesz - 1
                       PROVE  ram'[segment + (h.vaddr + k)] = FileByte(asked, h.offset + k)
          BY DEF HoldsImage
        <5> DEFINE a == h.vaddr + k
        <5>2. /\ h \in Header /\ h.vaddr + h.filesz <= SEGMENT_SIZE
              /\ bss.to <= h.vaddr \/ h.vaddr + h.filesz <= bss.from
          BY <4>1, ImageFacts DEF bss
        <5>3. h.vaddr \in Nat /\ h.filesz \in Nat BY <5>2 DEF Header
        <5>4. a \in 0 .. SEGMENT_SIZE - 1 /\ (a < bss.from \/ a >= bss.to)
          BY <2>3, <5>2, <5>3, MachineSizes
        <5>5. ram[segment + a] = FileByte(asked, h.offset + k)
          BY <4>1 DEF HoldsImage
        <5> HIDE DEF a
        <5>6. ram'[segment + a] = ram[segment + a] BY <2>8, <5>4
        <5> QED BY <5>5, <5>6 DEF a
      <4> QED BY <4>1, <4>2, <4>3
    <3> QED BY <1>1, <2>1, <3>1 DEF ImageRuns, Proper, Ordered
  <2>12. ArgumentsThere'
    <3>1. ASSUME argv # <<>>, Proper(argv)
          PROVE  ArgumentsAt(ram', segment, esp, argv)
      <4>1. ArgumentsAt(ram, segment, esp, argv)
        BY <1>1, <3>1 DEF XInv, ArgumentsThere
      <4>2. \A a \in Int : a < STACK => Untouched(<<put>>, a)
        <5>1. ASSUME NEW a \in Int, a < STACK PROVE a < bss.from \/ a >= bss.to
          BY <2>3, <5>1, MachineSizes
        <5> QED BY <2>7, <5>1
      <4>3. ArgumentsAt(Stored(ram, segment, <<put>>), segment, esp, argv)
        BY <1>2, <2>7, <4>1, <4>2, Undisturbed
      <4> QED BY <2>1, <4>3
    <3> QED BY <1>1, <2>1, <3>1 DEF ArgumentsThere, Proper
  <2> QED BY <2>9, <2>10, <2>11, <2>12 DEF XInv
<1> QED BY <1>4, <1>5

\* The code: execve, exec, _exec_common, _elf_load and _start, each as a whole.
THEOREM LoadingInvariant == XSpec => []XInv
<1>1. ASSUME XInv, [XNext]_xvars PROVE XInv'
  <2>1. ASSUME NEW call \in Calls, Execve(call[1], call[2]) PROVE XInv'
    <3>1. call[1] \in Seq(STRING) /\ call[2] \in Strings
      BY ExecveAssumption DEF Strings
    <3> QED BY <1>1, <2>1, <3>1, XInvExecve
  <2>2. CASE Exec BY <1>1, <2>2, XInvExec
  <2>3. CASE _start BY <1>1, <2>3, XInvStart
  <2>4. CASE UNCHANGED xvars
    BY <1>1, <2>4 DEF xvars, XInv, XTypeOK, KernelRuns, ImageRuns, ArgumentsThere,
                      Proper, Ordered
  <2> QED BY <1>1, <2>1, <2>2, <2>3, <2>4 DEF XNext
<1> QED BY <1>1, XInvInit, PTL DEF XSpec
-----------------------------------------------------------------------------
(* What main finds *)

LEMMA LinkedImage ==
  ASSUME XTypeOK, NEW image \in Runnable, HoldsImage(ram, segment, image),
         eip = Images[image].entry,
         Images[image].bss.from >= Images[image].bss.to \/ at = "function"
           \/ HoldsZeros(ram, segment, image),
         \A h \in ToSet(Images[image].headers) : Loadable(h) => h \in Parts(image)
  PROVE  AsLinked(image)
<1> DEFINE bss == Images[image].bss
<1>1. /\ SEGMENT_SIZE \in Nat /\ bss.from \in Nat /\ bss.to \in Nat
      /\ bss.from < bss.to => bss.to <= SEGMENT_SIZE
  BY MachineSizes, ImageFacts
<1>2. ASSUME NEW h \in Parts(image), NEW k \in 0 .. h.filesz - 1
      PROVE  Fetch(h.vaddr + k) = FileByte(image, h.offset + k)
  <2>1. h \in Header /\ h.vaddr + h.filesz <= SEGMENT_SIZE BY ImageFacts
  <2>2. h.vaddr + k \in 0 .. SEGMENT_SIZE - 1
    <3>1. h.vaddr \in Nat /\ h.filesz \in Nat BY <2>1 DEF Header
    <3> QED BY <1>1, <2>1, <3>1
  <2>3. Fetch(h.vaddr + k) = ram[segment + (h.vaddr + k)] BY <2>2, FetchIs
  <2> QED BY <2>3 DEF HoldsImage
<1>3. ASSUME at # "function", NEW a \in bss.from .. bss.to - 1 PROVE Fetch(a) = Nul
  <2> HIDE DEF bss
  <2>1. a \in 0 .. SEGMENT_SIZE - 1 /\ bss.from < bss.to BY <1>1
  <2>2. HoldsZeros(ram, segment, image) BY <1>1, <1>3, <2>1 DEF bss
  <2>3. ram[segment + a] = Nul BY <2>2 DEF HoldsZeros, bss
  <2> QED BY <2>1, <2>3, FetchIs
<1> QED BY <1>2, <1>3 DEF AsLinked

\* ProgramStarts: the image that a plain name asks for runs, as it was linked.
THEOREM ProgramAlwaysStarts == XSpec => []ProgramStarts
<1>1. ASSUME XInv PROVE ProgramStarts
  <2>1. SUFFICES ASSUME asked >= 0
                 PROVE  /\ at = "refused" => ~_elf_valid(asked)
                        /\ at \in {"main", "wild"} /\ Proper(argv) /\ Ordered(asked)
                             => AsLinked(asked)
                        /\ at = "function" => AsLinked(asked)
    BY DEF ProgramStarts
  <2>2. XTypeOK /\ KernelRuns /\ ImageRuns BY <1>1 DEF XInv
  <2>3. \A image : \A h \in ToSet(Images[image].headers) : Loadable(h) => h \in Parts(image)
    BY DEF Parts
  <2>4. CASE asked = Kernel
    <3>1. at # "wild" BY <2>2, <2>4 DEF KernelRuns
    <3>2. ASSUME at \in {"main", "function"} PROVE AsLinked(asked)
      <4>1. HoldsImage(ram, segment, Kernel) /\ eip = Images[Kernel].entry
        BY <2>2, <2>4, <3>2 DEF KernelRuns
      <4> QED BY <2>2, <2>3, <2>4, <4>1, KernelFacts, LinkedImage
    <3> QED BY <2>1, <2>2, <3>1, <3>2 DEF ImageRuns
  <2>5. CASE asked # Kernel
    <3>1. asked > 0 BY <2>1, <2>2, <2>5 DEF Kernel, XTypeOK
    <3>2. at # "function" BY <2>2, <2>5 DEF KernelRuns
    <3>3. ASSUME at \in {"main", "wild"}, Proper(argv), Ordered(asked)
          PROVE  AsLinked(asked)
      <4>1. /\ asked \in Runnable /\ HoldsImage(ram, segment, asked)
            /\ eip = Images[asked].entry /\ HoldsZeros(ram, segment, asked)
        BY <2>2, <3>1, <3>3 DEF ImageRuns
      <4> QED BY <2>2, <2>3, <4>1, LinkedImage
    <3> QED BY <2>1, <2>2, <3>2, <3>3 DEF ImageRuns
  <2> QED BY <2>4, <2>5
<1> QED BY <1>1, LoadingInvariant, PTL

\* ArgumentsReachMain: main finds its arguments, a function its return address.
THEOREM ArgumentsAlwaysReachMain == XSpec => []ArgumentsReachMain
<1>1. ASSUME XInv PROVE ArgumentsReachMain
  <2>1. XTypeOK /\ ArgumentsThere BY <1>1 DEF XInv
  <2>2. \A a \in 0 .. STACK - 1 : Fetch(a) = ram[segment + a]
    <3>1. \A a \in 0 .. STACK - 1 : a \in 0 .. SEGMENT_SIZE - 1 BY MachineSizes
    <3> QED BY <2>1, <3>1, FetchIs
  <2>3. ASSUME NEW a, NEW v, WordAt(ram, segment, a, v) PROVE HoldsWord(a, v)
    BY <2>2, <2>3 DEF WordAt, HoldsWord
  <2>4. ASSUME NEW a \in Int, NEW s \in Seq(STRING), StringAt(ram, segment, a, s)
        PROVE  HoldsString(a, s)
    <3>1. \A k \in 1 .. Len(s) + 1 : Fetch(a + k - 1) = Bytes(s)[k]
      BY <2>2, <2>4 DEF StringAt
    <3>2. Len(s) \in Nat /\ DOMAIN s = 1 .. Len(s) OBVIOUS
    <3>3. \A k \in DOMAIN s : Fetch(a + k - 1) = Char(s[k])
      <4>1. \A k \in 1 .. Len(s) : k \in 1 .. Len(s) + 1 BY <3>2
      <4>2. \A k \in 1 .. Len(s) : Bytes(s)[k] = Char(s[k]) BY BytesFacts
      <4> QED BY <3>1, <3>2, <4>1, <4>2
    <3>4. Fetch(a + Len(s)) = Nul
      <4>1. Len(s) + 1 \in 1 .. Len(s) + 1 /\ a + (Len(s) + 1) - 1 = a + Len(s)
        BY <3>2
      <4>2. Bytes(s)[Len(s) + 1] = Nul BY BytesFacts
      <4> QED BY <3>1, <4>1, <4>2
    <3> QED BY <3>3, <3>4 DEF HoldsString
  <2>5. ASSUME at \in {"_start", "main"}, argv # <<>>, Proper(argv)
        PROVE  /\ HoldsWord(esp, Len(argv))
               /\ \E array \in 0 .. STACK - 1 :
                    /\ HoldsWord(esp + WORD, array)
                    /\ \A i \in DOMAIN argv : \E p \in 0 .. STACK - 1 :
                         /\ HoldsWord(array + (i - 1) * WORD, p)
                         /\ HoldsString(p, argv[i])
    <3>1. ArgumentsAt(ram, segment, esp, argv) BY <2>1, <2>5 DEF ArgumentsThere
    <3>2. PICK array \in 0 .. STACK - 1 :
             /\ WordAt(ram, segment, esp + WORD, array)
             /\ \A i \in 1 .. Len(argv) : \E p \in 0 .. STACK - 1 :
                  /\ WordAt(ram, segment, array + (i - 1) * WORD, p)
                  /\ StringAt(ram, segment, p, argv[i])
      BY <3>1 DEF ArgumentsAt
    <3>3. HoldsWord(esp, Len(argv)) /\ HoldsWord(esp + WORD, array)
      BY <2>3, <3>1, <3>2 DEF ArgumentsAt
    <3>4. ASSUME NEW i \in DOMAIN argv
          PROVE  \E p \in 0 .. STACK - 1 : /\ HoldsWord(array + (i - 1) * WORD, p)
                                           /\ HoldsString(p, argv[i])
      <4>1. argv \in Seq(Seq(STRING)) BY <2>1 DEF XTypeOK, Strings
      <4>2. i \in 1 .. Len(argv) /\ argv[i] \in Seq(STRING) BY <4>1
      <4>3. PICK p \in 0 .. STACK - 1 :
              /\ WordAt(ram, segment, array + (i - 1) * WORD, p)
              /\ StringAt(ram, segment, p, argv[i])
        BY <3>2, <4>2
      <4>4. p \in Int BY MachineSizes
      <4>5. HoldsWord(array + (i - 1) * WORD, p) BY <2>3, <4>3
      <4>6. HoldsString(p, argv[i]) BY <2>4, <4>2, <4>3, <4>4
      <4> QED BY <4>5, <4>6
    <3> QED BY <3>3, <3>4
  <2>6. at = "function" => HoldsWord(esp, EXIT) BY <2>1, <2>3 DEF ArgumentsThere
  <2> QED BY <2>5, <2>6 DEF ArgumentsReachMain
<1> QED BY <1>1, LoadingInvariant, PTL
=============================================================================
