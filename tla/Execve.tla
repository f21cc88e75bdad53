------------------------------- MODULE Execve -------------------------------
(***************************************************************************)
(* How a process changes the program it runs: execve finds an ELF image by *)
(* the address its first argument spells, loads it into a new segment,     *)
(* copies the arguments to the new stack and starts _start of ustart.S,    *)
(* which clears BSS and calls main; exec copies the segment and starts a   *)
(* function of the kernel's own image.                                     *)
(*                                                                         *)
(* Memory is bytes at physical addresses.  A byte names what it holds: NUL,*)
(* a character, a place in an image, a part of a stored word, or something *)
(* left over.  The stack is at the beginning of a segment, as it is in     *)
(* every process that fork made.                                           *)
(***************************************************************************)
EXTENDS Integers, SequencesExt

CONSTANTS
  WORD,             \* bytes of a long word
  STACK,            \* bytes of a stack
  CONTEXT,          \* bytes of a saved context
  N_OFFSETS,        \* arguments that _exec_common has room for
  SEGMENT_SIZE, Segments,     \* the segments, by their physical addresses
  MEMORY,           \* bytes of memory
  Images,           \* by address: [valid, entry, headers, bss], 0 the kernel's
  Calls,            \* of execve: <<name, argv>>; an argv of <<>> is NULL
  LOW, MID,         \* values of base_15_0 and base_23_16 of a descriptor
  PAGE,             \* the unit of a segment's limit
  EXIT              \* address of exit()

ASSUME ExecveAssumption ==
  /\ {WORD, LOW, MID, PAGE, N_OFFSETS, EXIT} \subseteq Nat \ {0}
  /\ {STACK, CONTEXT, SEGMENT_SIZE, MEMORY} \subseteq Nat
  /\ WORD >= 2 /\ STACK < SEGMENT_SIZE /\ SEGMENT_SIZE <= LOW * PAGE
  /\ \A s \in Segments : s \in Nat /\ 0 < s /\ s + SEGMENT_SIZE <= MEMORY
  /\ Calls \subseteq Seq(STRING) \X Seq(Seq(STRING))

\* Images as the Makefile has them linked: behind the stack (the kernel's far
\* behind), with their entries in the text, and nothing on top of another.
Loadable(h) == h.type = "PT_LOAD"
Parts(image) == {h \in ToSet(Images[image].headers) : Loadable(h)}
ASSUME ImagesAssumption ==
  /\ 0 \in DOMAIN Images /\ ~Images[0].valid
  /\ Images[0].bss.from >= Images[0].bss.to
  /\ \A h \in ToSet(Images[0].headers) : Loadable(h) /\ STACK < h.vaddr
  /\ \A i \in DOMAIN Images : Images[i].valid \/ i = 0 =>
       LET entry == Images[i].entry
           headers == Images[i].headers
           bss == Images[i].bss
       IN  /\ entry \in Nat /\ bss.from \in Nat /\ bss.to \in Nat
           /\ headers \in Seq([type : STRING, vaddr : Nat, offset : Nat, filesz : Nat])
           /\ bss.from < bss.to => STACK <= bss.from /\ bss.to <= SEGMENT_SIZE
           /\ \A h \in Parts(i) :
                /\ STACK <= h.vaddr /\ h.vaddr + h.filesz <= SEGMENT_SIZE
                /\ bss.to <= h.vaddr \/ h.vaddr + h.filesz <= bss.from
                /\ \A g \in Parts(i) \ {h} :
                     g.vaddr + g.filesz <= h.vaddr \/ h.vaddr + h.filesz <= g.vaddr
           /\ \E h \in Parts(i) : entry \in h.vaddr .. h.vaddr + h.filesz - 1

VARIABLES
  ram,              \* physical memory
  segment,          \* seg.mem.offset of the process
  ldt,              \* its code and data descriptor (they differ in access only)
  eip, esp,         \* of its context
  at,               \* where it is
  asked,            \* the image it asked for last, if its name is plain
  argv              \* the arguments it passed with that

xvars == <<ram, segment, ldt, eip, esp, at, asked, argv>>

Nul == <<"nul">>
Left == <<"left over">>
Char(c) == <<"char", c>>
FileByte(image, k) == <<"file", image, k>>
Word(v) == [k \in 1 .. WORD |-> IF v = 0 THEN Nul ELSE <<"word", v, k>>]

\* Memory m with bytes stored at several addresses of the segment at base, in
\* order: what comes last is there.
Put(addr, bytes) == [addr |-> addr, bytes |-> bytes]
Covers(put, a) == a - put.addr + 1 \in DOMAIN put.bytes
Stored(m, base, puts) ==
  [b \in DOMAIN m |->
     LET over == {i \in DOMAIN puts : Covers(puts[i], b - base)}
         last == puts[Max(over)]
     IN  IF over = {} THEN m[b] ELSE last.bytes[b - base - last.addr + 1]]
Zeros(n) == [k \in 1 .. n |-> Nul]

-----------------------------------------------------------------------------
(* Descriptors *)

__set_descriptor(base, limit) ==
  [limit |-> limit % (LOW * 16),
   base_15_0 |-> base % LOW, base_23_16 |-> (base \div LOW) % MID,
   base_31_24 |-> base \div (LOW * MID)]

\* What the processor makes of one: the byte a process finds at address a.
Base(d) == d.base_15_0 + LOW * (d.base_23_16 + MID * d.base_31_24)
Fetch(a) == IF a < (ldt.limit + 1) * PAGE /\ Base(ldt) + a \in DOMAIN ram
            THEN ram[Base(ldt) + a] ELSE Left
-----------------------------------------------------------------------------
(* The name of the image *)

Digits == [c \in {"0", "1", "2", "7", "8", "a"} |->
             CASE c = "0" -> 0 [] c = "1" -> 1 [] c = "2" -> 2 [] c = "7" -> 7
               [] c = "8" -> 8 [] c = "a" -> 10]

From(str, i) == SubSeq(str, i, Len(str))

\* How many elements in front are in a set.
Span(seq, set) == Max({n \in 0 .. Len(seq) : \A i \in 1 .. n : seq[i] \in set})

\* The digits in front of the first other character.
DigitsOf(base) == {c \in DOMAIN Digits : Digits[c] < base}
Number(str, base) ==
  LET n == Span(str, DigitsOf(base))
      value[i \in 0 .. n] ==
        IF i = 0 THEN 0 ELSE value[i - 1] * base + Digits[str[i]]
  IN  value[n]

\* It skips everything in front of the first '0'.
strtol(name) ==
  LET str == From(name, Span(name, ToSet(name) \ {"0"}) + 1)
      second == IF Len(str) > 1 THEN str[2] ELSE "nul"
  IN  CASE second \in DigitsOf(10) -> Number(From(str, 2), 8)
        [] second = "x" -> Number(From(str, 3), 16)
        [] OTHER -> Number(str, 10)

\* What a name means in C: blanks, then a number in base 16, 8 or 10.  A plain
\* one begins with 0, in front of which strtol skips only blanks.
Weighted(digits, base) ==
  LET n == Span(digits, DigitsOf(base))
      weight[i \in 0 .. n] == IF i = 0 THEN 1 ELSE weight[i - 1] * base
      sum[i \in 0 .. n] ==
        IF i = 0 THEN 0 ELSE sum[i - 1] + Digits[digits[i]] * weight[n - i]
  IN  sum[n]
Written(name) ==
  LET str == From(name, Span(name, {" "}) + 1)
      hex == Len(str) > 1 /\ str[1] = "0" /\ str[2] = "x"
      octal == str # <<>> /\ str[1] = "0"
  IN  IF hex THEN Weighted(From(str, 3), 16)
      ELSE Weighted(str, IF octal THEN 8 ELSE 10)
IsPlain(name) ==
  \E i \in DOMAIN name : /\ name[i] = "0"
                         /\ \A j \in 1 .. i - 1 : name[j] = " "
-----------------------------------------------------------------------------
(* Loading *)

\* _elf_valid; what is at no image's address is not one.
_elf_valid(address) == address \in DOMAIN Images /\ Images[address].valid

\* What it puts into a segment.  Behind a header that is not loadable the loop
\* looks at no other one.
_elf_load(image) ==
  LET headers == Images[image].headers
  IN  [i \in 1 .. Span(headers, Parts(image)) |->
         Put(headers[i].vaddr,
             [k \in 1 .. headers[i].filesz |->
                FileByte(image, headers[i].offset + k - 1)])]

\* Where the strings of argv go, each below the one before: for each character
\* of a string the pointer moves by a word.
Fault_Pointers(strings) ==
  LET ptr[i \in 0 .. Len(strings)] ==
        IF i = 0 THEN STACK ELSE ptr[i - 1] - Len(strings[i])
  IN  ptr
Pointers(strings) ==
  LET ptr[i \in 0 .. Len(strings)] ==
        IF i = 0 THEN STACK ELSE ptr[i - 1] - WORD * Len(strings[i])
  IN  ptr

\* The new stack, cleared, then with the strings, the array of their addresses,
\* the words that the new program finds above its stack pointer, and a context.
Bytes(string) == [k \in 1 .. Len(string) + 1 |->
                    IF k > Len(string) THEN Nul ELSE Char(string[k])]
Words(addr, words) ==
  [i \in DOMAIN words |-> Put(addr + WORD * (i - 1), Word(words[i]))]
Prepared(strings, isExec) ==
  LET n == Len(strings)
      ptr == Pointers(strings)
      array == ptr[n] - WORD * n
      top == array - WORD * 2
      header == IF isExec THEN <<EXIT>> ELSE <<n, IF n = 0 THEN 0 ELSE array>>
  IN  [esp |-> top,
       puts |-> <<Put(0, Zeros(STACK))>>
                  \o [i \in 1 .. n |-> Put(ptr[i], Bytes(strings[i]))]
                  \o Words(array, [i \in 1 .. n |-> ptr[i]])
                  \o Words(top, header)
                  \o <<Put(top - CONTEXT, [k \in 1 .. CONTEXT |-> Left])>>]

\* _exec_common; with too many arguments, or more than the stack holds, it
\* writes over the kernel's stack or in front of the segment.
_exec_common(new, contents, strings, entry, isExec) ==
  LET p == Prepared(strings, isExec)
  IN  IF Len(strings) > N_OFFSETS \/ p.esp - CONTEXT < 0
      THEN at' = "overrun" /\ UNCHANGED <<ram, segment, ldt, eip, esp>>
      ELSE /\ ram' = Stored(ram, new, contents \o p.puts)
           /\ segment' = new
           /\ ldt' = __set_descriptor(new, LOW - 1)
           /\ eip' = entry
           /\ esp' = p.esp
           /\ at' = IF isExec THEN "function" ELSE "_start"
-----------------------------------------------------------------------------

\* A child of the first process, in its copy of the kernel's image.
Kernel == 0
XInit ==
  /\ segment \in Segments
  /\ \E byte \in {Nul, Left} :
       ram = Stored([a \in 0 .. MEMORY - 1 |-> byte], segment, _elf_load(Kernel))
  /\ ldt = __set_descriptor(segment, LOW - 1)
  /\ eip = Images[Kernel].entry
  /\ esp = STACK
  /\ at = "main"
  /\ asked = Kernel
  /\ argv = <<>>

Runs == at \in {"main", "function", "refused"}
NewSegments == Segments \ {segment}

Execve(name, strings) ==
  LET address == strtol(name)
  IN  /\ Runs
      /\ asked' = IF IsPlain(name) THEN Written(name) ELSE -1
      /\ argv' = strings
      /\ IF address = 0 \/ ~_elf_valid(address)
         THEN at' = "refused" /\ UNCHANGED <<ram, segment, ldt, eip, esp>>
         ELSE \E new \in NewSegments :
                _exec_common(new, _elf_load(address), strings,
                             Images[address].entry, FALSE)

\* exec passes ARGV_EXEC, which is not NULL: the word it points to begins with
\* the last byte in front of the old segment, which the copy may just have
\* written.  If that is not zero, the word is the address of an empty string at
\* the bottom of the stack.
Exec ==
  /\ at \in {"main", "function"} /\ asked = Kernel
  /\ \E new \in NewSegments :
       LET copy == <<Put(0, [k \in 1 .. SEGMENT_SIZE |-> ram[segment + k - 1]])>>
           front == Stored(ram, new, copy)[segment - 1]
       IN  /\ argv' = IF front = Nul THEN <<>> ELSE << <<>> >>
           /\ _exec_common(new, copy, argv', Images[Kernel].entry, TRUE)
  /\ UNCHANGED asked

\* _start: clear BSS, call main.  At eip there may be something else, behind a
\* header that hides the code or when a string was stored over it.
Fault_start ==
  /\ at = "_start"
  /\ at' = IF Fetch(eip)[1] = "file" THEN "main" ELSE "wild"
  /\ UNCHANGED <<ram, segment, ldt, eip, esp, asked, argv>>
_start ==
  /\ at = "_start"
  /\ IF Fetch(eip)[1] = "file"
     THEN LET bss == Images[Fetch(eip)[2]].bss
          IN  /\ at' = "main"
              /\ ram' = Stored(ram, Base(ldt),
                               <<Put(bss.from, Zeros(bss.to - bss.from))>>)
     ELSE at' = "wild" /\ UNCHANGED ram
  /\ UNCHANGED <<segment, ldt, eip, esp, asked, argv>>

XNext == \/ \E call \in Calls : Execve(call[1], call[2])
         \/ Exec
         \/ _start

XSpec == XInit /\ [][XNext]_xvars
-----------------------------------------------------------------------------
(* Correctness *)

\* Images as the linker makes them: what is loadable comes first.
Ordered(image) ==
  LET headers == Images[image].headers
  IN  \A i, j \in DOMAIN headers :
        i < j /\ Loadable(headers[j]) => Loadable(headers[i])
Proper(strings) == \A i \in DOMAIN strings : strings[i] # <<>>

\* The image asked for by a plain name is the one that runs, if there is one:
\* main finds all of it at the addresses it was linked for, by way of the
\* descriptor, and BSS all zero, whatever was in the segment before, where the
\* stack is and what has been stored there.  A function that exec starts finds
\* the kernel's image the same way.
AsLinked(image) ==
  /\ \A h \in ToSet(Images[image].headers) : Loadable(h) =>
       \A k \in 0 .. h.filesz - 1 :
         Fetch(h.vaddr + k) = FileByte(image, h.offset + k)
  /\ at # "function" =>
       \A a \in Images[image].bss.from .. Images[image].bss.to - 1 :
         Fetch(a) = Nul
  /\ eip = Images[image].entry
ProgramStarts ==
  asked >= 0 =>
    /\ at = "refused" => ~_elf_valid(asked)
    /\ at \in {"main", "wild"} /\ Proper(argv) /\ Ordered(asked) =>
         AsLinked(asked)
    /\ at = "function" => AsLinked(asked)

\* main(argc, argv): as many arguments as were passed, each string whole and in
\* its place, although strings, array and words are stored from the top of the
\* stack downwards and all addresses are the segment's.  A function that exec
\* starts returns to exit().
HoldsWord(a, v) == \A k \in 1 .. WORD : Fetch(a + k - 1) = Word(v)[k]
HoldsString(a, string) ==
  /\ \A k \in DOMAIN string : Fetch(a + k - 1) = Char(string[k])
  /\ Fetch(a + Len(string)) = Nul
ArgumentsReachMain ==
  /\ at \in {"_start", "main"} /\ argv # <<>> /\ Proper(argv) =>
       /\ HoldsWord(esp, Len(argv))
       /\ \E array \in 0 .. STACK - 1 :
            /\ HoldsWord(esp + WORD, array)
            /\ \A i \in DOMAIN argv : \E p \in 0 .. STACK - 1 :
                 /\ HoldsWord(array + (i - 1) * WORD, p)
                 /\ HoldsString(p, argv[i])
  /\ at = "function" => HoldsWord(esp, EXIT)
=============================================================================
