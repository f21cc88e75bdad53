------------------------------ MODULE SioSpec -------------------------------
(***************************************************************************)
(* What sio.c promises: read() returns received characters in the order    *)
(* they came, at most BUF_SIZE of them waiting, and waits when there is    *)
(* none; written characters are sent in the order they were written, a     *)
(* line feed as carriage return, line feed.                                *)
(***************************************************************************)
EXTENDS Integers, SequencesExt

CONSTANTS
  BUF_SIZE,     \* room for received characters
  CR, LF,       \* the two characters that are treated specially
  Chars,        \* the characters, with CR and LF
  Procs,        \* user processes
  None          \* no character

VARIABLES
  receiver,     \* the character that has just come in
  input,        \* received and not read yet
  waiting,      \* the processes that wait in read()
  got,          \* the character that read() returned last
  output,       \* written and not sent yet
  sent          \* what went over the line last (a CR at first)

OnInput(c) == IF c = CR THEN LF ELSE c
OnOutput(c) == IF c = LF THEN <<CR, LF>> ELSE <<c>>

Init ==
  /\ receiver = None
  /\ input = <<>>
  /\ waiting = <<>>
  /\ got = None
  /\ output = <<>>
  /\ sent = CR

Arrive(c) ==
  /\ receiver = None
  /\ receiver' = c
  /\ UNCHANGED <<input, waiting, got, output, sent>>

\* The character that has come in ends a read() (what that gets is not said
\* here), or is kept, or dropped when there is no room.
Receive ==
  /\ receiver # None
  /\ receiver' = None
  /\ IF waiting # <<>>
     THEN waiting' = Tail(waiting) /\ UNCHANGED input
     ELSE /\ input' = IF Len(input) < BUF_SIZE
                      THEN Append(input, OnInput(receiver)) ELSE input
          /\ UNCHANGED waiting
  /\ UNCHANGED <<got, output, sent>>

MayCall(p) == ~Contains(waiting, p)

Read(p) ==
  /\ MayCall(p)
  /\ IF input # <<>>
     THEN /\ got' = Head(input)
          /\ input' = Tail(input)
          /\ UNCHANGED waiting
     ELSE waiting' = Append(waiting, p) /\ UNCHANGED <<got, input>>
  /\ UNCHANGED <<receiver, output, sent>>

Write(p, c) ==
  /\ MayCall(p)
  /\ output' = output \o OnOutput(c)
  /\ UNCHANGED <<receiver, input, waiting, got, sent>>

Send ==
  /\ output # <<>>
  /\ output' = Tail(output)
  /\ sent' = Head(output)
  /\ UNCHANGED <<receiver, input, waiting, got>>

Next ==
  \/ Receive \/ Send
  \/ \E c \in Chars : Arrive(c)
  \/ \E p \in Procs : Read(p) \/ \E c \in Chars : Write(p, c)

Spec == Init /\ [][Next]_<<receiver, input, waiting, got, output, sent>>
-----------------------------------------------------------------------------

\* On the line a line feed always follows a carriage return, whoever writes.
CrBeforeLf ==
  LET line == <<sent>> \o output
  IN  \A i \in 2 .. Len(line) : line[i] = LF => line[i - 1] = CR
=============================================================================
