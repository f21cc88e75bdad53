---------------------------- MODULE ConsoleSpec -----------------------------
(***************************************************************************)
(* What the input side of c_io.c promises (c_io.h): keystrokes are kept    *)
(* until the program calls for them; when the queue is full, additional    *)
(* characters are silently discarded.  c_getchar returns the next          *)
(* character typed, c_gets the characters up to a newline (kept), a ctrl-D *)
(* (not kept) or the end of its buffer.                                    *)
(***************************************************************************)
EXTENDS Naturals, Sequences

CONSTANTS
  Room,     \* how many characters the queue holds
  Codes     \* the characters

VARIABLES
  queue,        \* typed, and not asked for yet
  shift, ctrl,  \* which of these keys are held
  call,         \* the call that waits for characters, or none
  size,         \* the size of the buffer of c_gets
  got           \* the characters that the last call has got

KInit ==
  /\ queue = <<>> /\ got = <<>>
  /\ shift = FALSE /\ ctrl = FALSE
  /\ call = "none"
  /\ size = 0

\* The character a key stands for.
Character(key) ==
  CASE key = "enter"        -> "\n"
    [] key = "d" /\ ctrl    -> "EOT"
    [] key = "d" /\ ~ctrl   -> IF shift THEN "D" ELSE "d"

\* Keys that stand for no character, and keys let go, change nothing.
Press(key) ==
  /\ shift' = IF key \in {"+shift", "-shift"} THEN key = "+shift" ELSE shift
  /\ ctrl' = IF key \in {"+ctrl", "-ctrl"} THEN key = "+ctrl" ELSE ctrl
  /\ queue' = IF key \in {"d", "enter"} /\ Len(queue) < Room
              THEN Append(queue, Character(key)) ELSE queue
  /\ UNCHANGED <<call, size, got>>

CallGetchar ==
  /\ call = "none"
  /\ call' = "getchar"
  /\ got' = <<>>
  /\ UNCHANGED <<queue, shift, ctrl, size>>

\* There must be room for a character and the end of the string.
CallGets(n) ==
  /\ call = "none"
  /\ call' = IF n > 1 THEN "gets" ELSE "none"
  /\ size' = n
  /\ got' = <<>>
  /\ UNCHANGED <<queue, shift, ctrl>>

\* The call gets the oldest character, and returns if that was the last.
Take ==
  /\ call # "none" /\ queue # <<>>
  /\ queue' = Tail(queue)
  /\ LET c == Head(queue)
         line == IF call = "gets" /\ c = "EOT" THEN got ELSE Append(got, c)
         last == \/ call = "getchar" \/ c \in {"\n", "EOT"}
                 \/ Len(line) + 1 = size
     IN  /\ got' = line
         /\ call' = IF last THEN "none" ELSE call
  /\ UNCHANGED <<shift, ctrl, size>>
=============================================================================
