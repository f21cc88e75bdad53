-------------------------------- MODULE Sio ---------------------------------
(***************************************************************************)
(* sio.c and the read and write system calls: the UART's interrupts, the   *)
(* two character buffers, and the processes that wait for input.           *)
(*                                                                         *)
(* A character pointer is an offset into its buffer.  Storing at offset    *)
(* BUF_SIZE or more overwrites other variables of the kernel: such a step  *)
(* sets sstat, and the model claims nothing of what would follow.  The     *)
(* UART (TxDone, Arrive) is external: one character in its transmitter     *)
(* (txd), one in its receiver (rxd), and two event flags; writing to the   *)
(* transmitter withdraws its event.  The ISR's loop over events is one     *)
(* step per event.                                                         *)
(***************************************************************************)
EXTENDS Integers, SequencesExt

CONSTANTS
  BUF_SIZE,     \* size of each buffer
  CR, LF,       \* '\r' and '\n'
  Chars,        \* all characters
  Procs,        \* user processes
  None          \* no character

ASSUME SioAssumption ==
  /\ BUF_SIZE \in Nat \ {0}
  /\ CR \in Chars /\ LF \in Chars /\ CR # LF
  /\ None \notin Chars

Offsets == 0 .. BUF_SIZE - 1

VARIABLES
  g_inbuffer, g_inlast, g_innext, g_incount,
  g_outbuffer, g_outlast, g_outnext, g_outcount,
  g_sending,
  g_sio_blocked,        \* processes waiting for a character
  eax,                  \* the character that read() returned last
  calls,                \* system calls so far, modulo two: each call is a step
  txd, tx_event,        \* the UART's transmitter and its event flag
  rxd,                  \* the UART's receiver; its event flag is rxd # None
  sent,                 \* the character that went over the line last
  sstat                 \* running, or which buffer was overrun

inputVars == <<g_inbuffer, g_inlast, g_innext, g_incount>>
outputVars == <<g_outbuffer, g_outlast, g_outnext, g_outcount, g_sending>>
procVars == <<g_sio_blocked, eax, calls>>
uartVars == <<txd, tx_event, rxd, sent>>
vars == <<g_inbuffer, g_inlast, g_innext, g_incount, g_outbuffer, g_outlast,
          g_outnext, g_outcount, g_sending, g_sio_blocked, eax, calls, txd,
          tx_event, rxd, sent, sstat>>

Running == sstat = "running"

\* _init_sio; enabling the transmitter's interrupt may raise it at once.
Init ==
  /\ g_inbuffer = [o \in Offsets |-> None]
  /\ g_inlast = 0 /\ g_innext = 0 /\ g_incount = 0
  /\ g_outbuffer = [o \in Offsets |-> None]
  /\ g_outlast = 0 /\ g_outnext = 0 /\ g_outcount = 0
  /\ g_sending = FALSE
  /\ g_sio_blocked = <<>>
  /\ eax = None /\ calls = 0
  /\ txd = None /\ tx_event \in BOOLEAN
  /\ rxd = None
  /\ sent = CR
  /\ sstat = "running"
-----------------------------------------------------------------------------
(* The UART *)

\* A character has been sent.
TxDone ==
  /\ Running
  /\ txd # None
  /\ sent' = txd
  /\ txd' = None
  /\ tx_event' = TRUE
  /\ UNCHANGED <<inputVars, outputVars, procVars, rxd, sstat>>

\* A character arrives.
Arrive(c) ==
  /\ Running
  /\ rxd = None
  /\ rxd' = c
  /\ UNCHANGED <<inputVars, outputVars, procVars, txd, tx_event, sent, sstat>>

-----------------------------------------------------------------------------
(* _isr_sio *)

\* UA4_EIR_TX_INT_PENDING: send the next character, or end the burst.
Fault_TxEvent ==
  /\ Running
  /\ tx_event
  /\ tx_event' = FALSE
  /\ IF g_sending /\ g_outcount > 0
     THEN /\ txd' = g_outbuffer[g_outnext]
          /\ g_outnext' = g_outnext + 1
          /\ g_outcount' = g_outcount - 1
          /\ UNCHANGED <<g_outlast, g_sending>>
     ELSE /\ g_outcount' = 0 /\ g_outlast' = 0 /\ g_outnext' = 0
          /\ UNCHANGED <<g_sending, txd>>
  /\ UNCHANGED <<inputVars, g_outbuffer, procVars, rxd, sent, sstat>>
TxEvent ==
  /\ Running
  /\ tx_event
  /\ tx_event' = FALSE
  /\ IF g_sending /\ g_outcount > 0
     THEN /\ txd' = g_outbuffer[g_outnext]
          /\ g_outnext' = g_outnext + 1
          /\ g_outcount' = g_outcount - 1
          /\ UNCHANGED <<g_outlast, g_sending>>
     ELSE /\ g_outcount' = 0 /\ g_outlast' = 0 /\ g_outnext' = 0
          /\ g_sending' = FALSE
          /\ UNCHANGED txd
  /\ UNCHANGED <<inputVars, g_outbuffer, procVars, rxd, sent, sstat>>

OnInput(c) == IF c = CR THEN LF ELSE c

\* *g_inlast++ = ch; ++g_incount.
Buffered(c) ==
  IF g_inlast \in Offsets
  THEN /\ g_inbuffer' = [g_inbuffer EXCEPT ![g_inlast] = c]
       /\ g_inlast' = g_inlast + 1
       /\ g_incount' = g_incount + 1
       /\ UNCHANGED <<g_innext, sstat>>
  ELSE sstat' = "overrun_in" /\ UNCHANGED inputVars

\* UA4_EIR_RX_INT_PENDING: wake the first waiting process, or buffer the
\* character if the count says there is room.  The ISR stores the character
\* through pcb->context, an address in the process's own segment, without
\* adding where the segment begins: the saved eax of the process, which
\* begins above 0, is not reached.
RxEvent ==
  /\ Running
  /\ rxd # None
  /\ rxd' = None
  /\ \/ /\ g_sio_blocked # <<>>
        /\ g_sio_blocked' = Tail(g_sio_blocked)
        /\ UNCHANGED <<inputVars, sstat>>
     \/ /\ g_sio_blocked = <<>> /\ g_incount < BUF_SIZE
        /\ Buffered(OnInput(rxd))
        /\ UNCHANGED g_sio_blocked
     \/ /\ g_sio_blocked = <<>> /\ ~(g_incount < BUF_SIZE)
        /\ UNCHANGED <<inputVars, g_sio_blocked, sstat>>
  /\ UNCHANGED <<outputVars, eax, calls, txd, tx_event, sent>>

-----------------------------------------------------------------------------
(* System calls *)

MayCall(p) == Running /\ ~Contains(g_sio_blocked, p)

\* The last character read resets the buffer to its beginning.
Advance == IF g_incount' < 1
           THEN g_inlast' = 0 /\ g_innext' = 0
           ELSE g_innext' = g_innext + 1 /\ UNCHANGED g_inlast

\* *g_innext, the character that has been in the buffer for longest.
Fault_Oldest == g_inbuffer[g_inlast - 1]
Oldest == g_inbuffer[g_innext]

\* _sys_read with _sio_read: the first character, or block.
Read(p) ==
  /\ MayCall(p)
  /\ calls' = 1 - calls
  /\ IF g_incount > 0
     THEN /\ eax' = Oldest
          /\ g_incount' = g_incount - 1
          /\ Advance
          /\ UNCHANGED <<g_inbuffer, g_sio_blocked>>
     ELSE /\ g_sio_blocked' = Append(g_sio_blocked, p)
          /\ UNCHANGED <<inputVars, eax>>
  /\ UNCHANGED <<outputVars, uartVars, sstat>>

\* The characters of a write: LF goes out as CR, LF.
Fault_OnOutput(c) == IF c = LF THEN <<LF, CR>> ELSE <<c>>
OnOutput(c) == IF c = LF THEN <<CR, LF>> ELSE <<c>>

\* Outside a burst the first character primes the pump ...
Fault_Prime(cs) ==
  /\ IF g_sending THEN UNCHANGED <<txd, tx_event>>
                  ELSE txd' = cs[1] /\ tx_event' = FALSE
  /\ UNCHANGED g_sending
Prime(cs) ==
  /\ IF g_sending THEN UNCHANGED <<txd, tx_event>>
                  ELSE txd' = cs[1] /\ tx_event' = FALSE
  /\ g_sending' = TRUE

\* ... and all others go to the buffer.
Kept(cs) == IF g_sending THEN cs ELSE Tail(cs)

\* *g_outlast++ = ch; ++g_outcount, for each character of cs.
Queue(cs) ==
  IF g_outlast + Len(cs) <= BUF_SIZE
  THEN /\ g_outbuffer' = [o \in Offsets |->
            IF o - g_outlast + 1 \in DOMAIN cs
            THEN cs[o - g_outlast + 1] ELSE g_outbuffer[o]]
       /\ g_outlast' = g_outlast + Len(cs)
       /\ g_outcount' = g_outcount + Len(cs)
       /\ UNCHANGED sstat
  ELSE /\ sstat' = "overrun_out"
       /\ UNCHANGED <<g_outbuffer, g_outlast, g_outcount>>

\* _sys_write with _sio_write.
Write(p, c) ==
  /\ MayCall(p)
  /\ calls' = 1 - calls
  /\ Prime(OnOutput(c))
  /\ Queue(Kept(OnOutput(c)))
  /\ UNCHANGED <<inputVars, g_outnext, g_sio_blocked, eax, rxd, sent>>

-----------------------------------------------------------------------------

Next ==
  \/ TxDone \/ TxEvent \/ RxEvent
  \/ \E c \in Chars : Arrive(c)
  \/ \E p \in Procs : Read(p) \/ \E c \in Chars : Write(p, c)

Spec == Init /\ [][Next]_vars

\* The transmitter works and its interrupt is taken; nothing else is assumed.
FairSpec == Spec /\ WF_vars(TxDone) /\ WF_vars(TxEvent)
-----------------------------------------------------------------------------

TypeOK ==
  /\ g_inbuffer \in [Offsets -> Chars \cup {None}]
  /\ g_outbuffer \in [Offsets -> Chars \cup {None}]
  /\ g_inlast \in 0 .. BUF_SIZE /\ g_innext \in Offsets
  /\ g_outlast \in 0 .. BUF_SIZE /\ g_outnext \in 0 .. BUF_SIZE
  /\ g_incount \in 0 .. BUF_SIZE /\ g_outcount \in 0 .. BUF_SIZE
  /\ g_sending \in BOOLEAN /\ tx_event \in BOOLEAN
  /\ g_sio_blocked \in Seq(Procs)
  /\ eax \in Chars \cup {None} /\ calls \in {0, 1}
  /\ txd \in Chars \cup {None} /\ rxd \in Chars \cup {None}
  /\ sent \in Chars
  /\ sstat \in {"running", "overrun_in", "overrun_out"}

\* The pump is primed exactly while a burst is sent: a character in the
\* transmitter, or its event, will move the buffer on, and outside a burst
\* the transmitter is idle and nothing waits for it.
PumpPrimed ==
  Running => /\ g_sending => txd # None \/ tx_event
             /\ ~g_sending => txd = None /\ g_outcount = 0
             /\ txd # None => ~tx_event

\* Count and pointers of a buffer agree, and an empty input buffer begins at
\* its first character again.
CountsAgree ==
  /\ g_inlast - g_innext = g_incount
  /\ g_outlast - g_outnext = g_outcount
  /\ g_incount = 0 => g_innext = 0

\* The queues that the buffers hold.
Held(buffer, from, n) == [i \in 1 .. n |-> buffer[from + i - 1]]
Input == Held(g_inbuffer, g_innext, g_incount)
Output == (IF txd = None THEN <<>> ELSE <<txd>>)
            \o Held(g_outbuffer, g_outnext, g_outcount)
Abstract == INSTANCE SioSpec
  WITH input <- Input, output <- Output, waiting <- g_sio_blocked,
       got <- eax, receiver <- rxd
Promised == <<Input, Output, g_sio_blocked, eax, rxd, sent>>

\* What each call and each interrupt promises, it does.
AllAnswered ==
  /\ \A c \in Chars : Arrive(c) => Abstract!Arrive(c)
  /\ RxEvent => Abstract!Receive
  /\ \A p \in Procs : Read(p) => Abstract!Read(p)
  /\ \A p \in Procs, c \in Chars : Write(p, c) => Abstract!Write(p, c)
  /\ TxDone => Abstract!Send
  /\ TxEvent => UNCHANGED Promised

\* The buffers are queues: as long as none is overrun, a read() gets the
\* character that has waited longest or waits, every written character is
\* sent in its turn, every received one is buffered while there is room and
\* nobody waits, and nothing is doubled or reordered (sio.c).  Only what a
\* waiting process gets is not said here: see WokenReaderGetsCharacter.
ImplementsSio ==
  /\ Abstract!Init
  /\ [][Running' => Abstract!Next]_Promised
  /\ [][Running' => AllAnswered]_vars

\* Every line feed goes out with a carriage return in front of it.
CrBeforeLf == Running => Abstract!CrBeforeLf

\* Every burst of output ends, unless the buffer is overrun.
BurstEnds == g_sending ~> (~g_sending \/ ~Running)

\* "the first waiting process is awakened and it gets the character" (sio.c)
WokenReaderGetsCharacter ==
  [][\A p \in Procs :
       Contains(g_sio_blocked, p) /\ ~Contains(g_sio_blocked', p)
         => eax' = OnInput(rxd)]_vars

\* "add to the input buffer if there is room, otherwise just ignore it"
NoInputOverrun == sstat # "overrun_in"
=============================================================================
