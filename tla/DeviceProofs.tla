---------------------------- MODULE DeviceProofs ----------------------------
(***************************************************************************)
(* Proofs about the two character devices, which share no state.           *)
(*                                                                         *)
(* Sio, for buffers of any size, any characters and any number of          *)
(* processes: the counts, pointers and the pump agree, both buffers        *)
(* implement the queues of SioSpec as long as none is overrun, and no line *)
(* feed goes over the line without a carriage return before it.            *)
(*                                                                         *)
(* Console: printing in the window and printing elsewhere leave each other *)
(* alone, the ring of keystrokes is a queue, the window shows the end of   *)
(* the text, and every int is printed as the numeral for it.               *)
(***************************************************************************)
EXTENDS Sio, Console, QueueSeqsProofs


-----------------------------------------------------------------------------
(* The characters a buffer holds *)

LEMMA HeldIs ==
  ASSUME NEW buffer, NEW from \in Int, NEW n \in Nat,
         \A o \in from .. from + n - 1 : buffer[o] \in Chars
  PROVE  /\ Held(buffer, from, n) \in Seq(Chars)
         /\ Len(Held(buffer, from, n)) = n
         /\ \A i \in 1 .. n : Held(buffer, from, n)[i] = buffer[from + i - 1]
<1> DEFINE h == [i \in 1 .. n |-> buffer[from + i - 1]]
<1>1. \A i \in 1 .. n : from + i - 1 \in from .. from + n - 1
  OBVIOUS
<1>2. h \in [1 .. n -> Chars]
  BY <1>1
<1>3. h \in Seq(Chars) /\ Len(h) = n
  BY <1>2
<1> QED BY <1>3 DEF Held

\* Taking the first character.
LEMMA HeldFirst ==
  ASSUME NEW buffer, NEW from \in Int, NEW n \in Nat \ {0},
         \A o \in from .. from + n - 1 : buffer[o] \in Chars
  PROVE  /\ Held(buffer, from, n) # <<>>
         /\ Head(Held(buffer, from, n)) = buffer[from]
         /\ Tail(Held(buffer, from, n)) = Held(buffer, from + 1, n - 1)
<1> DEFINE h == Held(buffer, from, n)
           t == Held(buffer, from + 1, n - 1)
<1>1. h \in Seq(Chars) /\ Len(h) = n
      /\ \A i \in 1 .. n : h[i] = buffer[from + i - 1]
  BY HeldIs
<1>2. t \in Seq(Chars) /\ Len(t) = n - 1
      /\ \A i \in 1 .. n - 1 : t[i] = buffer[from + i]
  <2>1. \A o \in from + 1 .. from + 1 + (n - 1) - 1 : buffer[o] \in Chars
    OBVIOUS
  <2>2. t \in Seq(Chars) /\ Len(t) = n - 1
        /\ \A i \in 1 .. n - 1 : t[i] = buffer[from + 1 + i - 1]
    BY <2>1, HeldIs
  <2>3. \A i \in 1 .. n - 1 : from + 1 + i - 1 = from + i
    OBVIOUS
  <2> QED BY <2>2, <2>3
<1> HIDE DEF h, t
<1>3. h # <<>>
  BY <1>1
<1>4. Tail(h) \in Seq(Chars) /\ Len(Tail(h)) = n - 1
      /\ \A i \in 1 .. n - 1 : Tail(h)[i] = h[i + 1]
  BY <1>1, <1>3, HeadTailProperties
<1>5. \A i \in 1 .. n - 1 : Tail(h)[i] = t[i]
  <2>1. ASSUME NEW i \in 1 .. n - 1 PROVE Tail(h)[i] = t[i]
    <3>1. i + 1 \in 1 .. n /\ from + (i + 1) - 1 = from + i
      OBVIOUS
    <3> QED BY <3>1, <1>1, <1>2, <1>4
  <2> QED BY <2>1
<1>6. Tail(h) = t
  BY <1>2, <1>4, <1>5, SeqEqual
<1>7. Head(h) = buffer[from]
  <2>1. Head(h) = h[1] BY <1>1, <1>3
  <2>2. 1 \in 1 .. n /\ from + 1 - 1 = from OBVIOUS
  <2> QED BY <2>1, <2>2, <1>1
<1> QED BY <1>3, <1>6, <1>7 DEF h, t

\* Storing characters behind the last one.
LEMMA HeldGrown ==
  ASSUME NEW buffer, NEW from \in Int, NEW n \in Nat,
         \A o \in from .. from + n - 1 : buffer[o] \in Chars,
         NEW cs \in Seq(Chars), NEW grown,
         \A o \in from .. from + n - 1 : grown[o] = buffer[o],
         \A i \in 1 .. Len(cs) : grown[from + n - 1 + i] = cs[i]
  PROVE  Held(grown, from, n + Len(cs)) = Held(buffer, from, n) \o cs
<1> DEFINE h == Held(buffer, from, n)
           g == Held(grown, from, n + Len(cs))
<1>1. Len(cs) \in Nat /\ \A i \in 1 .. Len(cs) : cs[i] \in Chars
  BY LenProperties
<1>2. h \in Seq(Chars) /\ Len(h) = n
      /\ \A i \in 1 .. n : h[i] = buffer[from + i - 1]
  BY HeldIs
<1>3. \A o \in from .. from + (n + Len(cs)) - 1 : grown[o] \in Chars
  <2>1. ASSUME NEW o \in from .. from + (n + Len(cs)) - 1
        PROVE  grown[o] \in Chars
    <3>1. CASE o < from + n
      BY <3>1, <1>1
    <3>2. CASE o >= from + n
      <4>1. /\ o - (from + n - 1) \in 1 .. Len(cs)
            /\ from + n - 1 + (o - (from + n - 1)) = o
        BY <3>2, <1>1
      <4>2. grown[from + n - 1 + (o - (from + n - 1))]
              = cs[o - (from + n - 1)]
        BY <4>1, Zenon
      <4>3. cs[o - (from + n - 1)] \in Chars
        BY <4>1, <1>1
      <4> QED BY <4>1, <4>2, <4>3
    <3> QED BY <3>1, <3>2, <1>1
  <2> QED BY <2>1
<1>4. g \in Seq(Chars) /\ Len(g) = n + Len(cs)
      /\ \A i \in 1 .. n + Len(cs) : g[i] = grown[from + i - 1]
  <2>1. n + Len(cs) \in Nat BY <1>1
  <2> QED BY <2>1, <1>3, HeldIs
<1>5. h \o cs \in Seq(Chars) /\ Len(h \o cs) = n + Len(cs)
      /\ \A i \in 1 .. n + Len(cs) :
           (h \o cs)[i] = IF i <= n THEN h[i] ELSE cs[i - n]
  <2> HIDE DEF h
  <2>1. /\ h \o cs \in Seq(Chars) /\ Len(h \o cs) = Len(h) + Len(cs)
        /\ \A i \in 1 .. Len(h) + Len(cs) :
             (h \o cs)[i] = IF i <= Len(h) THEN h[i] ELSE cs[i - Len(h)]
    BY <1>2, ConcatProperties
  <2> QED BY <2>1, <1>2
<1> HIDE DEF h, g
<1>6. ASSUME NEW i \in 1 .. n + Len(cs)
      PROVE  g[i] = (h \o cs)[i]
  <2>1. CASE i <= n
    <3>1. i \in 1 .. n /\ from + i - 1 \in from .. from + n - 1
      BY <2>1, <1>1
    <3> QED BY <2>1, <3>1, <1>2, <1>4, <1>5
  <2>2. CASE i > n
    <3>1. /\ i - n \in 1 .. Len(cs) /\ ~(i <= n)
          /\ from + n - 1 + (i - n) = from + i - 1
      BY <2>2, <1>1
    <3>2. grown[from + n - 1 + (i - n)] = cs[i - n]
      BY <3>1, Zenon
    <3>3. grown[from + i - 1] = cs[i - n]
      BY <3>1, <3>2, Zenon
    <3>4. g[i] = grown[from + i - 1] BY <1>4
    <3>5. (h \o cs)[i] = cs[i - n] BY <3>1, <1>5
    <3> QED BY <3>3, <3>4, <3>5, Zenon
  <2>3. i <= n \/ i > n BY <1>1
  <2> QED BY <2>1, <2>2, <2>3, Zenon
<1> QED BY <1>4, <1>5, <1>6, SeqEqual DEF h, g

LEMMA HeadAndTail ==
  ASSUME NEW s \in Seq(Chars), s # <<>>
  PROVE  /\ Head(s) \in Chars /\ Tail(s) \in Seq(Chars)
         /\ s = <<Head(s)>> \o Tail(s)
<1>1. /\ Head(s) \in Chars /\ Tail(s) \in Seq(Chars)
      /\ Len(s) \in Nat \ {0} /\ Len(Tail(s)) = Len(s) - 1
      /\ \A i \in 1 .. Len(Tail(s)) : Tail(s)[i] = s[i + 1]
      /\ Head(s) = s[1]
  BY HeadTailProperties, EmptySeq
<1> DEFINE hd == <<Head(s)>>
           t == hd \o Tail(s)
<1>2. hd \in Seq(Chars) /\ Len(hd) = 1 /\ hd[1] = s[1]
  BY <1>1
<1> HIDE DEF hd
<1>3. /\ t \in Seq(Chars) /\ Len(t) = 1 + Len(Tail(s))
      /\ \A i \in 1 .. 1 + Len(Tail(s)) :
           t[i] = IF i <= 1 THEN hd[i] ELSE Tail(s)[i - 1]
  <2>1. /\ t \in Seq(Chars) /\ Len(t) = Len(hd) + Len(Tail(s))
        /\ \A i \in 1 .. Len(hd) + Len(Tail(s)) :
             t[i] = IF i <= Len(hd) THEN hd[i] ELSE Tail(s)[i - Len(hd)]
    BY <1>1, <1>2, ConcatProperties
  <2> QED BY <2>1, <1>2
<1> HIDE DEF t
<1>4. ASSUME NEW i \in 1 .. Len(s) PROVE s[i] = t[i]
  <2>1. CASE i = 1 BY <2>1, <1>1, <1>2, <1>3
  <2>2. CASE i > 1
    <3>1. i - 1 \in 1 .. Len(Tail(s)) /\ i - 1 + 1 = i /\ ~(i <= 1)
      BY <2>2, <1>1
    <3>2. Tail(s)[i - 1] = s[i] BY <3>1, <1>1
    <3>3. i \in 1 .. 1 + Len(Tail(s)) BY <1>1
    <3> QED BY <3>1, <3>2, <3>3, <1>3
  <2> QED BY <2>1, <2>2, <1>1
<1>5. s = t BY <1>1, <1>3, <1>4, SeqEqual
<1> QED BY <1>1, <1>5 DEF t, hd

\* The same, for a buffer that is not named yet.
LEMMA Growing ==
  \A buffer : \A from \in Int, n \in Nat : \A cs \in Seq(Chars) : \A grown :
    /\ \A o \in from .. from + n - 1 : buffer[o] \in Chars
    /\ \A o \in from .. from + n - 1 : grown[o] = buffer[o]
    /\ \A i \in 1 .. Len(cs) : grown[from + n - 1 + i] = cs[i]
    => Held(grown, from, n + Len(cs)) = Held(buffer, from, n) \o cs
BY HeldGrown

-----------------------------------------------------------------------------
(* What goes out and comes in *)

LEMMA OutputIs ==
  ASSUME NEW c \in Chars
  PROVE  /\ OnOutput(c) \in Seq(Chars) /\ OnOutput(c) # <<>>
         /\ OnOutput(c) = Abstract!OnOutput(c)
         /\ OnInput(c) \in Chars /\ OnInput(c) = Abstract!OnInput(c)
         /\ OnOutput(c)[1] \in Chars
         /\ OnOutput(c) = <<OnOutput(c)[1]>> \o Tail(OnOutput(c))
         /\ Tail(OnOutput(c)) \in Seq(Chars)
<1>1. /\ OnOutput(c) = Abstract!OnOutput(c)
      /\ OnInput(c) \in Chars /\ OnInput(c) = Abstract!OnInput(c)
  BY SioAssumption DEF OnOutput, OnInput, Abstract!OnOutput, Abstract!OnInput
<1>2. OnOutput(c) \in Seq(Chars) /\ OnOutput(c) # <<>>
  BY SioAssumption DEF OnOutput
<1>3. OnOutput(c)[1] = Head(OnOutput(c))
  BY <1>2
<1> QED BY <1>1, <1>2, <1>3, HeadAndTail

-----------------------------------------------------------------------------
(* The inductive invariant *)

\* Every place from first to last has a character.
Filled(buffer, first, last) ==
  \A o \in first .. last - 1 : buffer[o] \in Chars

IInv ==
  /\ TypeOK
  /\ CountsAgree
  /\ PumpPrimed
  /\ Filled(g_inbuffer, g_innext, g_inlast)
  /\ Filled(g_outbuffer, g_outnext, g_outlast)

LEMMA InitInv == Init => IInv
<1> SUFFICES ASSUME Init PROVE IInv
  OBVIOUS
<1>1. BUF_SIZE \in Nat \ {0} /\ None \notin Chars /\ CR \in Chars
  BY SioAssumption
<1>2. TypeOK
  <2>1. g_sio_blocked \in Seq(Procs) BY DEF Init
  <2>2. /\ g_inbuffer \in [Offsets -> Chars \cup {None}]
        /\ g_outbuffer \in [Offsets -> Chars \cup {None}]
    BY DEF Init
  <2>3. eax \in Chars \cup {None} /\ calls \in {0, 1} BY DEF Init
  <2>4. g_sending \in BOOLEAN /\ tx_event \in BOOLEAN BY DEF Init
  <2>5. /\ g_inlast \in 0 .. BUF_SIZE /\ g_innext \in Offsets
        /\ g_outlast \in 0 .. BUF_SIZE /\ g_outnext \in 0 .. BUF_SIZE
        /\ g_incount \in 0 .. BUF_SIZE /\ g_outcount \in 0 .. BUF_SIZE
    BY <1>1 DEF Init, Offsets
  <2>6. /\ txd \in Chars \cup {None} /\ rxd \in Chars \cup {None}
        /\ sent \in Chars
        /\ sstat \in {"running", "overrun_in", "overrun_out"}
    BY <1>1 DEF Init
  <2> QED BY <2>1, <2>2, <2>3, <2>4, <2>5, <2>6 DEF TypeOK
<1>3. CountsAgree BY DEF Init, CountsAgree
<1>4. PumpPrimed BY DEF Init, PumpPrimed
<1>5. /\ Filled(g_inbuffer, g_innext, g_inlast)
      /\ Filled(g_outbuffer, g_outnext, g_outlast)
  BY DEF Init, Filled
<1> QED BY <1>2, <1>3, <1>4, <1>5 DEF IInv

LEMMA TxDoneInv == IInv /\ TxDone => IInv'
<1> SUFFICES ASSUME IInv, TxDone PROVE IInv'
  OBVIOUS
<1> USE DEF TxDone, inputVars, outputVars, procVars
<1>1. TypeOK' BY SioAssumption DEF IInv, TypeOK
<1>2. CountsAgree' BY DEF IInv, CountsAgree
<1>3. PumpPrimed' BY DEF IInv, PumpPrimed, Running
<1>4. /\ Filled(g_inbuffer, g_innext, g_inlast)'
      /\ Filled(g_outbuffer, g_outnext, g_outlast)'
  BY DEF IInv, Filled
<1> QED BY <1>1, <1>2, <1>3, <1>4 DEF IInv

LEMMA ArriveInv ==
  ASSUME IInv, NEW c \in Chars, Arrive(c)
  PROVE  IInv'
<1> USE DEF Arrive, inputVars, outputVars, procVars
<1>1. TypeOK' BY DEF IInv, TypeOK
<1>2. CountsAgree' BY DEF IInv, CountsAgree
<1>3. PumpPrimed' BY DEF IInv, PumpPrimed, Running
<1>4. /\ Filled(g_inbuffer, g_innext, g_inlast)'
      /\ Filled(g_outbuffer, g_outnext, g_outlast)'
  BY DEF IInv, Filled
<1> QED BY <1>1, <1>2, <1>3, <1>4 DEF IInv

LEMMA TxEventInv == IInv /\ TxEvent => IInv'
<1> SUFFICES ASSUME IInv, TxEvent PROVE IInv'
  OBVIOUS
<1>0. BUF_SIZE \in Nat /\ None \notin Chars
  BY SioAssumption
<1>1. CASE g_sending /\ g_outcount > 0
  <2>1. /\ txd' = g_outbuffer[g_outnext]
        /\ g_outnext' = g_outnext + 1
        /\ g_outcount' = g_outcount - 1
        /\ tx_event' = FALSE
        /\ UNCHANGED <<g_outlast, g_sending, inputVars, g_outbuffer, procVars,
                       rxd, sent, sstat>>
    BY <1>1 DEF TxEvent
  <2>2. /\ g_outnext \in 0 .. BUF_SIZE /\ g_outlast \in 0 .. BUF_SIZE
        /\ g_outcount \in 1 .. BUF_SIZE
        /\ g_outlast - g_outnext = g_outcount
    BY <1>0, <1>1 DEF IInv, TypeOK, CountsAgree
  <2>3. g_outbuffer[g_outnext] \in Chars
    BY <1>0, <2>2 DEF IInv, Filled
  <2>4. TypeOK'
    <3>1. g_outnext' \in 0 .. BUF_SIZE /\ g_outcount' \in 0 .. BUF_SIZE
      BY <1>0, <2>1, <2>2
    <3>2. tx_event' \in BOOLEAN /\ txd' \in Chars \cup {None}
      BY <2>1, <2>3
    <3> QED BY <2>1, <3>1, <3>2, Zenon DEF IInv, TypeOK, inputVars, procVars
  <2>5. CountsAgree'
    BY <2>1, <2>2 DEF IInv, CountsAgree, inputVars
  <2>6. PumpPrimed'
    BY <1>0, <1>1, <2>1, <2>3 DEF PumpPrimed, Running
  <2>7. /\ Filled(g_inbuffer, g_innext, g_inlast)'
        /\ Filled(g_outbuffer, g_outnext, g_outlast)'
    BY <2>1, <2>2 DEF IInv, Filled, inputVars
  <2> QED BY <2>4, <2>5, <2>6, <2>7 DEF IInv
<1>2. CASE ~(g_sending /\ g_outcount > 0)
  <2>1. /\ g_outcount' = 0 /\ g_outlast' = 0 /\ g_outnext' = 0
        /\ g_sending' = FALSE
        /\ tx_event' = FALSE
        /\ UNCHANGED <<txd, inputVars, g_outbuffer, procVars, rxd, sent, sstat>>
    BY <1>2 DEF TxEvent
  <2>2. TypeOK'
    <3>1. /\ g_outnext' \in 0 .. BUF_SIZE /\ g_outcount' \in 0 .. BUF_SIZE
          /\ g_outlast' \in 0 .. BUF_SIZE
      BY <1>0, <2>1
    <3>2. tx_event' \in BOOLEAN /\ g_sending' \in BOOLEAN
      BY <2>1
    <3> QED BY <2>1, <3>1, <3>2, Zenon DEF IInv, TypeOK, inputVars, procVars
  <2>3. CountsAgree'
    BY <2>1 DEF IInv, CountsAgree, inputVars
  <2>4. PumpPrimed'
    BY <2>1 DEF IInv, PumpPrimed, Running, TxEvent
  <2>5. /\ Filled(g_inbuffer, g_innext, g_inlast)'
        /\ Filled(g_outbuffer, g_outnext, g_outlast)'
    BY <2>1 DEF IInv, Filled, inputVars
  <2> QED BY <2>2, <2>3, <2>4, <2>5 DEF IInv
<1> QED BY <1>1, <1>2

LEMMA RxEventInv == IInv /\ RxEvent => IInv'
<1> SUFFICES ASSUME IInv, RxEvent PROVE IInv'
  OBVIOUS
<1>0. /\ BUF_SIZE \in Nat /\ None \notin Chars
      /\ UNCHANGED <<outputVars, eax, calls, txd, tx_event, sent>>
      /\ rxd' = None /\ rxd \in Chars /\ Running
  BY SioAssumption DEF RxEvent, IInv, TypeOK
<1>1. PumpPrimed'
  BY <1>0 DEF IInv, PumpPrimed, Running, outputVars
<1>2. Filled(g_outbuffer, g_outnext, g_outlast)'
  BY <1>0 DEF IInv, Filled, outputVars
<1>3. CASE UNCHANGED <<inputVars, sstat>>
  <2>1. g_sio_blocked' \in Seq(Procs)
    BY HeadTailProperties DEF RxEvent, IInv, TypeOK
  <2>2. TypeOK'
    BY <1>0, <1>3, <2>1 DEF IInv, TypeOK, inputVars, outputVars
  <2>3. CountsAgree' /\ Filled(g_inbuffer, g_innext, g_inlast)'
    BY <1>0, <1>3 DEF IInv, CountsAgree, Filled, inputVars, outputVars
  <2> QED BY <1>1, <1>2, <2>2, <2>3 DEF IInv
<1>4. CASE g_incount < BUF_SIZE /\ Buffered(OnInput(rxd))
           /\ UNCHANGED g_sio_blocked
  <2> DEFINE c == OnInput(rxd)
  <2>1. c \in Chars BY <1>0, OutputIs
  <2> HIDE DEF c
  <2>2. CASE g_inlast \in Offsets
    <3>1. /\ g_inbuffer' = [g_inbuffer EXCEPT ![g_inlast] = c]
          /\ g_inlast' = g_inlast + 1
          /\ g_incount' = g_incount + 1
          /\ UNCHANGED <<g_innext, sstat>>
      BY <1>4, <2>2 DEF Buffered, c
    <3>2. /\ g_inbuffer \in [Offsets -> Chars \cup {None}]
          /\ g_inlast \in 0 .. BUF_SIZE - 1 /\ g_innext \in Offsets
          /\ g_incount \in 0 .. BUF_SIZE - 1
          /\ g_inlast - g_innext = g_incount
          /\ (g_incount = 0 => g_innext = 0)
      BY <1>0, <1>4, <2>2 DEF IInv, TypeOK, CountsAgree, Offsets
    <3>3. g_inbuffer' \in [Offsets -> Chars \cup {None}]
      BY <2>1, <3>1, <3>2
    <3>4. TypeOK'
      BY <1>0, <1>4, <3>1, <3>2, <3>3 DEF IInv, TypeOK, outputVars
    <3>5. CountsAgree'
      BY <1>0, <3>1, <3>2 DEF IInv, CountsAgree, outputVars, Offsets
    <3>6. ASSUME NEW o \in g_innext .. g_inlast
          PROVE  g_inbuffer'[o] \in Chars
      <4>1. o \in Offsets BY <1>0, <3>2 DEF Offsets
      <4>2. CASE o = g_inlast BY <2>1, <3>1, <3>2, <4>1, <4>2
      <4>3. CASE o # g_inlast
        <5>1. o \in g_innext .. g_inlast - 1
          BY <1>0, <3>2, <4>3 DEF Offsets
        <5>2. g_inbuffer[o] \in Chars BY <5>1 DEF IInv, Filled
        <5> QED BY <3>1, <3>2, <4>1, <4>3, <5>2
      <4> QED BY <4>2, <4>3
    <3>7. Filled(g_inbuffer, g_innext, g_inlast)'
      <4>1. g_innext' = g_innext /\ g_inlast' - 1 = g_inlast
        BY <1>0, <3>1, <3>2
      <4>2. \A o \in g_innext' .. g_inlast' - 1 : g_inbuffer'[o] \in Chars
        BY <3>6, <4>1
      <4> QED BY <4>2 DEF Filled
    <3> QED BY <1>1, <1>2, <3>4, <3>5, <3>7 DEF IInv
  <2>3. CASE g_inlast \notin Offsets
    <3>1. sstat' = "overrun_in" /\ UNCHANGED inputVars
      BY <1>4, <2>3 DEF Buffered
    <3>2. TypeOK'
      BY <1>0, <1>4, <3>1 DEF IInv, TypeOK, inputVars, outputVars
    <3>3. CountsAgree' /\ Filled(g_inbuffer, g_innext, g_inlast)'
      BY <1>0, <3>1 DEF IInv, CountsAgree, Filled, inputVars, outputVars
    <3> QED BY <1>1, <1>2, <3>2, <3>3 DEF IInv
  <2> QED BY <2>2, <2>3
<1> QED BY <1>3, <1>4 DEF RxEvent

LEMMA ReadInv ==
  ASSUME IInv, NEW p \in Procs, Read(p)
  PROVE  IInv'
<1>0. /\ BUF_SIZE \in Nat \ {0}
      /\ UNCHANGED <<outputVars, uartVars, sstat>>
      /\ calls' \in {0, 1}
  BY SioAssumption DEF Read, IInv, TypeOK
<1>1. PumpPrimed'
  BY <1>0 DEF IInv, PumpPrimed, Running, outputVars, uartVars
<1>2. Filled(g_outbuffer, g_outnext, g_outlast)'
  BY <1>0 DEF IInv, Filled, outputVars
<1>3. /\ g_inbuffer \in [Offsets -> Chars \cup {None}]
      /\ g_inlast \in 0 .. BUF_SIZE /\ g_innext \in Offsets
      /\ g_incount \in 0 .. BUF_SIZE
      /\ g_inlast - g_innext = g_incount
      /\ (g_incount = 0 => g_innext = 0)
      /\ g_sio_blocked \in Seq(Procs)
  BY DEF IInv, TypeOK, CountsAgree
<1>4. CASE g_incount > 0
  <2>1. /\ eax' = g_inbuffer[g_innext]
        /\ g_incount' = g_incount - 1
        /\ Advance
        /\ UNCHANGED <<g_inbuffer, g_sio_blocked>>
    BY <1>4 DEF Read, Oldest
  <2>2. \/ g_incount' = 0 /\ g_inlast' = 0 /\ g_innext' = 0
        \/ g_incount' > 0 /\ g_innext' = g_innext + 1 /\ g_inlast' = g_inlast
    BY <1>3, <1>4, <2>1 DEF Advance
  <2>3. g_inlast' \in 0 .. BUF_SIZE /\ g_innext' \in Offsets
        /\ g_incount' \in 0 .. BUF_SIZE
        /\ g_inlast' - g_innext' = g_incount'
    BY <1>0, <1>3, <1>4, <2>1, <2>2 DEF Offsets
  <2>4. eax' \in Chars \cup {None}
    BY <1>3, <2>1
  <2>5. TypeOK'
    BY <1>0, <1>3, <2>1, <2>3, <2>4 DEF IInv, TypeOK, outputVars, uartVars
  <2>6. CountsAgree'
    BY <1>0, <2>2, <2>3 DEF IInv, CountsAgree, outputVars
  <2>7. Filled(g_inbuffer, g_innext, g_inlast)'
    <3>1. ASSUME NEW o \in g_innext' .. g_inlast' - 1
          PROVE  g_inbuffer'[o] \in Chars
      <4>1. o \in g_innext .. g_inlast - 1
        BY <1>0, <1>3, <2>2 DEF Offsets
      <4> QED BY <2>1, <4>1 DEF IInv, Filled
    <3>2. Filled(g_inbuffer', g_innext', g_inlast') BY <3>1 DEF Filled
    <3> QED BY <3>2 DEF Filled
  <2> QED BY <1>1, <1>2, <2>5, <2>6, <2>7 DEF IInv
<1>5. CASE ~(g_incount > 0)
  <2>1. /\ g_sio_blocked' = Append(g_sio_blocked, p)
        /\ UNCHANGED <<inputVars, eax>>
    BY <1>5 DEF Read
  <2>2. g_sio_blocked' \in Seq(Procs)
    BY <1>3, <2>1
  <2>3. TypeOK'
    BY <1>0, <2>1, <2>2 DEF IInv, TypeOK, inputVars, outputVars, uartVars
  <2>4. CountsAgree' /\ Filled(g_inbuffer, g_innext, g_inlast)'
    BY <1>0, <2>1 DEF IInv, CountsAgree, Filled, inputVars, outputVars
  <2> QED BY <1>1, <1>2, <2>3, <2>4 DEF IInv
<1> QED BY <1>4, <1>5

\* The characters that a write keeps for later.
LEMMA KeptIs ==
  ASSUME NEW c \in Chars
  PROVE  Kept(OnOutput(c)) \in Seq(Chars)
BY OutputIs DEF Kept

\* What a write does to the buffer when there is room.
LEMMA QueueRoom ==
  ASSUME IInv, NEW cs \in Seq(Chars), Queue(cs),
         g_outlast + Len(cs) <= BUF_SIZE
  PROVE  /\ g_outbuffer' \in [Offsets -> Chars \cup {None}]
         /\ g_outlast' = g_outlast + Len(cs)
         /\ g_outcount' = g_outcount + Len(cs)
         /\ sstat' = sstat
         /\ \A o \in g_outnext .. g_outlast - 1 :
              g_outbuffer'[o] = g_outbuffer[o]
         /\ \A i \in 1 .. Len(cs) : g_outbuffer'[g_outlast - 1 + i] = cs[i]
<1>0. /\ BUF_SIZE \in Nat /\ Len(cs) \in Nat /\ DOMAIN cs = 1 .. Len(cs)
      /\ \A i \in 1 .. Len(cs) : cs[i] \in Chars
  BY SioAssumption, LenProperties
<1>1. /\ g_outbuffer \in [Offsets -> Chars \cup {None}]
      /\ g_outlast \in 0 .. BUF_SIZE /\ g_outnext \in 0 .. BUF_SIZE
  BY DEF IInv, TypeOK
<1>2. /\ g_outbuffer' = [o \in Offsets |->
            IF o - g_outlast + 1 \in DOMAIN cs
            THEN cs[o - g_outlast + 1] ELSE g_outbuffer[o]]
      /\ g_outlast' = g_outlast + Len(cs)
      /\ g_outcount' = g_outcount + Len(cs)
      /\ sstat' = sstat
  BY DEF Queue
<1>3. g_outbuffer' \in [Offsets -> Chars \cup {None}]
  <2>1. \A o \in Offsets : (IF o - g_outlast + 1 \in DOMAIN cs
                            THEN cs[o - g_outlast + 1] ELSE g_outbuffer[o])
                             \in Chars \cup {None}
    BY <1>0, <1>1
  <2> QED BY <1>2, <2>1
<1>4. ASSUME NEW o \in g_outnext .. g_outlast - 1
      PROVE  g_outbuffer'[o] = g_outbuffer[o]
  <2>1. o \in Offsets /\ o - g_outlast + 1 \notin DOMAIN cs
    BY <1>0, <1>1 DEF Offsets
  <2> QED BY <1>2, <2>1
<1>5. ASSUME NEW i \in 1 .. Len(cs)
      PROVE  g_outbuffer'[g_outlast - 1 + i] = cs[i]
  <2>1. g_outlast - 1 + i \in Offsets
        /\ (g_outlast - 1 + i) - g_outlast + 1 = i
    BY <1>0, <1>1 DEF Offsets
  <2> QED BY <1>0, <1>2, <2>1
<1> QED BY <1>2, <1>3, <1>4, <1>5

LEMMA WriteInv ==
  ASSUME IInv, NEW p \in Procs, NEW c \in Chars, Write(p, c)
  PROVE  IInv'
<1> DEFINE cs == OnOutput(c)
           ks == Kept(cs)
<1>0. /\ BUF_SIZE \in Nat /\ None \notin Chars
      /\ Running /\ Prime(cs) /\ Queue(ks)
      /\ UNCHANGED <<inputVars, g_outnext, g_sio_blocked, eax, rxd, sent>>
      /\ calls' \in {0, 1}
  BY SioAssumption DEF Write, MayCall, IInv, TypeOK
<1>1. cs[1] \in Chars /\ ks \in Seq(Chars) /\ Len(ks) \in Nat
  BY OutputIs, KeptIs, LenProperties
<1> HIDE DEF cs, ks
<1>2. /\ g_sending' = TRUE
      /\ \/ g_sending /\ UNCHANGED <<txd, tx_event>>
         \/ ~g_sending /\ txd' = cs[1] /\ tx_event' = FALSE
      /\ txd' \in Chars \cup {None} /\ tx_event' \in BOOLEAN
  BY <1>0, <1>1 DEF Prime, IInv, TypeOK
<1>3. PumpPrimed'
  BY <1>0, <1>1, <1>2 DEF IInv, PumpPrimed
<1>4. Filled(g_inbuffer, g_innext, g_inlast)'
  BY <1>0 DEF IInv, Filled, inputVars
<1>5. CASE g_outlast + Len(ks) <= BUF_SIZE
  <2>1. /\ g_outbuffer' \in [Offsets -> Chars \cup {None}]
        /\ g_outlast' = g_outlast + Len(ks)
        /\ g_outcount' = g_outcount + Len(ks)
        /\ sstat' = sstat
        /\ \A o \in g_outnext .. g_outlast - 1 :
             g_outbuffer'[o] = g_outbuffer[o]
        /\ \A i \in 1 .. Len(ks) : g_outbuffer'[g_outlast - 1 + i] = ks[i]
    BY <1>0, <1>1, <1>5, QueueRoom
  <2>2. /\ g_outlast \in 0 .. BUF_SIZE /\ g_outnext \in 0 .. BUF_SIZE
        /\ g_outcount \in 0 .. BUF_SIZE
        /\ g_outlast - g_outnext = g_outcount
    BY DEF IInv, TypeOK, CountsAgree
  <2>3. g_outlast' \in 0 .. BUF_SIZE /\ g_outcount' \in 0 .. BUF_SIZE
        /\ g_outlast' - g_outnext' = g_outcount'
    BY <1>0, <1>1, <1>5, <2>1, <2>2
  <2>4. TypeOK'
    BY <1>0, <1>2, <2>1, <2>3 DEF IInv, TypeOK, inputVars
  <2>5. CountsAgree'
    BY <1>0, <2>3 DEF IInv, CountsAgree, inputVars
  <2>6. ASSUME NEW o \in g_outnext .. g_outlast + Len(ks) - 1
        PROVE  g_outbuffer'[o] \in Chars
    <3>1. CASE o < g_outlast
      <4>1. o \in g_outnext .. g_outlast - 1 BY <1>1, <2>2, <3>1
      <4> QED BY <2>1, <4>1 DEF IInv, Filled
    <3>2. CASE o >= g_outlast
      <4>1. /\ o - (g_outlast - 1) \in 1 .. Len(ks)
            /\ g_outlast - 1 + (o - (g_outlast - 1)) = o
        BY <1>1, <2>2, <3>2
      <4>2. g_outbuffer'[g_outlast - 1 + (o - (g_outlast - 1))]
              = ks[o - (g_outlast - 1)]
        BY <2>1, <4>1, Zenon
      <4>3. ks[o - (g_outlast - 1)] \in Chars
        BY <1>1, <4>1, ElementOfSeq
      <4> QED BY <4>1, <4>2, <4>3
    <3> QED BY <3>1, <3>2, <1>1, <2>2
  <2>7. Filled(g_outbuffer, g_outnext, g_outlast)'
    <3>1. g_outnext' = g_outnext /\ g_outlast' = g_outlast + Len(ks)
      BY <1>0, <2>1
    <3>2. g_outlast' - 1 = g_outlast + Len(ks) - 1
      BY <1>1, <2>2, <3>1
    <3>3. \A o \in g_outnext' .. g_outlast' - 1 : g_outbuffer'[o] \in Chars
      BY <2>6, <3>1, <3>2, Zenon
    <3> QED BY <3>3 DEF Filled
  <2> QED BY <1>3, <1>4, <2>4, <2>5, <2>7 DEF IInv
<1>6. CASE ~(g_outlast + Len(ks) <= BUF_SIZE)
  <2>1. sstat' = "overrun_out"
        /\ UNCHANGED <<g_outbuffer, g_outlast, g_outcount>>
    BY <1>0, <1>6 DEF Queue
  <2>2. TypeOK'
    BY <1>0, <1>2, <2>1 DEF IInv, TypeOK, inputVars
  <2>3. CountsAgree' /\ Filled(g_outbuffer, g_outnext, g_outlast)'
    BY <1>0, <2>1 DEF IInv, CountsAgree, Filled, inputVars
  <2> QED BY <1>3, <1>4, <2>2, <2>3 DEF IInv
<1> QED BY <1>5, <1>6

LEMMA NextInv == IInv /\ [Next]_vars => IInv'
<1> SUFFICES ASSUME IInv, [Next]_vars PROVE IInv'
  OBVIOUS
<1>1. CASE TxDone BY <1>1, TxDoneInv
<1>2. CASE TxEvent BY <1>2, TxEventInv
<1>3. CASE RxEvent BY <1>3, RxEventInv
<1>4. CASE \E c \in Chars : Arrive(c) BY <1>4, ArriveInv
<1>5. CASE \E p \in Procs : Read(p) BY <1>5, ReadInv
<1>6. CASE \E p \in Procs : \E c \in Chars : Write(p, c) BY <1>6, WriteInv
<1>7. CASE UNCHANGED vars
  BY <1>7 DEF IInv, TypeOK, CountsAgree, PumpPrimed, Running, Filled, vars
<1> QED BY <1>1, <1>2, <1>3, <1>4, <1>5, <1>6, <1>7 DEF Next

LEMMA Invariance == Spec => []IInv
BY InitInv, NextInv, PTL DEF Spec

-----------------------------------------------------------------------------
(* The buffers are the queues of SioSpec *)

LEMMA QueuesAre ==
  ASSUME IInv
  PROVE  /\ Input \in Seq(Chars) /\ Len(Input) = g_incount
         /\ Held(g_outbuffer, g_outnext, g_outcount) \in Seq(Chars)
         /\ Len(Held(g_outbuffer, g_outnext, g_outcount)) = g_outcount
         /\ (txd # None => <<txd>> \in Seq(Chars))
         /\ Output \in Seq(Chars)
         /\ (txd = None => Output = Held(g_outbuffer, g_outnext, g_outcount))
<1> DEFINE h == Held(g_outbuffer, g_outnext, g_outcount)
<1>1. /\ g_incount \in Nat /\ g_innext \in Int /\ g_inlast \in Int
      /\ g_outcount \in Nat /\ g_outnext \in Int /\ g_outlast \in Int
      /\ g_inlast - g_innext = g_incount
      /\ g_outlast - g_outnext = g_outcount
      /\ txd \in Chars \cup {None}
  BY SioAssumption DEF IInv, TypeOK, CountsAgree, Offsets
<1>2. \A o \in g_innext .. g_innext + g_incount - 1 : g_inbuffer[o] \in Chars
  BY <1>1 DEF IInv, Filled
<1>3. \A o \in g_outnext .. g_outnext + g_outcount - 1 :
        g_outbuffer[o] \in Chars
  BY <1>1 DEF IInv, Filled
<1>4. Input \in Seq(Chars) /\ Len(Input) = g_incount
  BY <1>1, <1>2, HeldIs DEF Input
<1>5. h \in Seq(Chars) /\ Len(h) = g_outcount
  BY <1>1, <1>3, HeldIs
<1> HIDE DEF h
<1>6. txd # None => <<txd>> \in Seq(Chars)
  BY <1>1
<1>7. txd = None => Output = h
  <2>1. txd = None => Output = <<>> \o h BY DEF Output, h
  <2> QED BY <2>1, <1>5, ConcatEmptySeq
<1>8. txd # None => Output = <<txd>> \o h
  BY DEF Output, h
<1>9. Output \in Seq(Chars)
  BY <1>5, <1>6, <1>7, <1>8, ConcatProperties
<1> QED BY <1>4, <1>5, <1>6, <1>7, <1>9 DEF h

LEMMA InputKept ==
  ASSUME UNCHANGED inputVars PROVE Input' = Input
BY DEF inputVars, Input, Held

LEMMA OutputKept ==
  ASSUME UNCHANGED outputVars, UNCHANGED txd PROVE Output' = Output
BY DEF outputVars, Output, Held

LEMMA TxDoneRefined == IInv /\ TxDone => Abstract!Send
<1> SUFFICES ASSUME IInv, TxDone PROVE Abstract!Send
  OBVIOUS
<1> DEFINE h == Held(g_outbuffer, g_outnext, g_outcount)
<1>1. /\ txd # None /\ sent' = txd /\ txd' = None
      /\ UNCHANGED <<inputVars, outputVars>>
      /\ UNCHANGED <<g_sio_blocked, eax, rxd>>
  BY DEF TxDone, procVars
<1>2. h \in Seq(Chars) /\ <<txd>> \in Seq(Chars)
  BY <1>1, QueuesAre
<1>3. h' = h BY <1>1 DEF outputVars, Held
<1> HIDE DEF h
<1>4. Output = <<txd>> \o h BY <1>1 DEF Output, h
<1>5. Output' = h
  <2>1. Output' = <<>> \o h' BY <1>1 DEF Output, h
  <2> QED BY <2>1, <1>2, <1>3, ConcatEmptySeq
<1>6. Output # <<>> /\ Head(Output) = txd /\ Tail(Output) = h
  <2>1. /\ Output \in Seq(Chars) /\ Len(Output) = 1 + Len(h)
        /\ \A i \in 1 .. 1 + Len(h) :
             Output[i] = IF i <= 1 THEN txd ELSE h[i - 1]
    <3>1. /\ <<txd>> \o h \in Seq(Chars)
          /\ Len(<<txd>> \o h) = Len(<<txd>>) + Len(h)
          /\ \A i \in 1 .. Len(<<txd>>) + Len(h) :
               (<<txd>> \o h)[i] = IF i <= Len(<<txd>>) THEN <<txd>>[i]
                                   ELSE h[i - Len(<<txd>>)]
      BY <1>2, ConcatProperties
    <3> QED BY <1>4, <3>1
  <2>2. Len(h) \in Nat BY <1>2, LenProperties
  <2>3. Output # <<>> BY <2>1, <2>2
  <2>4. Head(Output) = Output[1] BY <2>1, <2>3
  <2>5. /\ Tail(Output) \in Seq(Chars) /\ Len(Tail(Output)) = Len(h)
        /\ \A i \in 1 .. Len(h) : Tail(Output)[i] = Output[i + 1]
    BY <2>1, <2>2, <2>3, HeadTailProperties
  <2>6. ASSUME NEW i \in 1 .. Len(h) PROVE Tail(Output)[i] = h[i]
    <3>1. i + 1 \in 1 .. 1 + Len(h) /\ ~(i + 1 <= 1) /\ i + 1 - 1 = i
      BY <2>2
    <3>2. Output[i + 1] = h[i + 1 - 1] BY <2>1, <3>1
    <3> QED BY <2>5, <3>1, <3>2
  <2>7. Tail(Output) = h BY <1>2, <2>5, <2>6, SeqEqual
  <2> QED BY <2>1, <2>2, <2>3, <2>4, <2>7
<1>7. Input' = Input BY <1>1, InputKept
<1> QED BY <1>1, <1>5, <1>6, <1>7 DEF Abstract!Send

LEMMA TxEventRefined ==
  IInv /\ TxEvent => UNCHANGED Promised
<1> USE DEF Promised
<1> SUFFICES ASSUME IInv, TxEvent
             PROVE  UNCHANGED Promised
  OBVIOUS
<1>0. /\ UNCHANGED <<inputVars, g_sio_blocked, eax, rxd, sent>>
      /\ txd = None /\ Running
  BY DEF TxEvent, IInv, PumpPrimed, procVars
<1>1. Input' = Input BY <1>0, InputKept
<1>2. /\ g_outcount \in Nat /\ g_outnext \in Int /\ g_outlast \in Int
      /\ g_outlast - g_outnext = g_outcount
      /\ None \notin Chars
  BY SioAssumption DEF IInv, TypeOK, CountsAgree
<1>3. /\ Output = Held(g_outbuffer, g_outnext, g_outcount)
      /\ Output \in Seq(Chars) /\ Len(Output) = g_outcount
  BY <1>0, QueuesAre
<1>4. CASE g_sending /\ g_outcount > 0
  <2>1. /\ txd' = g_outbuffer[g_outnext]
        /\ g_outnext' = g_outnext + 1
        /\ g_outcount' = g_outcount - 1
        /\ g_outbuffer' = g_outbuffer
    BY <1>4 DEF TxEvent
  <2>2. \A o \in g_outnext .. g_outnext + g_outcount - 1 :
          g_outbuffer[o] \in Chars
    BY <1>2 DEF IInv, Filled
  <2>3. txd' \in Chars BY <1>2, <1>4, <2>1, <2>2
  <2>4. /\ Output # <<>> /\ Head(Output) = g_outbuffer[g_outnext]
        /\ Tail(Output) = Held(g_outbuffer, g_outnext + 1, g_outcount - 1)
    BY <1>2, <1>3, <1>4, <2>2, HeldFirst
  <2>5. Output = <<Head(Output)>> \o Tail(Output)
    BY <1>3, <2>4, HeadAndTail
  <2>6. Output' = <<txd'>> \o Held(g_outbuffer', g_outnext', g_outcount')
    BY <1>2, <2>3 DEF Output
  <2> QED BY <1>0, <1>1, <2>1, <2>4, <2>5, <2>6
<1>5. CASE ~(g_sending /\ g_outcount > 0)
  <2>1. g_outcount' = 0 /\ g_outnext' = 0 /\ txd' = None
    BY <1>0, <1>5 DEF TxEvent
  <2>2. g_outcount = 0
    BY <1>0, <1>2, <1>5 DEF IInv, PumpPrimed
  <2>3. Output = <<>>
    BY <1>3, <2>2
  <2>4. Output' = <<>> \o Held(g_outbuffer', 0, 0)
    BY <2>1 DEF Output
  <2>5. Held(g_outbuffer', 0, 0) \in Seq(Chars)
        /\ Len(Held(g_outbuffer', 0, 0)) = 0
    BY HeldIs
  <2>6. Held(g_outbuffer', 0, 0) = <<>>
    BY <2>5
  <2>7. Output' = <<>>
    BY <2>4, <2>6
  <2> QED BY <1>0, <1>1, <2>3, <2>7
<1> QED BY <1>4, <1>5

\* A character comes in.
LEMMA ArriveRefined ==
  ASSUME NEW c \in Chars, Arrive(c)
  PROVE  Abstract!Arrive(c)
<1>1. /\ UNCHANGED <<inputVars, outputVars, g_sio_blocked, eax, txd, sent>>
      /\ rxd = None /\ rxd' = c
  BY DEF Arrive, procVars
<1> QED BY <1>1, InputKept, OutputKept DEF Abstract!Arrive

LEMMA RxEventRefined == IInv /\ RxEvent /\ Running' => Abstract!Receive
<1> SUFFICES ASSUME IInv, RxEvent, Running'
             PROVE  Abstract!Receive
  OBVIOUS
<1>0. /\ UNCHANGED <<outputVars, txd, eax, sent>>
      /\ rxd \in Chars /\ rxd # None /\ rxd' = None
  BY DEF RxEvent, IInv, TypeOK
<1>1. Output' = Output BY <1>0, OutputKept
<1>2. Len(Input) = g_incount /\ BUF_SIZE \in Nat
  BY QueuesAre, SioAssumption
<1>3. CASE g_sio_blocked # <<>>
  <2>1. g_sio_blocked' = Tail(g_sio_blocked) /\ UNCHANGED inputVars
    BY <1>3 DEF RxEvent
  <2> QED BY <1>0, <1>1, <1>3, <2>1, InputKept DEF Abstract!Receive
<1>4. CASE g_sio_blocked = <<>> /\ ~(g_incount < BUF_SIZE)
  <2>1. UNCHANGED <<inputVars, g_sio_blocked>>
    BY <1>4 DEF RxEvent
  <2> QED BY <1>0, <1>1, <1>2, <1>4, <2>1, InputKept DEF Abstract!Receive
<1>5. CASE g_sio_blocked = <<>> /\ g_incount < BUF_SIZE
  <2>0. Buffered(OnInput(rxd)) /\ UNCHANGED g_sio_blocked
    BY <1>5 DEF RxEvent
  <2> DEFINE c == OnInput(rxd)
             cs == <<c>>
  <2>1. c \in Chars /\ c = Abstract!OnInput(rxd)
    BY <1>0, OutputIs
  <2>2. cs \in Seq(Chars) /\ Len(cs) = 1 /\ cs[1] = c
    BY <2>1
  <2>3. /\ g_inlast \in Offsets
        /\ g_inbuffer' = [g_inbuffer EXCEPT ![g_inlast] = c]
        /\ g_incount' = g_incount + 1
        /\ g_innext' = g_innext
    BY <2>0 DEF Buffered, Running
  <2>4. /\ g_inbuffer \in [Offsets -> Chars \cup {None}]
        /\ g_innext \in Int /\ g_inlast \in Int /\ g_incount \in Nat
        /\ g_inlast - g_innext = g_incount
        /\ g_innext + g_incount = g_inlast
        /\ g_innext >= 0
    BY SioAssumption DEF IInv, TypeOK, CountsAgree, Offsets
  <2> HIDE DEF c, cs
  <2>5. \A o \in g_innext .. g_innext + g_incount - 1 :
          g_inbuffer[o] \in Chars
    BY <2>4 DEF IInv, Filled
  <2>6. \A o \in g_innext .. g_innext + g_incount - 1 :
          g_inbuffer'[o] = g_inbuffer[o]
    <3>1. ASSUME NEW o \in g_innext .. g_innext + g_incount - 1
          PROVE  g_inbuffer'[o] = g_inbuffer[o]
      <4>1. o \in g_innext .. g_inlast - 1 BY <2>4
      <4>2. o # g_inlast /\ o \in Offsets
        BY <2>3, <2>4, <4>1, SioAssumption DEF Offsets
      <4> QED BY <2>3, <2>4, <4>2
    <3> QED BY <3>1
  <2>7. g_inbuffer'[g_inlast] = c BY <2>3, <2>4
  <2>8. \A i \in 1 .. Len(cs) : g_inbuffer'[g_innext + g_incount - 1 + i] = cs[i]
    BY <2>2, <2>4, <2>7
  <2>9. Held(g_inbuffer', g_innext, g_incount + Len(cs))
          = Held(g_inbuffer, g_innext, g_incount) \o cs
    <3>1. g_innext \in Int /\ g_incount \in Nat /\ cs \in Seq(Chars)
      BY <2>2, <2>4
    <3> QED BY <2>5, <2>6, <2>8, <3>1, Growing, Zenon
  <2>10. Input' = Held(g_inbuffer', g_innext, g_incount + Len(cs))
    BY <2>2, <2>3 DEF Input
  <2>11. Input \o cs = Append(Input, c)
    <3>1. Input \in Seq(Chars) BY QueuesAre
    <3> QED BY <2>1, <3>1 DEF cs
  <2>12. Input' = Append(Input, c)
    BY <2>9, <2>10, <2>11 DEF Input
  <2> QED BY <1>0, <1>1, <1>2, <1>5, <2>0, <2>1, <2>12 DEF Abstract!Receive
<1> QED BY <1>3, <1>4, <1>5

\* A read() gets the oldest character, or waits.
LEMMA ReadRefined ==
  ASSUME IInv, NEW p \in Procs, Read(p)
  PROVE  Abstract!Read(p)
<1>0. /\ UNCHANGED <<outputVars, txd, rxd, sent>>
      /\ Abstract!MayCall(p)
  BY DEF Read, uartVars, MayCall, Contains, Abstract!MayCall, Abstract!Contains
<1>1. Output' = Output BY <1>0, OutputKept
<1>2. CASE g_incount > 0
  <2>1. /\ g_incount' = g_incount - 1
        /\ Advance
        /\ UNCHANGED <<g_inbuffer, g_sio_blocked>>
        /\ eax' = g_inbuffer[g_innext]
    BY <1>2 DEF Read, Oldest
  <2>2. /\ g_incount \in Nat /\ g_innext \in Int /\ g_inlast \in Int
        /\ g_innext + g_incount = g_inlast
    BY SioAssumption DEF IInv, TypeOK, CountsAgree, Offsets
  <2>3. \A o \in g_innext .. g_innext + g_incount - 1 : g_inbuffer[o] \in Chars
    BY <2>2 DEF IInv, Filled
  <2>4. /\ Input # <<>>
        /\ eax' = Head(Input)
        /\ Tail(Input) = Held(g_inbuffer, g_innext + 1, g_incount - 1)
    BY <1>2, <2>1, <2>2, <2>3, HeldFirst DEF Input
  <2>5. Input' = Tail(Input)
    <3>1. CASE g_incount' < 1
      <4>1. g_incount' = 0 /\ g_innext' = 0 /\ g_incount - 1 = 0
        BY <1>2, <2>1, <2>2, <3>1 DEF Advance
      <4>2. Held(g_inbuffer, g_innext + 1, 0) = <<>>
        <5>1. Len(Held(g_inbuffer, g_innext + 1, 0)) = 0
              /\ Held(g_inbuffer, g_innext + 1, 0) \in Seq(Chars)
          BY <2>2, HeldIs
        <5> QED BY <5>1
      <4>3. Held(g_inbuffer, 0, 0) = <<>>
        <5>1. Len(Held(g_inbuffer, 0, 0)) = 0
              /\ Held(g_inbuffer, 0, 0) \in Seq(Chars)
          BY HeldIs
        <5> QED BY <5>1
      <4>4. Input' = Held(g_inbuffer, 0, 0) BY <2>1, <4>1 DEF Input
      <4> QED BY <2>4, <4>1, <4>2, <4>3, <4>4
    <3>2. CASE ~(g_incount' < 1)
      <4>1. g_innext' = g_innext + 1 BY <2>1, <3>2 DEF Advance
      <4>2. Input' = Held(g_inbuffer, g_innext + 1, g_incount - 1)
        BY <2>1, <4>1 DEF Input
      <4> QED BY <2>4, <4>2
    <3> QED BY <3>1, <3>2
  <2> QED BY <1>0, <1>1, <2>1, <2>4, <2>5 DEF Abstract!Read
<1>3. CASE ~(g_incount > 0)
  <2>1. /\ UNCHANGED <<inputVars, eax>>
        /\ g_sio_blocked' = Append(g_sio_blocked, p)
    BY <1>3 DEF Read
  <2>2. Input = <<>>
    <3>1. Input \in Seq(Chars) /\ Len(Input) = g_incount /\ g_incount \in Nat
      BY QueuesAre DEF IInv, TypeOK
    <3> QED BY <1>3, <3>1
  <2> QED BY <1>0, <1>1, <2>1, <2>2, InputKept DEF Abstract!Read
<1> QED BY <1>2, <1>3

LEMMA WriteRefined ==
  ASSUME IInv, NEW p \in Procs, NEW c \in Chars, Write(p, c), Running'
  PROVE  Abstract!Write(p, c)
<1> DEFINE cs == OnOutput(c)
           ks == Kept(cs)
           h == Held(g_outbuffer, g_outnext, g_outcount)
           g == Held(g_outbuffer', g_outnext, g_outcount + Len(ks))
<1>0. /\ Running /\ Prime(cs) /\ Queue(ks) /\ None \notin Chars
      /\ UNCHANGED <<inputVars, g_outnext, g_sio_blocked, eax, rxd, sent>>
      /\ Abstract!MayCall(p)
  BY SioAssumption
  DEF Write, MayCall, Contains, Abstract!MayCall, Abstract!Contains
<1>1. /\ cs \in Seq(Chars) /\ cs # <<>> /\ cs = Abstract!OnOutput(c)
      /\ cs[1] \in Chars /\ cs = <<cs[1]>> \o Tail(cs)
      /\ Tail(cs) \in Seq(Chars)
      /\ ks \in Seq(Chars)
      /\ ks = IF g_sending THEN cs ELSE Tail(cs)
  BY OutputIs, KeptIs DEF Kept
<1>2. Input' = Input BY <1>0, InputKept
<1> HIDE DEF cs, ks
<1>3. g_outlast + Len(ks) <= BUF_SIZE
  BY <1>0 DEF Queue, Running
<1>4. /\ g_outlast' = g_outlast + Len(ks)
      /\ g_outcount' = g_outcount + Len(ks)
      /\ \A o \in g_outnext .. g_outlast - 1 :
           g_outbuffer'[o] = g_outbuffer[o]
      /\ \A i \in 1 .. Len(ks) : g_outbuffer'[g_outlast - 1 + i] = ks[i]
  BY <1>0, <1>1, <1>3, QueueRoom
<1>5. /\ g_outcount \in Nat /\ g_outnext \in Int /\ g_outlast \in Int
      /\ g_outnext + g_outcount = g_outlast
      /\ g_outnext + g_outcount - 1 = g_outlast - 1
  BY SioAssumption DEF IInv, TypeOK, CountsAgree
<1>6. g = h \o ks
  <2>1. \A o \in g_outnext .. g_outnext + g_outcount - 1 :
          g_outbuffer[o] \in Chars
    BY <1>5 DEF IInv, Filled
  <2>2. \A o \in g_outnext .. g_outnext + g_outcount - 1 :
          g_outbuffer'[o] = g_outbuffer[o]
    BY <1>4, <1>5
  <2>3. \A i \in 1 .. Len(ks) :
          g_outbuffer'[g_outnext + g_outcount - 1 + i] = ks[i]
    BY <1>4, <1>5
  <2>4. g_outnext \in Int /\ g_outcount \in Nat /\ ks \in Seq(Chars)
    BY <1>1, <1>5
  <2> QED BY <2>1, <2>2, <2>3, <2>4, Growing, Zenon
<1>7. /\ h \in Seq(Chars) /\ Len(h) = g_outcount
      /\ (txd # None => <<txd>> \in Seq(Chars))
      /\ (txd = None => Output = h)
  BY QueuesAre
<1>8. Output' = (IF txd' = None THEN <<>> ELSE <<txd'>>) \o g
  BY <1>0, <1>4 DEF Output
<1>9. txd # None => Output = <<txd>> \o h
  BY DEF Output
<1> HIDE DEF h, g
<1>10. Output' = Output \o cs
  <2>1. CASE g_sending /\ txd = None
    <3>1. txd' = None /\ ks = cs BY <1>0, <1>1, <2>1 DEF Prime
    <3>2. Output' = <<>> \o g BY <1>8, <3>1
    <3>3. g \in Seq(Chars) BY <1>1, <1>6, <1>7, ConcatProperties
    <3>4. Output' = g BY <3>2, <3>3, ConcatEmptySeq
    <3> QED BY <1>6, <1>7, <2>1, <3>1, <3>4
  <2>2. CASE g_sending /\ txd # None
    <3>1. txd' = txd /\ ks = cs BY <1>0, <1>1, <2>2 DEF Prime
    <3>2. Output' = <<txd>> \o (h \o cs) BY <1>6, <1>8, <2>2, <3>1
    <3>3. (<<txd>> \o h) \o cs = <<txd>> \o (h \o cs)
      BY <1>1, <1>7, <2>2, ConcatAssociative
    <3> QED BY <1>9, <2>2, <3>2, <3>3
  <2>3. CASE ~g_sending
    <3>1. txd' = cs[1] /\ ks = Tail(cs) BY <1>0, <1>1, <2>3 DEF Prime
    <3>2. txd = None /\ g_outcount = 0
      BY <1>0, <2>3 DEF IInv, PumpPrimed
    <3>3. h = <<>> BY <1>7, <3>2
    <3>4. g = ks BY <1>1, <1>6, <3>3, ConcatEmptySeq
    <3>5. txd' # None BY <1>0, <1>1, <3>1
    <3>6. Output' = <<cs[1]>> \o Tail(cs) BY <1>8, <3>1, <3>4, <3>5
    <3>7. Output \o cs = cs BY <1>1, <1>7, <3>2, <3>3, ConcatEmptySeq
    <3> QED BY <1>1, <3>6, <3>7
  <2> QED BY <2>1, <2>2, <2>3
<1> QED BY <1>0, <1>1, <1>2, <1>10 DEF Abstract!Write

LEMMA StepRefined ==
  IInv /\ [Next]_vars /\ Running' => [Abstract!Next]_Promised
<1> SUFFICES ASSUME IInv, [Next]_vars, Running'
             PROVE  [Abstract!Next]_Promised
  OBVIOUS
<1>1. CASE TxDone BY <1>1, TxDoneRefined DEF Abstract!Next
<1>2. CASE TxEvent BY <1>2, TxEventRefined
<1>3. CASE RxEvent BY <1>3, RxEventRefined DEF Abstract!Next
<1>4. CASE \E c \in Chars : Arrive(c)
  BY <1>4, ArriveRefined DEF Abstract!Next
<1>5. CASE \E p \in Procs : Read(p)
  BY <1>5, ReadRefined DEF Abstract!Next
<1>6. CASE \E p \in Procs : \E c \in Chars : Write(p, c)
  BY <1>6, WriteRefined DEF Abstract!Next
<1>7. CASE UNCHANGED vars
  <2>1. UNCHANGED <<inputVars, outputVars, txd, g_sio_blocked, eax, rxd, sent>>
    BY <1>7 DEF vars, inputVars, outputVars
  <2> QED BY <2>1, InputKept, OutputKept DEF Promised
<1> QED BY <1>1, <1>2, <1>3, <1>4, <1>5, <1>6, <1>7 DEF Next

\* Each call and each interrupt does what SioSpec says of it.
LEMMA CallsRefined == IInv /\ Running' => AllAnswered
<1> SUFFICES ASSUME IInv, Running' PROVE AllAnswered
  OBVIOUS
<1>1. ASSUME NEW c \in Chars, Arrive(c) PROVE Abstract!Arrive(c)
  BY <1>1, ArriveRefined
<1>2. ASSUME NEW p \in Procs, Read(p) PROVE Abstract!Read(p)
  BY <1>2, ReadRefined
<1>3. ASSUME NEW p \in Procs, NEW c \in Chars, Write(p, c)
      PROVE  Abstract!Write(p, c)
  BY <1>3, WriteRefined
<1>4. RxEvent => Abstract!Receive BY RxEventRefined
<1>5. TxDone => Abstract!Send BY TxDoneRefined
<1>6. TxEvent => UNCHANGED Promised BY TxEventRefined
<1> QED BY <1>1, <1>2, <1>3, <1>4, <1>5, <1>6 DEF AllAnswered

LEMMA InitRefined == Init => Abstract!Init
<1> SUFFICES ASSUME Init PROVE Abstract!Init
  OBVIOUS
<1>1. /\ g_innext = 0 /\ g_incount = 0 /\ g_outnext = 0 /\ g_outcount = 0
      /\ txd = None /\ sent = CR
      /\ rxd = None /\ g_sio_blocked = <<>> /\ eax = None
  BY DEF Init
<1>2. ASSUME NEW buffer PROVE Held(buffer, 0, 0) = <<>>
  <2>1. Held(buffer, 0, 0) \in Seq(Chars) /\ Len(Held(buffer, 0, 0)) = 0
    BY HeldIs
  <2> QED BY <2>1
<1>3. Input = <<>> BY <1>1, <1>2 DEF Input
<1>4. Output = <<>> \o <<>> BY <1>1, <1>2 DEF Output
<1> QED BY <1>1, <1>3, <1>4 DEF Abstract!Init

-----------------------------------------------------------------------------
(* Carriage returns before line feeds *)

LineOk(s, o) ==
  \A i \in 1 .. Len(o) : o[i] = LF => (IF i = 1 THEN s ELSE o[i - 1]) = CR

LEMMA LineIs ==
  ASSUME Output \in Seq(Chars), sent \in Chars
  PROVE  Abstract!CrBeforeLf <=> LineOk(sent, Output)
<1> DEFINE line == <<sent>> \o Output
<1>1. Len(Output) \in Nat BY LenProperties
<1>2. /\ Len(line) = 1 + Len(Output)
      /\ \A i \in 1 .. 1 + Len(Output) :
           line[i] = IF i <= 1 THEN sent ELSE Output[i - 1]
  <2>1. /\ Len(line) = Len(<<sent>>) + Len(Output)
        /\ \A i \in 1 .. Len(<<sent>>) + Len(Output) :
             line[i] = IF i <= Len(<<sent>>) THEN <<sent>>[i]
                       ELSE Output[i - Len(<<sent>>)]
    BY ConcatProperties
  <2> QED BY <2>1
<1>3. Abstract!CrBeforeLf <=>
        \A i \in 2 .. Len(line) : line[i] = LF => line[i - 1] = CR
  BY DEF Abstract!CrBeforeLf
<1> HIDE DEF line
<1>4. ASSUME NEW j \in 1 .. Len(Output)
      PROVE  /\ j + 1 \in 2 .. Len(line)
             /\ line[j + 1] = Output[j]
             /\ line[j + 1 - 1] = IF j = 1 THEN sent ELSE Output[j - 1]
  <2>1. /\ j + 1 \in 2 .. Len(line) /\ j + 1 \in 1 .. 1 + Len(Output)
        /\ j \in 1 .. 1 + Len(Output) /\ ~(j + 1 <= 1)
        /\ j + 1 - 1 = j /\ (j <= 1 <=> j = 1)
    BY <1>1, <1>2
  <2> QED BY <2>1, <1>2
<1>5. ASSUME NEW i \in 2 .. Len(line)
      PROVE  i - 1 \in 1 .. Len(Output) /\ i - 1 + 1 = i
  BY <1>1, <1>2
<1>6. ASSUME NEW i \in 2 .. Len(line), LineOk(sent, Output), line[i] = LF
      PROVE  line[i - 1] = CR
  <2> DEFINE j == i - 1
  <2>1. j \in 1 .. Len(Output) /\ j + 1 = i BY <1>5
  <2> HIDE DEF j
  <2>2. Output[j] = LF /\ line[j + 1 - 1]
                            = IF j = 1 THEN sent ELSE Output[j - 1]
    BY <1>4, <1>6, <2>1
  <2>3. line[j + 1 - 1] = CR BY <1>6, <2>1, <2>2 DEF LineOk
  <2> QED BY <2>1, <2>3
<1>7. ASSUME NEW j \in 1 .. Len(Output), Output[j] = LF,
             \A i \in 2 .. Len(line) : line[i] = LF => line[i - 1] = CR
      PROVE  (IF j = 1 THEN sent ELSE Output[j - 1]) = CR
  BY <1>4, <1>7
<1> QED BY <1>3, <1>6, <1>7 DEF LineOk

LEMMA SendLine ==
  ASSUME NEW s, NEW o \in Seq(Chars), o # <<>>, LineOk(s, o)
  PROVE  LineOk(Head(o), Tail(o))
<1>1. /\ Len(o) \in Nat \ {0} /\ Len(Tail(o)) = Len(o) - 1
      /\ \A i \in 1 .. Len(Tail(o)) : Tail(o)[i] = o[i + 1]
      /\ Head(o) = o[1]
  BY HeadTailProperties, EmptySeq
<1>2. ASSUME NEW i \in 1 .. Len(Tail(o)), Tail(o)[i] = LF
      PROVE  (IF i = 1 THEN Head(o) ELSE Tail(o)[i - 1]) = CR
  <2>1. /\ i + 1 \in 1 .. Len(o) /\ i + 1 # 1 /\ i + 1 - 1 = i
        /\ i # 1 => i - 1 \in 1 .. Len(Tail(o)) /\ i - 1 + 1 = i
    BY <1>1
  <2>2. o[i + 1] = LF BY <1>1, <1>2
  <2>3. o[i + 1 - 1] = CR BY <2>1, <2>2 DEF LineOk
  <2>4. o[i] = CR BY <2>1, <2>3
  <2>5. i # 1 => Tail(o)[i - 1] = o[i] BY <1>1, <2>1
  <2> QED BY <1>1, <2>4, <2>5
<1> QED BY <1>2 DEF LineOk

LEMMA WriteLine ==
  ASSUME NEW s, NEW o \in Seq(Chars), NEW c \in Chars, LineOk(s, o)
  PROVE  LineOk(s, o \o OnOutput(c))
<1> DEFINE cs == OnOutput(c)
           t == o \o cs
<1>1. Len(o) \in Nat /\ CR # LF BY LenProperties, SioAssumption
<1>2. \/ cs = <<CR, LF>>
      \/ cs = <<c>> /\ c # LF
  BY DEF OnOutput
<1>3. cs \in Seq(Chars) BY OutputIs
<1> HIDE DEF cs
<1>4. /\ Len(t) = Len(o) + Len(cs)
      /\ \A i \in 1 .. Len(o) + Len(cs) :
           t[i] = IF i <= Len(o) THEN o[i] ELSE cs[i - Len(o)]
  BY <1>3, ConcatProperties
<1> HIDE DEF t
<1>5. ASSUME NEW i \in 1 .. Len(t), t[i] = LF
      PROVE  (IF i = 1 THEN s ELSE t[i - 1]) = CR
  <2>0. Len(cs) \in Nat BY <1>3, LenProperties
  <2>1. CASE i <= Len(o)
    <3>1. i \in 1 .. Len(o) /\ i \in 1 .. Len(o) + Len(cs)
      BY <1>1, <2>0, <2>1
    <3>2. o[i] = LF BY <1>4, <1>5, <2>1, <3>1
    <3>3. (IF i = 1 THEN s ELSE o[i - 1]) = CR BY <3>1, <3>2 DEF LineOk
    <3>4. i # 1 => t[i - 1] = o[i - 1]
      <4>1. i # 1 => i - 1 \in 1 .. Len(o) + Len(cs) /\ i - 1 <= Len(o)
        BY <1>1, <2>0, <3>1
      <4> QED BY <1>4, <4>1
    <3> QED BY <3>3, <3>4
  <2>2. CASE i > Len(o)
    <3>1. /\ i \in 1 .. Len(o) + Len(cs) /\ ~(i <= Len(o))
          /\ i - Len(o) \in 1 .. Len(cs)
      BY <1>1, <1>4, <2>0, <2>2
    <3>2. cs[i - Len(o)] = LF BY <1>4, <1>5, <3>1
    <3>3. cs = <<CR, LF>> /\ i - Len(o) = 2
      <4>1. CASE cs = <<CR, LF>>
        <5>1. Len(cs) = 2 /\ cs[1] = CR BY <4>1
        <5>2. i - Len(o) \in 1 .. 2 BY <3>1, <5>1
        <5>3. i - Len(o) # 1 BY <1>1, <3>2, <5>1
        <5> QED BY <4>1, <5>2, <5>3
      <4>2. CASE cs = <<c>> /\ c # LF
        <5>1. Len(cs) = 1 /\ cs[1] = c BY <4>2
        <5>2. i - Len(o) = 1 BY <3>1, <5>1
        <5> QED BY <3>2, <4>2, <5>1, <5>2
      <4> QED BY <1>2, <4>1, <4>2
    <3>4. /\ i # 1 /\ i - 1 \in 1 .. Len(o) + Len(cs) /\ ~(i - 1 <= Len(o))
          /\ i - 1 - Len(o) = 1
      BY <1>1, <2>0, <3>1, <3>3
    <3>5. t[i - 1] = cs[1]
      <4>1. t[i - 1] = cs[i - 1 - Len(o)] BY <1>4, <3>4
      <4> QED BY <3>4, <4>1
    <3>6. cs[1] = CR BY <3>3
    <3> QED BY <3>4, <3>5, <3>6
  <2> QED BY <1>1, <2>1, <2>2, <2>0, <1>4
<1> QED BY <1>5 DEF LineOk, t, cs

LineInv == Running => LineOk(sent, Output)

LEMMA LineKept == IInv /\ LineInv /\ [Next]_vars => LineInv'
<1> SUFFICES ASSUME IInv, LineInv, [Next]_vars, Running'
             PROVE  LineOk(sent', Output')
  BY DEF LineInv, LineOk
<1>1. Running
  BY DEF Next, vars, Running, TxDone, TxEvent, RxEvent, Arrive, Read, Write,
         MayCall
<1>2. LineOk(sent, Output) BY <1>1 DEF LineInv
<1>3. Output \in Seq(Chars) BY QueuesAre
<1>4. [Abstract!Next]_Promised
  BY StepRefined
<1>5. CASE Abstract!Send
  BY <1>5, <1>2, <1>3, SendLine DEF Abstract!Send
<1>6. CASE \E p \in Procs : \E c \in Chars : Abstract!Write(p, c)
  <2>1. PICK p \in Procs, c \in Chars : Abstract!Write(p, c) BY <1>6
  <2>2. Output' = Output \o OnOutput(c) /\ sent' = sent
    BY <2>1, OutputIs DEF Abstract!Write
  <2> QED BY <2>2, <1>2, <1>3, WriteLine
<1>7. CASE UNCHANGED <<Output, sent>> BY <1>7, <1>2
<1>8. CASE Abstract!Receive
  BY <1>2, <1>8 DEF Abstract!Receive
<1>9. CASE \E c \in Chars : Abstract!Arrive(c)
  BY <1>2, <1>9 DEF Abstract!Arrive
<1>10. CASE \E p \in Procs : Abstract!Read(p)
  BY <1>2, <1>10 DEF Abstract!Read
<1> QED BY <1>4, <1>5, <1>6, <1>7, <1>8, <1>9, <1>10
        DEF Abstract!Next, Promised

-----------------------------------------------------------------------------
(* Theorems *)

\* Every variable of sio.c keeps its type, and the pointers stay within their
\* buffers.
THEOREM SioTypes == Spec => []TypeOK
<1>1. IInv => TypeOK BY DEF IInv
<1> QED BY <1>1, Invariance, PTL

\* The counts that _isr_sio and the system calls keep are the distances of
\* the pointers, and an empty input buffer begins at its first character.
THEOREM CountsAgreeAlways == Spec => []CountsAgree
<1>1. IInv => CountsAgree BY DEF IInv
<1> QED BY <1>1, Invariance, PTL

\* g_sending is set exactly while the transmitter, or its event, will move
\* the output on.
THEOREM PumpAlwaysPrimed == Spec => []PumpPrimed
<1>1. IInv => PumpPrimed BY DEF IInv
<1> QED BY <1>1, Invariance, PTL

\* As long as neither buffer is overrun, each call and each interrupt does
\* with the two buffers what SioSpec says it does with two queues: read()
\* delivers the oldest character or waits, and no character is lost except
\* one that finds the buffer full.
THEOREM SioImplemented == Spec => ImplementsSio
<1>1. IInv /\ [Next]_vars => [Running' => Abstract!Next]_Promised
  BY StepRefined
<1>2. IInv => [Running' => AllAnswered]_vars
  BY CallsRefined
<1> QED BY <1>1, <1>2, InitRefined, Invariance, PTL DEF Spec, ImplementsSio

\* No line feed leaves without a carriage return before it, whichever
\* processes write and however their characters are interleaved.
THEOREM LinesEndWell == Spec => []CrBeforeLf
<1>1. Init => LineInv
  <2>1. ASSUME Init PROVE LineOk(sent, Output)
    <3>1. Output = <<>>
      BY <2>1, InitRefined DEF Abstract!Init
    <3> QED BY <3>1 DEF LineOk
  <2> QED BY <2>1 DEF LineInv
<1>2. IInv /\ LineInv => CrBeforeLf
  <2>1. ASSUME IInv, LineInv PROVE CrBeforeLf
    <3>1. Output \in Seq(Chars) /\ sent \in Chars
      BY <2>1, QueuesAre DEF IInv, TypeOK
    <3> QED BY <2>1, <3>1, LineIs DEF LineInv, CrBeforeLf
  <2> QED BY <2>1
<1> QED BY <1>1, <1>2, LineKept, Invariance, PTL DEF Spec

-----------------------------------------------------------------------------
(* The console: digits and what they denote *)

Digits == {Digit(d) : d \in 0 .. 15}

LEMMA DigitsDiffer ==
  /\ \A d \in 0 .. 15, e \in 0 .. 15 : Digit(d) = Digit(e) => d = e
  /\ \A d \in 0 .. 15 : /\ Digit(d) \in Digits /\ Digit(d) # "-"
                        /\ Digit(d) = "0" <=> d = 0
<1>1. ASSUME NEW d \in 0 .. 15, NEW e \in 0 .. 15, Digit(d) = Digit(e) PROVE d = e
  BY <1>1, SMT DEF Digit, hexdigits
<1>2. ASSUME NEW d \in 0 .. 15 PROVE Digit(d) # "-" /\ (Digit(d) = "0" <=> d = 0)
  BY SMT DEF Digit, hexdigits
<1>3. \A d \in 0 .. 15 : Digit(d) \in Digits BY DEF Digits
<1> QED BY <1>1, <1>2, <1>3

LEMMA DigitFacts ==
  ASSUME NEW ch \in Digits
  PROVE  /\ ch # "-" /\ ch \in Range(hexdigits)
         /\ ValueOf(ch) \in 0 .. 15 /\ Digit(ValueOf(ch)) = ch
         /\ ch = "0" <=> ValueOf(ch) = 0
<1>1. PICK d \in 0 .. 15 : ch = Digit(d) BY DEF Digits
<1>2. ValueOf(ch) \in 0 .. 15 /\ Digit(ValueOf(ch)) = ch BY <1>1 DEF ValueOf
<1>3. Digit(d) \in Range(hexdigits)
  <2>1. DOMAIN hexdigits = 1 .. 16 BY SMT DEF hexdigits
  <2>2. d + 1 \in 1 .. 16 BY <1>1
  <2>3. hexdigits[d + 1] \in {hexdigits[i] : i \in DOMAIN hexdigits} BY <2>1, <2>2
  <2> QED BY <2>3 DEF Range, Digit
<1> QED BY <1>1, <1>2, <1>3, DigitsDiffer

LEMMA DigitValue ==
  ASSUME NEW d \in 0 .. 15
  PROVE  ValueOf(Digit(d)) = d
<1>1. Digit(d) \in Digits BY DEF Digits
<1> QED BY <1>1, DigitFacts, DigitsDiffer

\* f has the numbers that the digits up to each one denote.
Denotes(f, digits, base) ==
  /\ f \in [0 .. Len(digits) -> Int] /\ f[0] = 0
  /\ \A i \in 1 .. Len(digits) : f[i] = f[i - 1] * base - ValueOf(digits[i])
Numeral(digits, base, n) ==
  \E f : Denotes(f, digits, base) /\ f[Len(digits)] = n

\* A list of numbers that follows the digits ends in the one they denote.
Counts(f, digits, base, first, sign) ==
  /\ f \in [0 .. Len(digits) -> Int] /\ f[0] = first
  /\ \A i \in 1 .. Len(digits) : f[i] = f[i - 1] * base + sign * ValueOf(digits[i])

LEMMA NumberFacts ==
  ASSUME NEW digits \in Seq(Digits), NEW base, NEW first, NEW sign, NEW f,
         Counts(f, digits, base, first, sign)
  PROVE  Number(digits, base, first, sign) = f[Len(digits)]
<1> DEFINE N == Len(digits)
           Row(h, i) == IF i = 0 THEN first
                        ELSE h[i - 1] * base + sign * ValueOf(digits[i])
           Solves(h) == h = [i \in 0 .. N |-> Row(h, i)]
           F == CHOOSE h : Solves(h)
<1>2. N \in Nat BY LenProperties
<1>1. /\ f \in [0 .. N -> Int] /\ f[0] = first
      /\ \A i \in 1 .. N : f[i] = f[i - 1] * base + sign * ValueOf(digits[i])
  BY DEF Counts
<1>3. f = [i \in 0 .. N |-> f[i]] /\ \A i \in 0 .. N : f[i] = Row(f, i)
  BY <1>1, <1>2
<1>4. Solves(f)
  <2> HIDE DEF Row
  <2> QED BY <1>3
<1>5. Solves(F)
  <2> HIDE DEF Solves
  <2> QED BY <1>4
<1>6. Number(digits, base, first, sign) = F[N] BY DEF Number
<1>7. F = [i \in 0 .. N |-> F[i]] /\ \A i \in 0 .. N : F[i] = Row(F, i)
  <2> HIDE DEF Row, F
  <2> QED BY <1>5
<1> HIDE DEF F
<1> DEFINE S == {i \in Nat : i <= N => F[i] = f[i]}
<1>8. 0 \in S BY <1>1, <1>2, <1>3, <1>7
<1>9. ASSUME NEW i \in Nat, i \in S PROVE i + 1 \in S
  <2>1. SUFFICES ASSUME i + 1 <= N PROVE F[i + 1] = f[i + 1] OBVIOUS
  <2>2. i + 1 \in 0 .. N /\ i + 1 # 0 /\ (i + 1) - 1 = i BY <1>2, <2>1
  <2>3. F[i] = f[i] BY <1>2, <1>9, <2>1
  <2>4. F[i + 1] = Row(F, i + 1) /\ f[i + 1] = Row(f, i + 1)
    <3> HIDE DEF Row
    <3> QED BY <1>3, <1>7, <2>2
  <2>5. Row(F, i + 1) = Row(f, i + 1) BY <2>2, <2>3
  <2> QED BY <2>4, <2>5
<1>10. N \in S
  <2> HIDE DEF S
  <2> QED BY <1>2, <1>8, <1>9, SetInduction
<1> QED BY <1>2, <1>6, <1>10

LEMMA NumeralFacts ==
  ASSUME NEW digits \in Seq(Digits), NEW base \in Nat, NEW n, Numeral(digits, base, n)
  PROVE  /\ Number(digits, base, 0, -1) = n
         /\ n \in Int /\ Number(digits, base, 0, 1) = -n
<1> DEFINE N == Len(digits)
<1>1. PICK f : Denotes(f, digits, base) /\ f[N] = n BY DEF Numeral
<1>2. /\ N \in Nat /\ f \in [0 .. N -> Int] /\ f[0] = 0
      /\ \A i \in 1 .. N : f[i] = f[i - 1] * base - ValueOf(digits[i])
  BY <1>1, LenProperties DEF Denotes
<1>3. \A i \in 1 .. N : ValueOf(digits[i]) \in Int
  <2>1. \A i \in 1 .. N : digits[i] \in Digits BY ElementOfSeq
  <2> QED BY <2>1, DigitFacts
<1> HIDE DEF N
<1>4. \A i \in 1 .. N : f[i - 1] \in Int /\ f[i] \in Int BY <1>2
<1>5. \A i \in 1 .. N : f[i] = f[i - 1] * base + (-1) * ValueOf(digits[i])
  <2>1. \A x \in Int, y \in Int : x - y = x + (-1) * y OBVIOUS
  <2>2. \A i \in 1 .. N : f[i - 1] * base \in Int BY <1>4
  <2> QED BY <1>2, <1>3, <2>1, <2>2
<1> DEFINE g == [i \in 0 .. N |-> -f[i]]
<1>6. g \in [0 .. N -> Int] /\ g[0] = 0 BY <1>2
<1>7. \A i \in 1 .. N : g[i] = g[i - 1] * base + 1 * ValueOf(digits[i])
  <2>1. SUFFICES ASSUME NEW i \in 1 .. N
                 PROVE  g[i] = g[i - 1] * base + 1 * ValueOf(digits[i])
    OBVIOUS
  <2>2. g[i] = -f[i] /\ g[i - 1] = -f[i - 1] BY <1>2
  <2>3. \A x \in Int : (-x) * base = -(x * base) OBVIOUS
  <2>4. \A x \in Int, y \in Int : -(x - y) = -x + 1 * y OBVIOUS
  <2>5. f[i - 1] * base \in Int BY <1>4
  <2>6. g[i - 1] * base = -(f[i - 1] * base) BY <1>4, <2>2, <2>3
  <2>7. g[i] = -(f[i - 1] * base - ValueOf(digits[i])) BY <1>2, <2>2
  <2> HIDE DEF g
  <2> QED BY <1>3, <2>4, <2>5, <2>6, <2>7
<1>8. g[N] = -n /\ f[N] = n /\ n \in Int BY <1>1, <1>2 DEF N
<1> HIDE DEF g
<1>9. Number(digits, base, 0, -1) = f[N]
  <2>1. Counts(f, digits, base, 0, -1) BY <1>2, <1>5 DEF Counts, N
  <2> QED BY <2>1, NumberFacts DEF N
<1>10. Number(digits, base, 0, 1) = g[N]
  <2>1. Counts(g, digits, base, 0, 1) BY <1>6, <1>7 DEF Counts, N
  <2> QED BY <2>1, NumberFacts DEF N
<1> QED BY <1>8, <1>9, <1>10

LEMMA EmptyNumeral ==
  ASSUME NEW base \in Nat
  PROVE  Numeral(<<>>, base, 0)
<1> DEFINE f == [i \in 0 .. 0 |-> 0]
<1>1. Denotes(f, <<>>, base) /\ f[Len(<<>>)] = 0 BY DEF Denotes
<1> HIDE DEF f
<1> QED BY <1>1 DEF Numeral

LEMMA AppendNumeral ==
  ASSUME NEW digits \in Seq(Digits), NEW base \in Nat, NEW n, Numeral(digits, base, n),
         NEW d \in 0 .. 15
  PROVE  n \in Int /\ Numeral(Append(digits, Digit(d)), base, n * base - d)
<1> DEFINE N == Len(digits)
           more == Append(digits, Digit(d))
<1>1. PICK f : Denotes(f, digits, base) /\ f[N] = n BY DEF Numeral
<1>2. /\ N \in Nat /\ Len(more) = N + 1 /\ more[N + 1] = Digit(d)
      /\ \A i \in 1 .. N : more[i] = digits[i]
  BY AppendProperties, LenProperties DEF Digits
<1> DEFINE g == [i \in 0 .. N + 1 |-> IF i = N + 1 THEN n * base - d ELSE f[i]]
<1> HIDE DEF more
<1>3. n \in Int /\ n * base - d \in Int
  <2>1. n \in Int BY <1>1, <1>2 DEF Denotes
  <2> QED BY <2>1
<1>4. g \in [0 .. N + 1 -> Int] /\ g[0] = 0 BY <1>1, <1>2, <1>3 DEF Denotes
<1>5. ASSUME NEW i \in 1 .. N + 1 PROVE g[i] = g[i - 1] * base - ValueOf(more[i])
  <2>1. CASE i = N + 1
    <3>1. g[i] = n * base - d /\ g[i - 1] = n BY <1>1, <1>2, <2>1
    <3>2. ValueOf(more[i]) = d BY <1>2, <2>1, DigitValue
    <3> QED BY <3>1, <3>2
  <2>2. CASE i # N + 1
    <3>1. i \in 1 .. N /\ i - 1 \in 0 .. N BY <1>2, <2>2
    <3>2. g[i] = f[i] /\ g[i - 1] = f[i - 1] BY <1>2, <3>1
    <3> QED BY <1>1, <1>2, <3>1, <3>2 DEF Denotes
  <2> QED BY <2>1, <2>2
<1>6. g[N + 1] = n * base - d BY <1>2
<1>7. Denotes(g, more, base)
  <2> HIDE DEF g
  <2> QED BY <1>2, <1>4, <1>5 DEF Denotes
<1> HIDE DEF g
<1> QED BY <1>2, <1>3, <1>6, <1>7 DEF Numeral, more

-----------------------------------------------------------------------------
(* Decimal digits: the recursive definition of Decimal has a solution *)

LEMMA DecimalRule ==
  \A v \in Nat : Decimal[v] = IF v < 10 THEN <<Digit(v)>>
                              ELSE Append(Decimal[v \div 10], Digit(v % 10))
<1> DEFINE Row(f, v) == IF v < 10 THEN <<Digit(v)>>
                        ELSE Append(f[v \div 10], Digit(v % 10))
           Solves(f, k) == f = [v \in 0 .. k |-> Row(f, v)]
           S == {k \in Nat : \E f : Solves(f, k)}
<1>1. \A v \in Nat : /\ v \div 10 \in 0 .. v
                    /\ v >= 10 => v \div 10 < v
  BY SMT
<1>2. 0 \in S
  <2> DEFINE f == [v \in 0 .. 0 |-> <<Digit(v)>>]
  <2>1. ASSUME NEW v \in 0 .. 0 PROVE f[v] = Row(f, v) OBVIOUS
  <2>2. f = [v \in 0 .. 0 |-> f[v]] OBVIOUS
  <2>3. Solves(f, 0)
    <3> HIDE DEF Row, f
    <3> QED BY <2>1, <2>2
  <2>4. \E h : Solves(h, 0) BY <2>3
  <2> HIDE DEF Solves
  <2> QED BY <2>4
<1>3. ASSUME NEW k \in Nat, k \in S PROVE k + 1 \in S
  <2>1. PICK f : Solves(f, k) BY <1>3
  <2> DEFINE g == [v \in 0 .. k + 1 |-> IF v = k + 1 THEN Row(f, k + 1) ELSE f[v]]
  <2>2. g = [v \in 0 .. k + 1 |-> g[v]] /\ g[k + 1] = Row(f, k + 1)
        /\ \A v \in 0 .. k : g[v] = f[v]
    <3> HIDE DEF Row
    <3> QED OBVIOUS
  <2> HIDE DEF g
  <2>3. \A v \in 0 .. k : f[v] = Row(f, v)
    <3> HIDE DEF Row
    <3> QED BY <2>1
  <2>4. ASSUME NEW v \in 0 .. k + 1 PROVE g[v] = Row(g, v)
    <3>1. g[v] = Row(f, v)
      <4>1. CASE v = k + 1 BY <2>2, <4>1
      <4>2. CASE v # k + 1
        <5>1. v \in 0 .. k BY <4>2
        <5> HIDE DEF Row
        <5> QED BY <2>2, <2>3, <5>1
      <4> QED BY <4>1, <4>2
    <3>2. v \in Nat /\ (v >= 10 => v \div 10 \in 0 .. k)
      <4>1. v \in Nat /\ v <= k + 1 OBVIOUS
      <4> QED BY <1>1, <4>1
    <3>3. v >= 10 => g[v \div 10] = f[v \div 10] BY <2>2, <3>2
    <3>4. v < 10 \/ v >= 10 BY <3>2
    <3>5. Row(f, v) = Row(g, v) BY <3>3, <3>4
    <3> QED BY <3>1, <3>5
  <2>5. Solves(g, k + 1)
    <3> HIDE DEF Row
    <3> QED BY <2>2, <2>4
  <2>6. \E h : Solves(h, k + 1) BY <2>5
  <2> HIDE DEF Solves
  <2> QED BY <2>6
<1>4. \A k \in Nat : \E f : Solves(f, k)
  <2>1. \A k \in Nat : k \in S
    <3> HIDE DEF S
    <3> QED BY <1>2, <1>3, SetInduction
  <2> HIDE DEF Solves
  <2> QED BY <2>1
<1>5. ASSUME NEW k \in Nat, NEW f, Solves(f, k), NEW v \in 0 .. k PROVE f[v] = Row(f, v)
  <2> HIDE DEF Row
  <2> QED BY <1>5
<1>6. ASSUME NEW k \in Nat, NEW f, Solves(f, k), NEW l \in Nat, NEW g, Solves(g, l),
             NEW v \in Nat, v <= k, v <= l
      PROVE  f[v] = g[v]
  <2> DEFINE T == {w \in Nat : w <= k /\ w <= l /\ f[w] # g[w]}
  <2>1. SUFFICES ASSUME T # {} PROVE FALSE BY <1>6
  <2>2. PICK w \in T : \A m \in T : w <= m
    <3>1. T \subseteq Nat OBVIOUS
    <3> HIDE DEF T
    <3> QED BY <2>1, <3>1, LeastNatural
  <2>3. w \in 0 .. k /\ w \in 0 .. l /\ w \in Nat BY <2>2
  <2>4. f[w] = Row(f, w) /\ g[w] = Row(g, w)
    <3> HIDE DEF Row, Solves
    <3> QED BY <1>5, <1>6, <2>3
  <2>5. w >= 10 => f[w \div 10] = g[w \div 10]
    <3>1. SUFFICES ASSUME w >= 10 PROVE f[w \div 10] = g[w \div 10] OBVIOUS
    <3>2. w \div 10 \in Nat /\ w \div 10 < w BY <1>1, <2>3, <3>1
    <3>3. w \div 10 \notin T BY <2>2, <3>2
    <3> QED BY <2>3, <3>2, <3>3
  <2>6. Row(f, w) = Row(g, w) BY <2>3, <2>5
  <2> QED BY <2>2, <2>4, <2>6
<1> DEFINE Table(k) == CHOOSE f : Solves(f, k)
           F == [v \in Nat |-> Table(v)[v]]
<1>7. \A k \in Nat : Solves(Table(k), k)
  <2> HIDE DEF Solves
  <2> QED BY <1>4
<1> HIDE DEF Table
<1>8. ASSUME NEW v \in Nat PROVE F[v] = Row(F, v)
  <2>1. F[v] = Row(Table(v), v)
    <3>1. v \in 0 .. v OBVIOUS
    <3> HIDE DEF Row, Solves
    <3> QED BY <1>5, <1>7, <3>1
  <2>2. v >= 10 => F[v \div 10] = Table(v)[v \div 10]
    <3>1. v \div 10 \in Nat /\ v \div 10 <= v BY <1>1
    <3> HIDE DEF Solves
    <3> QED BY <1>6, <1>7, <3>1
  <2>3. Row(Table(v), v) = Row(F, v)
    <3> HIDE DEF F
    <3> QED BY <2>2
  <2> QED BY <2>1, <2>3
<1> DEFINE Fits(h) == h = [v \in Nat |-> Row(h, v)]
           D == CHOOSE h : Fits(h)
<1>9. Fits(F)
  <2>1. F = [v \in Nat |-> F[v]] OBVIOUS
  <2> HIDE DEF F, Row
  <2> QED BY <1>8, <2>1
<1>10. Fits(D)
  <2> HIDE DEF Fits, F
  <2> QED BY <1>9
<1>11. Decimal = D BY DEF Decimal
<1>12. \A v \in Nat : D[v] = Row(D, v)
  <2> HIDE DEF Row, D
  <2> QED BY <1>10
<1> HIDE DEF D
<1> QED BY <1>11, <1>12

LEMMA DecimalFacts ==
  \A v \in Nat : /\ Decimal[v] \in Seq(Digits) /\ Decimal[v] # <<>>
                 /\ Numeral(Decimal[v], 10, -v)
                 /\ Decimal[v][1] # "0" \/ (v = 0 /\ Len(Decimal[v]) = 1)
<1> DEFINE Right(v) == /\ Decimal[v] \in Seq(Digits) /\ Decimal[v] # <<>>
                       /\ Numeral(Decimal[v], 10, -v)
                       /\ Decimal[v][1] # "0" \/ (v = 0 /\ Len(Decimal[v]) = 1)
           T == {v \in Nat : ~Right(v)}
<1>1. SUFFICES ASSUME T # {} PROVE FALSE OBVIOUS
<1>2. PICK v \in T : \A m \in T : v <= m
  <2>1. T \subseteq Nat OBVIOUS
  <2> HIDE DEF T
  <2> QED BY <1>1, <2>1, LeastNatural
<1>3. v \in Nat BY <1>2
<1>4. CASE v < 10
  <2>1. v \in 0 .. 15 BY <1>3, <1>4
  <2>2. Decimal[v] = <<Digit(v)>> BY <1>3, <1>4, DecimalRule
  <2>3. Digit(v) \in Digits /\ (Digit(v) = "0" <=> v = 0) BY <2>1, DigitsDiffer
  <2>4. <<>> \in Seq(Digits) /\ Append(<<>>, Digit(v)) = <<Digit(v)>> OBVIOUS
  <2>5. Numeral(Append(<<>>, Digit(v)), 10, 0 * 10 - v)
    BY <2>1, <2>4, EmptyNumeral, AppendNumeral
  <2>6. 0 * 10 - v = -v BY <1>3
  <2>7. Numeral(Decimal[v], 10, -v) BY <2>2, <2>4, <2>5, <2>6
  <2>8. Decimal[v] \in Seq(Digits) /\ Decimal[v] # <<>> /\ Len(Decimal[v]) = 1
        /\ Decimal[v][1] = Digit(v)
    BY <2>2, <2>3
  <2>9. Right(v) BY <2>3, <2>7, <2>8
  <2> QED BY <1>2, <2>9
<1>5. CASE v >= 10
  <2> DEFINE q == v \div 10
             r == v % 10
  <2>1. q \in Nat /\ r \in 0 .. 15 /\ v = 10 * q + r /\ q < v /\ q # 0
    BY <1>3, <1>5, SMT
  <2>2. Decimal[v] = Append(Decimal[q], Digit(r))
    <3>1. ~(v < 10) BY <1>3, <1>5
    <3> QED BY <1>3, <3>1, DecimalRule, Zenon
  <2> HIDE DEF q, r
  <2>3. Right(q)
    <3>1. q \notin T
      <4> HIDE DEF T
      <4> QED BY <1>2, <1>3, <2>1
    <3> QED BY <2>1, <3>1
  <2>4. Digit(r) \in Digits BY <2>1, DigitsDiffer
  <2>5. Numeral(Decimal[v], 10, (-q) * 10 - r)
    BY <2>1, <2>2, <2>3, AppendNumeral
  <2>6. (-q) * 10 - r = -v BY <2>1
  <2>7. Len(Decimal[q]) >= 1
    <3>1. Len(Decimal[q]) \in Nat BY <2>3, LenProperties
    <3> QED BY <2>3, <3>1, EmptySeq
  <2>8. Decimal[v] \in Seq(Digits) /\ Decimal[v] # <<>> /\ Decimal[v][1] = Decimal[q][1]
    BY <2>2, <2>3, <2>4, <2>7, AppendProperties
  <2>9. Decimal[v][1] # "0" BY <2>1, <2>3, <2>8
  <2>10. Numeral(Decimal[v], 10, -v) BY <2>5, <2>6
  <2>11. Right(v)
    <3>1. Decimal[v] \in Seq(Digits) /\ Decimal[v] # <<>> BY <2>8
    <3>2. Numeral(Decimal[v], 10, -v) BY <2>10
    <3>3. Decimal[v][1] # "0" \/ (v = 0 /\ Len(Decimal[v]) = 1) BY <2>9
    <3> QED BY <3>1, <3>2, <3>3
  <2> QED BY <1>2, <2>11
<1> QED BY <1>3, <1>4, <1>5

-----------------------------------------------------------------------------
(* Numbers of 32 bits.  (Big numbers are beyond Zenon.) *)

LEMMA IntSizes ==
  /\ INT_MAX \in Nat /\ INT_MIN = -INT_MAX - 1 /\ INT_MIN \in Int
  /\ INT_MAX \div 10 \in Nat /\ INT_MAX \div 10 # 0 /\ INT_MAX \div 10 <= INT_MAX
  /\ INT_MIN = (-(INT_MAX \div 10)) * 10 - 8
  /\ \A v \in Int : v < 0 => __cvtdec0(v) = Append(Decimal[INT_MAX \div 10], Digit(8))
<1>1. INT_MAX = 2147483647 /\ INT_MAX \div 10 = 214748364 BY SMT DEF INT_MAX
<1>2. INT_MIN = -INT_MAX - 1 BY SMT DEF INT_MIN
<1>3. \A v \in Int : v < 0 => __cvtdec0(v) = Append(Decimal[214748364], Digit(8))
  BY SMT DEF __cvtdec0
<1> QED BY <1>1, <1>2, <1>3, SMT

LEMMA IntFacts ==
  ASSUME NEW v \in INT_MIN .. INT_MAX
  PROVE  v \in Int /\ INT_MIN <= v /\ v <= INT_MAX
BY IntSizes, SMT

\* A number below ten, a hundred and so on has one, two and so on digits.
LEMMA DecimalLength ==
  ASSUME NEW v \in Nat, v <= INT_MAX
  PROVE  /\ Len(Decimal[v]) <= 10
         /\ v <= INT_MAX \div 10 => Len(Decimal[v]) <= 9
<1> DEFINE Fit(k, limit) == \A w \in Nat : w < limit => Len(Decimal[w]) <= k
<1>1. Fit(1, 10)
  <2>1. ASSUME NEW w \in Nat, w < 10 PROVE Len(Decimal[w]) <= 1
    <3>1. Decimal[w] = <<Digit(w)>> BY <2>1, DecimalRule
    <3> QED BY <3>1
  <2> QED BY <2>1
<1>2. ASSUME NEW k \in Nat, NEW limit \in Nat, limit >= 10, Fit(k, limit)
      PROVE  Fit(k + 1, 10 * limit)
  <2>1. SUFFICES ASSUME NEW w \in Nat, w < 10 * limit PROVE Len(Decimal[w]) <= k + 1
    OBVIOUS
  <2> HIDE DEF Fit
  <2>2. CASE w < 10
    <3>1. Decimal[w] = <<Digit(w)>> BY <2>1, <2>2, DecimalRule
    <3> QED BY <3>1
  <2>3. CASE w >= 10
    <3> DEFINE q == w \div 10
               r == w % 10
    <3>1. q \in Nat /\ q < limit /\ r \in 0 .. 15 BY <2>1, <2>3, SMT
    <3>2. Decimal[w] = Append(Decimal[q], Digit(r))
      <4>1. ~(w < 10) BY <2>1, <2>3
      <4> QED BY <2>1, <4>1, DecimalRule, Zenon
    <3> HIDE DEF q, r
    <3>3. Len(Decimal[q]) <= k BY <1>2, <3>1 DEF Fit
    <3>4. Decimal[q] \in Seq(Digits) /\ Digit(r) \in Digits
      BY <3>1, DecimalFacts, DigitsDiffer
    <3>5. Len(Decimal[w]) = Len(Decimal[q]) + 1 /\ Len(Decimal[q]) \in Nat
      BY <3>2, <3>4, AppendProperties, LenProperties
    <3> QED BY <3>3, <3>5
  <2> QED BY <2>1, <2>2, <2>3
<1> HIDE DEF Fit
<1>3. Fit(2, 100) BY <1>1, <1>2, SMT
<1>4. Fit(3, 1000) BY <1>2, <1>3, SMT
<1>5. Fit(4, 10000) BY <1>2, <1>4, SMT
<1>6. Fit(5, 100000) BY <1>2, <1>5, SMT
<1>7. Fit(6, 1000000) BY <1>2, <1>6, SMT
<1>8. Fit(7, 10000000) BY <1>2, <1>7, SMT
<1>9. Fit(8, 100000000) BY <1>2, <1>8, SMT
<1>10. Fit(9, 1000000000) BY <1>2, <1>9, SMT
<1>11. Fit(10, 10000000000) BY <1>2, <1>10, SMT
<1>12. INT_MAX < 10000000000 /\ INT_MAX \div 10 < 1000000000 BY SMT DEF INT_MAX
<1>13. INT_MAX \in Nat /\ INT_MAX \div 10 \in Nat BY IntSizes
<1> QED BY <1>10, <1>11, <1>12, <1>13, SMT DEF Fit

LEMMA InFront ==
  ASSUME NEW S, NEW s \in Seq(S), NEW e \in S
  PROVE  /\ <<e>> \o s \in Seq(S) /\ Len(<<e>> \o s) = Len(s) + 1
         /\ (<<e>> \o s)[1] = e /\ Tail(<<e>> \o s) = s
<1> DEFINE t == <<e>> \o s
<1>1. <<e>> \in Seq(S) /\ Len(<<e>>) = 1 /\ Len(s) \in Nat OBVIOUS
<1>2. t \in Seq(S) /\ Len(t) = Len(s) + 1
      /\ \A i \in 1 .. Len(s) + 1 : t[i] = IF i = 1 THEN e ELSE s[i - 1]
  BY <1>1, ConcatProperties
<1> HIDE DEF t
<1>3. t # <<>> BY <1>1, <1>2
<1>4. Tail(t) \in Seq(S) /\ Len(Tail(t)) = Len(s)
      /\ \A i \in 1 .. Len(s) : Tail(t)[i] = t[i + 1]
  BY <1>1, <1>2, <1>3, HeadTailProperties
<1>5. Tail(t) = s
  <2>1. \A i \in 1 .. Len(s) : t[i + 1] = s[i] BY <1>1, <1>2
  <2> QED BY <1>4, <2>1, SeqEqual
<1> QED BY <1>1, <1>2, <1>5 DEF t

\* What printf has for one number in decimal.
Unsigned(numeral) == IF numeral[1] = "-" THEN Tail(numeral) ELSE numeral
Shortest(numeral) ==
  /\ numeral \in Seq(Digits \cup {"-"}) /\ numeral # <<>> /\ Len(numeral) < 12
  /\ Unsigned(numeral) \in Seq(Digits)
  /\ Unsigned(numeral)[1] # "0" \/ Len(Unsigned(numeral)) = 1

LEMMA CvtdecFacts ==
  ASSUME NEW v \in INT_MIN .. INT_MAX
  PROVE  /\ Shortest(__cvtdec(v))
         /\ Number(Unsigned(__cvtdec(v)), 10, 0, -1) = IF v < 0 THEN v ELSE -v
         /\ Unsigned(__cvtdec(v)) # __cvtdec(v) <=> v < 0
<1> DEFINE numeral == __cvtdec(v)
           digits == Unsigned(numeral)
           Right(s, n) == /\ s \in Seq(Digits) /\ s # <<>> /\ Len(s) <= 10
                          /\ s[1] # "0" \/ Len(s) = 1
                          /\ Number(s, 10, 0, -1) = n
<1>1. v \in Int /\ INT_MIN <= v /\ v <= INT_MAX BY IntFacts
<1>2. ASSUME NEW w \in Nat, w <= INT_MAX PROVE Right(Decimal[w], -w)
  <2>1. /\ Decimal[w] \in Seq(Digits) /\ Decimal[w] # <<>>
        /\ Numeral(Decimal[w], 10, -w)
        /\ Decimal[w][1] # "0" \/ Len(Decimal[w]) = 1
    BY DecimalFacts
  <2>2. Len(Decimal[w]) <= 10 BY <1>2, DecimalLength
  <2>3. Number(Decimal[w], 10, 0, -1) = -w BY <2>1, NumeralFacts
  <2> QED BY <2>1, <2>2, <2>3
<1>3. ASSUME NEW s, NEW n, Right(s, n) PROVE s[1] \in Digits /\ s[1] # "-"
  <2>1. Len(s) \in Nat /\ Len(s) >= 1 BY <1>3, EmptySeq, LenProperties
  <2>2. s[1] \in Digits BY <1>3, <2>1, ElementOfSeq
  <2> QED BY <2>2, DigitFacts
<1>4. CASE v >= 0
  <2>1. v \in Nat /\ ~(v < 0) BY <1>1, <1>4, SMT
  <2>2. numeral = Decimal[v] BY <2>1 DEF __cvtdec, __cvtdec0
  <2>3. Right(Decimal[v], -v) BY <1>1, <1>2, <2>1
  <2>4. Decimal[v][1] # "-" /\ Decimal[v][1] \in Digits
    <3> HIDE DEF Right
    <3> QED BY <1>3, <2>3
  <2> HIDE DEF numeral
  <2>5. digits = Decimal[v] BY <2>2, <2>4 DEF Unsigned
  <2> HIDE DEF digits
  <2>6. numeral \in Seq(Digits \cup {"-"}) BY <2>2, <2>3, SeqMonotonic
  <2>7. Len(numeral) < 12 BY <2>2, <2>3, LenProperties
  <2>8. Shortest(numeral) BY <2>2, <2>3, <2>5, <2>6, <2>7 DEF Shortest, digits
  <2> QED BY <2>1, <2>2, <2>3, <2>5, <2>8 DEF numeral, digits
<1>5. CASE v < 0
  <2> DEFINE s == __cvtdec0(Negated(v))
  <2>1. numeral = <<"-">> \o s BY <1>5 DEF __cvtdec
  <2>2. Right(s, v)
    <3>1. CASE v = INT_MIN
      <4> DEFINE d == Decimal[INT_MAX \div 10]
      <4>1. s = Append(d, Digit(8))
        <5>1. Negated(v) = v BY <3>1 DEF Negated
        <5> QED BY <1>1, <1>5, <5>1, IntSizes
      <4>2. INT_MAX \div 10 \in Nat /\ INT_MAX \div 10 <= INT_MAX /\ INT_MAX \div 10 # 0
        BY IntSizes
      <4>3. /\ d \in Seq(Digits) /\ d # <<>> /\ Numeral(d, 10, -(INT_MAX \div 10))
            /\ d[1] # "0"
        BY <4>2, DecimalFacts, SMT
      <4>4. Len(d) <= 9 BY <4>2, DecimalLength, SMT
      <4> HIDE DEF d
      <4>5. 8 \in 0 .. 15 /\ Digit(8) \in Digits BY DigitsDiffer
      <4>6. Numeral(s, 10, (-(INT_MAX \div 10)) * 10 - 8)
        BY <4>1, <4>3, <4>5, AppendNumeral, SMT
      <4>7. (-(INT_MAX \div 10)) * 10 - 8 = v BY <3>1, IntSizes, SMT
      <4>8. Len(d) \in Nat /\ Len(d) >= 1 BY <4>3, EmptySeq, LenProperties
      <4>9. s \in Seq(Digits) /\ s # <<>> /\ Len(s) <= 10 /\ s[1] = d[1]
        BY <4>1, <4>3, <4>4, <4>5, <4>8, AppendProperties, SMT
      <4>10. Numeral(s, 10, v) BY <4>6, <4>7, SMT
      <4>11. Number(s, 10, 0, -1) = v BY <4>9, <4>10, NumeralFacts, SMT
      <4> QED BY <4>3, <4>9, <4>11, SMT
    <3>2. CASE v # INT_MIN
      <4>1. Negated(v) = -v BY <3>2 DEF Negated
      <4>2. -v \in Nat /\ -v <= INT_MAX /\ ~(-v < 0) /\ -(-v) = v
        BY <1>1, <1>5, <3>2, IntSizes, SMT
      <4>3. s = Decimal[-v] BY <4>1, <4>2 DEF __cvtdec0
      <4>4. Right(Decimal[-v], -(-v)) BY <1>2, <4>2
      <4> QED BY <4>2, <4>3, <4>4
    <3> QED BY <3>1, <3>2
  <2> HIDE DEF s
  <2>3. Tail(numeral) = s /\ numeral[1] = "-" /\ Len(numeral) = Len(s) + 1
        /\ numeral \in Seq(Digits \cup {"-"})
    <3>1. s \in Seq(Digits \cup {"-"}) BY <2>2, SeqMonotonic
    <3> HIDE DEF Right
    <3> QED BY <2>1, <3>1, InFront
  <2>4. Len(s) \in Nat /\ Len(s) >= 1 BY <2>2, EmptySeq, LenProperties
  <2> HIDE DEF numeral
  <2>5. numeral # <<>> /\ Len(numeral) < 12 /\ s # numeral BY <2>2, <2>3, <2>4
  <2>6. digits = s BY <2>3 DEF Unsigned
  <2> HIDE DEF digits
  <2>7. Shortest(numeral) BY <2>2, <2>3, <2>5, <2>6 DEF Shortest, digits
  <2> QED BY <1>5, <2>2, <2>5, <2>6, <2>7 DEF numeral, digits
<1> QED BY <1>1, <1>4, <1>5

LEMMA SignificantFacts ==
  ASSUME NEW s \in Seq(Digits), s # <<>>
  PROVE  /\ Significant(s) \in Seq(Digits) /\ Significant(s) # <<>>
         /\ Len(Significant(s)) \in Nat /\ Len(Significant(s)) <= Len(s)
         /\ Significant(s)[1] # "0" \/ Len(Significant(s)) = 1
         /\ Significant(s)[1] # "-"
         /\ \A base \in Nat : \A n : Numeral(s, base, n) => Numeral(Significant(s), base, n)
         /\ s[1] # "0" => Significant(s) = s
<1> DEFINE N == Len(s)
           Leads(i) == /\ s[i] # "0" \/ i = N
                       /\ \A j \in 1 .. i - 1 : s[j] = "0"
           first == CHOOSE i \in DOMAIN s : Leads(i)
           r == SubSeq(s, first, N)
<1>1. N \in Nat /\ N >= 1 /\ DOMAIN s = 1 .. N /\ \A i \in 1 .. N : s[i] \in Digits
  BY EmptySeq, LenProperties, ElementOfSeq
<1>a. s \in [1 .. N -> Digits] BY LenProperties
<1>b. \A i \in DOMAIN s : Leads(i) <=> /\ s[i] # "0" \/ i = N
                                      /\ \A j \in 1 .. i - 1 : s[j] = "0"
  OBVIOUS
<1>c. Len(s) = N OBVIOUS
<1> HIDE DEF N
<1>2. \E i \in 1 .. N : Leads(i)
  <2> DEFINE T == {i \in 1 .. N : s[i] # "0" \/ i = N}
  <2>1. PICK i \in T : \A j \in T : i <= j
    <3>1. N \in T /\ T \subseteq Nat BY <1>1
    <3> HIDE DEF T
    <3> QED BY <3>1, LeastNatural
  <2>2. ASSUME NEW j \in 1 .. i - 1 PROVE s[j] = "0"
    <3>1. j \in 1 .. N /\ ~(i <= j) BY <1>1, <2>1
    <3> QED BY <2>1, <3>1
  <2> QED BY <2>1, <2>2
<1>3. first \in 1 .. N /\ Leads(first)
  <2> HIDE DEF Leads
  <2> QED BY <1>1, <1>2
<1>4. Significant(s) = r BY DEF Significant, N
<1> HIDE DEF first
<1>d. first \in Nat /\ 1 <= first /\ first <= N
  <2> HIDE DEF Leads
  <2> QED BY <1>1, <1>3
<1>5. /\ r \in Seq(Digits) /\ Len(r) = N - first + 1
      /\ \A i \in 1 .. N - first + 1 : r[i] = s[first + i - 1]
  <2>1. \A i \in first .. N : s[i] \in Digits BY <1>1, <1>d
  <2>2. /\ SubSeq(s, first, N) \in Seq(Digits)
        /\ Len(SubSeq(s, first, N)) = N - first + 1
        /\ \A i \in 1 .. N - first + 1 : SubSeq(s, first, N)[i] = s[first + i - 1]
    BY <1>1, <1>d, <2>1, SubSeqProperties
  <2> QED BY <2>2
<1> HIDE DEF r
<1>6. r[1] = s[first]
  <2>1. 1 \in 1 .. N - first + 1 /\ first + 1 - 1 = first BY <1>1, <1>d
  <2> QED BY <1>5, <2>1
<1>7. r # <<>> /\ Len(r) \in Nat /\ Len(r) <= N BY <1>1, <1>d, <1>5, EmptySeq
<1>8. (r[1] # "0" \/ Len(r) = 1) /\ r[1] # "-"
  BY <1>1, <1>d, <1>3, <1>5, <1>6, DigitFacts
<1>9. ASSUME NEW base \in Nat, NEW n, Numeral(s, base, n) PROVE Numeral(r, base, n)
  <2>1. PICK f : Denotes(f, s, base) /\ f[N] = n BY <1>9 DEF Numeral, N
  <2>2. f \in [0 .. N -> Int] /\ f[0] = 0
        /\ \A i \in 1 .. N : f[i] = f[i - 1] * base - ValueOf(s[i])
    BY <2>1 DEF Denotes, N
  <2> DEFINE S == {i \in Nat : i <= first - 1 => f[i] = 0}
  <2>3. 0 \in S BY <2>2
  <2>4. ASSUME NEW i \in Nat, i \in S PROVE i + 1 \in S
    <3>1. SUFFICES ASSUME i + 1 <= first - 1 PROVE f[i + 1] = 0 OBVIOUS
    <3>2. i + 1 \in 1 .. N /\ (i + 1) - 1 = i /\ i + 1 \in 1 .. first - 1 BY <1>1, <1>d, <3>1
    <3>3. ValueOf(s[i + 1]) = 0 BY <1>1, <1>3, <3>2, DigitFacts
    <3>4. f[i] = 0 BY <1>3, <2>4, <3>1
    <3>5. f[i + 1] = 0 * base - 0 BY <2>2, <3>2, <3>3, <3>4
    <3> QED BY <3>5
  <2>5. f[first - 1] = 0
    <3>1. first - 1 \in Nat BY <1>d
    <3>2. first - 1 \in S
      <4> HIDE DEF S
      <4> QED BY <2>3, <2>4, <3>1, SetInduction
    <3> QED BY <3>1, <3>2
  <2> DEFINE M == N - first + 1
             g == [i \in 0 .. M |-> f[first + i - 1]]
  <2>6. M \in Nat /\ \A i \in 0 .. M : first + i - 1 \in 0 .. N BY <1>1, <1>d
  <2>7. g \in [0 .. M -> Int] /\ g[0] = 0 /\ g[M] = n
    <3>1. g \in [0 .. M -> Int] BY <2>2, <2>6
    <3>2. g[0] = f[first - 1]
      <4>1. 0 \in 0 .. M /\ first + 0 - 1 = first - 1 BY <1>d, <2>6
      <4> QED BY <4>1
    <3>3. g[M] = f[N]
      <4>1. M \in 0 .. M /\ first + M - 1 = N BY <1>1, <1>d, <2>6
      <4> QED BY <4>1
    <3> QED BY <2>1, <2>5, <3>1, <3>2, <3>3
  <2>8. ASSUME NEW i \in 1 .. M PROVE g[i] = g[i - 1] * base - ValueOf(r[i])
    <3>1. i \in 0 .. M /\ i - 1 \in 0 .. M /\ first + i - 1 \in 1 .. N
          /\ (first + i - 1) - 1 = first + (i - 1) - 1
      BY <1>1, <1>d, <2>6
    <3>2. g[i] = f[first + i - 1] /\ g[i - 1] = f[(first + i - 1) - 1] BY <3>1
    <3>3. r[i] = s[first + i - 1] BY <1>5
    <3> HIDE DEF g
    <3> QED BY <2>2, <3>1, <3>2, <3>3
  <2>9. Denotes(g, r, base) /\ g[Len(r)] = n
    <3> HIDE DEF g
    <3> QED BY <1>5, <2>7, <2>8 DEF Denotes
  <2> HIDE DEF g
  <2> QED BY <2>9 DEF Numeral
<1>10. s[1] # "0" => r = s
  <2>1. SUFFICES ASSUME s[1] # "0" PROVE r = s OBVIOUS
  <2>2. first = 1
    <3>1. SUFFICES ASSUME first # 1 PROVE FALSE OBVIOUS
    <3>2. 1 \in 1 .. first - 1 BY <1>d, <3>1
    <3> QED BY <1>3, <2>1, <3>2
  <2>3. Len(r) = N /\ \A i \in 1 .. N : r[i] = s[i]
    <3>1. N - first + 1 = N /\ \A i \in 1 .. N : first + i - 1 = i BY <1>1, <2>2
    <3> QED BY <1>5, <3>1
  <2> QED BY <1>5, <2>3, SeqEqual DEF N
<1> QED BY <1>4, <1>7, <1>5, <1>8, <1>9, <1>10 DEF N

\* The digits of v, the numbers up to each being at[0], at[1] ... v.
Positions(at, digits, base, v) ==
  /\ at \in [0 .. Len(digits) -> Int]
  /\ at[0] = (IF v < 0 THEN -1 ELSE 0) /\ at[Len(digits)] = v
  /\ \A i \in 1 .. Len(digits) : at[i] = at[i - 1] * base + ValueOf(digits[i])
  /\ v < 0 => digits[1] # "0"

LEMMA PositionFacts ==
  ASSUME NEW v \in Int, NEW base \in Nat, NEW at, NEW digits \in Seq(Digits),
         Positions(at, digits, base, v), NEW N \in 1 .. 11, Len(digits) = N
  PROVE  LET s == Significant(digits)
         IN  /\ Shortest(s) /\ Unsigned(s) = s
             /\ v < 0 => Len(s) = N
             /\ Number(s, base, IF v < 0 THEN -1 ELSE 0, 1) = v
<1> DEFINE s == Significant(digits)
<1>0. /\ at \in [0 .. N -> Int]
      /\ at[0] = (IF v < 0 THEN -1 ELSE 0) /\ at[N] = v
      /\ \A i \in 1 .. N : at[i] = at[i - 1] * base + ValueOf(digits[i])
      /\ v < 0 => digits[1] # "0"
  BY DEF Positions
<1>1. digits # <<>>
  <2>1. Len(digits) # 0 OBVIOUS
  <2> QED BY <2>1, EmptySeq
<1>2. /\ s \in Seq(Digits) /\ s # <<>> /\ Len(s) \in Nat /\ Len(s) <= N
      /\ s[1] # "0" \/ Len(s) = 1
      /\ s[1] # "-"
      /\ \A n : Numeral(digits, base, n) => Numeral(s, base, n)
      /\ digits[1] # "0" => s = digits
  BY <1>1, SignificantFacts
<1> HIDE DEF s
<1>3. Shortest(s) /\ Unsigned(s) = s
  <2>1. s \in Seq(Digits \cup {"-"}) BY <1>2, SeqMonotonic
  <2>2. Unsigned(s) = s BY <1>2 DEF Unsigned
  <2>3. N \in Int /\ N <= 11 OBVIOUS
  <2>4. Len(s) < 12 BY <1>2, <2>3
  <2>5. Unsigned(s) \in Seq(Digits) /\ (Unsigned(s)[1] # "0" \/ Len(Unsigned(s)) = 1)
    BY <1>2, <2>2
  <2>6. Shortest(s) BY <1>2, <2>1, <2>4, <2>5, Zenon DEF Shortest
  <2> QED BY <2>2, <2>6
<1>4. \A i \in 1 .. N : ValueOf(digits[i]) \in Int
  <2>1. \A i \in 1 .. N : digits[i] \in Digits BY ElementOfSeq
  <2>2. \A i \in 1 .. N : ValueOf(digits[i]) \in 0 .. 15 BY <2>1, DigitFacts, Zenon
  <2>3. \A d \in 0 .. 15 : d \in Int OBVIOUS
  <2> QED BY <2>2, <2>3, Zenon
<1>5. \A i \in 1 .. N : at[i - 1] \in Int /\ at[i] \in Int BY <1>0
<1>6. CASE v < 0
  <2>1. s = digits BY <1>0, <1>2, <1>6
  <2>2. \A i \in 1 .. N : at[i] = at[i - 1] * base + 1 * ValueOf(digits[i])
    BY <1>0, <1>4
  <2>3. Counts(at, digits, base, -1, 1) BY <1>0, <1>6, <2>2 DEF Counts
  <2>4. Number(digits, base, -1, 1) = at[Len(digits)] BY <2>3, NumberFacts
  <2> QED BY <1>0, <1>3, <1>6, <2>1, <2>4 DEF s
<1>7. CASE ~(v < 0)
  <2> DEFINE f == [i \in 0 .. N |-> -at[i]]
  <2>1. f \in [0 .. N -> Int] /\ f[0] = 0 /\ f[N] = -v BY <1>0, <1>7
  <2>2. ASSUME NEW i \in 1 .. N PROVE f[i] = f[i - 1] * base - ValueOf(digits[i])
    <3>1. f[i] = -at[i] /\ f[i - 1] = -at[i - 1] OBVIOUS
    <3>2. \A x \in Int : (-x) * base = -(x * base) OBVIOUS
    <3>3. f[i - 1] * base = -(at[i - 1] * base) BY <1>5, <3>1, <3>2
    <3>4. at[i - 1] * base \in Int
      <4>1. \A x \in Int : x * base \in Int OBVIOUS
      <4> QED BY <1>5, <4>1, Zenon
    <3>5. at[i] = at[i - 1] * base + ValueOf(digits[i]) BY <1>0
    <3>6. ValueOf(digits[i]) \in Int BY <1>4
    <3> HIDE DEF f
    <3>7. \A x \in Int, y \in Int : -(x + y) = -x - y OBVIOUS
    <3>8. f[i] = -(at[i - 1] * base) - ValueOf(digits[i])
      BY <3>1, <3>4, <3>5, <3>6, <3>7
    <3> QED BY <3>3, <3>8
  <2> HIDE DEF f
  <2>3. Denotes(f, digits, base) BY <2>1, <2>2 DEF Denotes
  <2>4. Numeral(digits, base, -v) BY <2>1, <2>3 DEF Numeral
  <2>5. Number(s, base, 0, 1) = -(-v) BY <1>2, <2>4, NumeralFacts
  <2>6. -(-v) = v OBVIOUS
  <2> QED BY <1>3, <1>7, <2>5, <2>6 DEF s
<1> QED BY <1>6, <1>7

LEMMA CvthexFacts ==
  ASSUME NEW v \in INT_MIN .. INT_MAX
  PROVE  /\ Shortest(__cvthex(v)) /\ Unsigned(__cvthex(v)) = __cvthex(v)
         /\ v < 0 => Len(__cvthex(v)) = 8
         /\ Number(__cvthex(v), 16, IF v < 0 THEN -1 ELSE 0, 1) = v
<1> DEFINE Weight(i) == 16 ^ (8 - i)
           At(i) == v \div Weight(i)
           Rem(i) == At(i) % 16
           digits == [i \in 1 .. 8 |-> Digit(Rem(i))]
           at == [i \in 0 .. 8 |-> At(i)]
<1>1. v \in Int /\ INT_MIN <= v /\ v <= INT_MAX BY IntFacts
<1>2. \A i \in 1 .. 8 : /\ At(i) \in Int /\ At(i - 1) \in Int /\ Rem(i) \in 0 .. 15
                        /\ At(i) = At(i - 1) * 16 + Rem(i)
  <2> SUFFICES ASSUME NEW i \in 1 .. 8
               PROVE  /\ At(i) \in Int /\ At(i - 1) \in Int /\ Rem(i) \in 0 .. 15
                      /\ At(i) = At(i - 1) * 16 + Rem(i)
    OBVIOUS
  <2>1. CASE i = 1
    <3>1. Weight(i) = 268435456 /\ Weight(i - 1) = 4294967296 BY <2>1, SMT
    <3> QED BY <1>1, <3>1, SMT
  <2>2. CASE i = 2
    <3>1. Weight(i) = 16777216 /\ Weight(i - 1) = 268435456 BY <2>2, SMT
    <3> QED BY <1>1, <3>1, SMT
  <2>3. CASE i = 3
    <3>1. Weight(i) = 1048576 /\ Weight(i - 1) = 16777216 BY <2>3, SMT
    <3> QED BY <1>1, <3>1, SMT
  <2>4. CASE i = 4
    <3>1. Weight(i) = 65536 /\ Weight(i - 1) = 1048576 BY <2>4, SMT
    <3> QED BY <1>1, <3>1, SMT
  <2>5. CASE i = 5
    <3>1. Weight(i) = 4096 /\ Weight(i - 1) = 65536 BY <2>5, SMT
    <3> QED BY <1>1, <3>1, SMT
  <2>6. CASE i = 6
    <3>1. Weight(i) = 256 /\ Weight(i - 1) = 4096 BY <2>6, SMT
    <3> QED BY <1>1, <3>1, SMT
  <2>7. CASE i = 7
    <3>1. Weight(i) = 16 /\ Weight(i - 1) = 256 BY <2>7, SMT
    <3> QED BY <1>1, <3>1, SMT
  <2>8. CASE i = 8
    <3>1. Weight(i) = 1 /\ Weight(i - 1) = 16 BY <2>8, SMT
    <3> QED BY <1>1, <3>1, SMT
  <2> QED BY <2>1, <2>2, <2>3, <2>4, <2>5, <2>6, <2>7, <2>8, SMT
<1>3. /\ At(0) = IF v < 0 THEN -1 ELSE 0
      /\ v < 0 => Rem(1) # 0
  <2>1. Weight(0) = 4294967296 /\ Weight(1) = 268435456 BY SMT
  <2>2. INT_MAX < 8 * 268435456 BY SMT DEF INT_MAX
  <2>3. -(8 * 268435456) <= INT_MIN BY <2>2, IntSizes, SMT
  <2>4. v < 8 * 268435456 /\ -(8 * 268435456) <= v BY <1>1, <2>2, <2>3, IntSizes, SMT
  <2>5. At(0) = IF v < 0 THEN -1 ELSE 0 BY <1>1, <2>1, <2>4, SMT
  <2>6. At(1) \in Int /\ v < 0 => At(1) < 0 /\ -8 <= At(1)
    BY <1>1, <2>1, <2>4, SMT
  <2>7. v < 0 => Rem(1) # 0
    <3> HIDE DEF At
    <3> QED BY <1>2, <2>5, <2>6
  <2> QED BY <2>5, <2>7
<1>4. At(8) = v
  <2>1. Weight(8) = 1 BY SMT
  <2> QED BY <1>1, <2>1, SMT
<1> HIDE DEF At, Rem
<1>5. \A i \in 1 .. 8 : /\ Rem(i) \in 0 .. 15
                        /\ ValueOf(Digit(Rem(i))) = Rem(i)
                        /\ Rem(i) # 0 => Digit(Rem(i)) # "0"
  <2>1. \A i \in 1 .. 8 : Rem(i) \in 0 .. 15 BY <1>2
  <2> QED BY <2>1, DigitsDiffer, DigitValue
<1>6. /\ digits \in Seq(Digits) /\ Len(digits) = 8
      /\ \A i \in 1 .. 8 : digits[i] = Digit(Rem(i))
  <2>1. \A i \in 1 .. 8 : Rem(i) \in 0 .. 15 BY <1>5
  <2>2. \A i \in 1 .. 8 : Digit(Rem(i)) \in Digits BY <2>1, DigitsDiffer
  <2> QED BY <2>2
<1>7. \A i \in 0 .. 8 : At(i) \in Int
  <2>1. SUFFICES ASSUME NEW i \in 0 .. 8 PROVE At(i) \in Int OBVIOUS
  <2>2. CASE i = 0 BY <1>3, <2>2
  <2>3. CASE i # 0
    <3>1. i \in 1 .. 8 BY <2>3
    <3> QED BY <1>2, <3>1
  <2> QED BY <2>2, <2>3
<1>8. at \in [0 .. 8 -> Int] /\ at[0] = (IF v < 0 THEN -1 ELSE 0) /\ at[8] = v
  BY <1>3, <1>4, <1>7
<1>9. \A i \in 1 .. 8 : at[i] = at[i - 1] * 16 + ValueOf(digits[i])
  <2>1. SUFFICES ASSUME NEW i \in 1 .. 8
                 PROVE  at[i] = at[i - 1] * 16 + ValueOf(digits[i])
    OBVIOUS
  <2>2. at[i] = At(i) /\ at[i - 1] = At(i - 1) OBVIOUS
  <2>3. ValueOf(digits[i]) = Rem(i) BY <1>5, <1>6
  <2> HIDE DEF at, digits
  <2> QED BY <1>2, <2>2, <2>3
<1>10. v < 0 => digits[1] # "0" BY <1>3, <1>5, <1>6
<1>11. __cvthex(v) = Significant(digits) BY DEF __cvthex, At, Rem
<1> HIDE DEF at, digits
<1>12. v \in Int /\ 16 \in Nat /\ 8 \in 1 .. 11 BY <1>1
<1>13. Positions(at, digits, 16, v) BY <1>6, <1>8, <1>9, <1>10 DEF Positions
<1>14. LET s == Significant(digits)
       IN  /\ Shortest(s) /\ Unsigned(s) = s
           /\ v < 0 => Len(s) = 8
           /\ Number(s, 16, IF v < 0 THEN -1 ELSE 0, 1) = v
  BY <1>6, <1>12, <1>13, PositionFacts
<1> QED BY <1>11, <1>14

LEMMA CvtoctFacts ==
  ASSUME NEW v \in INT_MIN .. INT_MAX
  PROVE  /\ Shortest(__cvtoct(v)) /\ Unsigned(__cvtoct(v)) = __cvtoct(v)
         /\ v < 0 => Len(__cvtoct(v)) = 11
         /\ Number(__cvtoct(v), 8, IF v < 0 THEN -1 ELSE 0, 1) = v
<1> DEFINE Weight(i) == 8 ^ (11 - i)
           At(i) == v \div Weight(i)
           Rem(i) == At(i) % 8
           digits == [i \in 1 .. 11 |-> Digit(Rem(i))]
           at == [i \in 0 .. 11 |-> At(i)]
<1>1. v \in Int /\ INT_MIN <= v /\ v <= INT_MAX BY IntFacts
<1>2. \A i \in 1 .. 11 : /\ At(i) \in Int /\ At(i - 1) \in Int /\ Rem(i) \in 0 .. 7
                        /\ At(i) = At(i - 1) * 8 + Rem(i)
  <2> SUFFICES ASSUME NEW i \in 1 .. 11
               PROVE  /\ At(i) \in Int /\ At(i - 1) \in Int /\ Rem(i) \in 0 .. 7
                      /\ At(i) = At(i - 1) * 8 + Rem(i)
    OBVIOUS
  <2>1. CASE i = 1
    <3>1. Weight(i) = 1073741824 /\ Weight(i - 1) = 8589934592 BY <2>1, SMT
    <3> QED BY <1>1, <3>1, SMT
  <2>2. CASE i = 2
    <3>1. Weight(i) = 134217728 /\ Weight(i - 1) = 1073741824 BY <2>2, SMT
    <3> QED BY <1>1, <3>1, SMT
  <2>3. CASE i = 3
    <3>1. Weight(i) = 16777216 /\ Weight(i - 1) = 134217728 BY <2>3, SMT
    <3> QED BY <1>1, <3>1, SMT
  <2>4. CASE i = 4
    <3>1. Weight(i) = 2097152 /\ Weight(i - 1) = 16777216 BY <2>4, SMT
    <3> QED BY <1>1, <3>1, SMT
  <2>5. CASE i = 5
    <3>1. Weight(i) = 262144 /\ Weight(i - 1) = 2097152 BY <2>5, SMT
    <3> QED BY <1>1, <3>1, SMT
  <2>6. CASE i = 6
    <3>1. Weight(i) = 32768 /\ Weight(i - 1) = 262144 BY <2>6, SMT
    <3> QED BY <1>1, <3>1, SMT
  <2>7. CASE i = 7
    <3>1. Weight(i) = 4096 /\ Weight(i - 1) = 32768 BY <2>7, SMT
    <3> QED BY <1>1, <3>1, SMT
  <2>8. CASE i = 8
    <3>1. Weight(i) = 512 /\ Weight(i - 1) = 4096 BY <2>8, SMT
    <3> QED BY <1>1, <3>1, SMT
  <2>9. CASE i = 9
    <3>1. Weight(i) = 64 /\ Weight(i - 1) = 512 BY <2>9, SMT
    <3> QED BY <1>1, <3>1, SMT
  <2>10. CASE i = 10
    <3>1. Weight(i) = 8 /\ Weight(i - 1) = 64 BY <2>10, SMT
    <3> QED BY <1>1, <3>1, SMT
  <2>11. CASE i = 11
    <3>1. Weight(i) = 1 /\ Weight(i - 1) = 8 BY <2>11, SMT
    <3> QED BY <1>1, <3>1, SMT
  <2> QED BY <2>1, <2>2, <2>3, <2>4, <2>5, <2>6, <2>7, <2>8, <2>9, <2>10, <2>11, SMT
<1>3. /\ At(0) = IF v < 0 THEN -1 ELSE 0
      /\ v < 0 => Rem(1) # 0
  <2>1. Weight(0) = 8589934592 /\ Weight(1) = 1073741824 BY SMT
  <2>2. INT_MAX < 2 * 1073741824 BY SMT DEF INT_MAX
  <2>3. -(2 * 1073741824) <= INT_MIN BY <2>2, IntSizes, SMT
  <2>4. v < 2 * 1073741824 /\ -(2 * 1073741824) <= v BY <1>1, <2>2, <2>3, IntSizes, SMT
  <2>5. At(0) = IF v < 0 THEN -1 ELSE 0 BY <1>1, <2>1, <2>4, SMT
  <2>6. At(1) \in Int /\ v < 0 => At(1) < 0 /\ -2 <= At(1)
    BY <1>1, <2>1, <2>4, SMT
  <2>7. v < 0 => Rem(1) # 0
    <3> HIDE DEF At
    <3> QED BY <1>2, <2>5, <2>6
  <2> QED BY <2>5, <2>7
<1>4. At(11) = v
  <2>1. Weight(11) = 1 BY SMT
  <2> QED BY <1>1, <2>1, SMT
<1> HIDE DEF At, Rem
<1>5. \A i \in 1 .. 11 : /\ Rem(i) \in 0 .. 15
                         /\ ValueOf(Digit(Rem(i))) = Rem(i)
                         /\ Rem(i) # 0 => Digit(Rem(i)) # "0"
  <2>1. \A i \in 1 .. 11 : Rem(i) \in 0 .. 15 BY <1>2
  <2> QED BY <2>1, DigitsDiffer, DigitValue
<1>6. /\ digits \in Seq(Digits) /\ Len(digits) = 11
      /\ \A i \in 1 .. 11 : digits[i] = Digit(Rem(i))
  <2>1. \A i \in 1 .. 11 : Rem(i) \in 0 .. 15 BY <1>5
  <2>2. \A i \in 1 .. 11 : Digit(Rem(i)) \in Digits BY <2>1, DigitsDiffer
  <2> QED BY <2>2
<1>7. \A i \in 0 .. 11 : At(i) \in Int
  <2>1. SUFFICES ASSUME NEW i \in 0 .. 11 PROVE At(i) \in Int OBVIOUS
  <2>2. CASE i = 0 BY <1>3, <2>2
  <2>3. CASE i # 0
    <3>1. i \in 1 .. 11 BY <2>3
    <3> QED BY <1>2, <3>1
  <2> QED BY <2>2, <2>3
<1>8. at \in [0 .. 11 -> Int] /\ at[0] = (IF v < 0 THEN -1 ELSE 0) /\ at[11] = v
  BY <1>3, <1>4, <1>7
<1>9. \A i \in 1 .. 11 : at[i] = at[i - 1] * 8 + ValueOf(digits[i])
  <2>1. SUFFICES ASSUME NEW i \in 1 .. 11
                 PROVE  at[i] = at[i - 1] * 8 + ValueOf(digits[i])
    OBVIOUS
  <2>2. at[i] = At(i) /\ at[i - 1] = At(i - 1) OBVIOUS
  <2>3. ValueOf(digits[i]) = Rem(i) BY <1>5, <1>6
  <2> HIDE DEF at, digits
  <2> QED BY <1>2, <2>2, <2>3
<1>10. v < 0 => digits[1] # "0" BY <1>3, <1>5, <1>6
<1>11. __cvtoct(v) = Significant(digits) BY DEF __cvtoct, At, Rem
<1> HIDE DEF at, digits
<1>12. v \in Int /\ 8 \in Nat /\ 11 \in 1 .. 11 BY <1>1
<1>13. Positions(at, digits, 8, v) BY <1>6, <1>8, <1>9, <1>10 DEF Positions
<1>14. LET s == Significant(digits)
       IN  /\ Shortest(s) /\ Unsigned(s) = s
           /\ v < 0 => Len(s) = 11
           /\ Number(s, 8, IF v < 0 THEN -1 ELSE 0, 1) = v
  BY <1>6, <1>12, <1>13, PositionFacts
<1> QED BY <1>11, <1>14

-----------------------------------------------------------------------------
(* One conversion *)

LEMMA HighByte ==
  ASSUME NEW v \in Int, INT_MIN <= v, v <= INT_MAX, NEW q \in Int, NEW r \in Int,
         0 <= r, r < 16777216, v = 16777216 * q + r
  PROVE  -128 <= q /\ q <= 127
<1>1. INT_MAX = 2147483647 BY SMT DEF INT_MAX
<1>2. INT_MIN = -INT_MAX - 1 BY IntSizes
<1> QED BY <1>1, <1>2, SMT

\* The four bytes of an int on the stack are that int.
LEMMA IntAtFirst ==
  ASSUME NEW v \in INT_MIN .. INT_MAX
  PROVE  IntAt(<<v>>, 0) = v
<1> DEFINE Arg(i) == IF i \div 4 + 1 \in DOMAIN <<v>>
                     THEN Byte(<<v>>[i \div 4 + 1], i % 4) ELSE 0
           high == IF Arg(0 + 3) < 128 THEN Arg(0 + 3) ELSE Arg(0 + 3) - 256
<1>1. v \in Int /\ INT_MIN <= v /\ v <= INT_MAX BY IntFacts
<1>2. DOMAIN <<v>> = 1 .. 1 /\ <<v>>[1] = v OBVIOUS
<1>3. /\ 0 \div 4 + 1 = 1 /\ (0 + 1) \div 4 + 1 = 1 /\ (0 + 2) \div 4 + 1 = 1
      /\ (0 + 3) \div 4 + 1 = 1 /\ 1 \in 1 .. 1
      /\ 0 % 4 = 0 /\ (0 + 1) % 4 = 1 /\ (0 + 2) % 4 = 2 /\ (0 + 3) % 4 = 3
  BY SMT
<1>4. /\ Arg(0) = Byte(v, 0) /\ Arg(0 + 1) = Byte(v, 1) /\ Arg(0 + 2) = Byte(v, 2)
      /\ Arg(0 + 3) = Byte(v, 3)
  BY <1>2, <1>3
<1>5. /\ Byte(v, 0) = v % 256 /\ Byte(v, 1) = (v \div 256) % 256
      /\ Byte(v, 2) = (v \div 65536) % 256 /\ Byte(v, 3) = (v \div 16777216) % 256
  <2>1. 256 ^ 0 = 1 /\ 256 ^ 1 = 256 /\ 256 ^ 2 = 65536 /\ 256 ^ 3 = 16777216 BY SMT
  <2>2. v \div 1 = v BY <1>1, SMT
  <2> QED BY <2>1, <2>2, SMT DEF Byte
<1>6. IntAt(<<v>>, 0) = Arg(0) + Arg(0 + 1) * 256 + Arg(0 + 2) * 65536 + high * 16777216
  BY SMT DEF IntAt
<1> HIDE DEF Arg
<1>7. IntAt(<<v>>, 0) = (v % 256) + ((v \div 256) % 256) * 256
                        + ((v \div 65536) % 256) * 65536 + high * 16777216
  BY <1>4, <1>5, <1>6, SMT
<1>8. high = v \div 16777216
  <2> DEFINE q == v \div 16777216
             r == v % 16777216
  <2>1. q \in Int /\ r \in Int /\ 0 <= r /\ r < 16777216 /\ v = 16777216 * q + r
    BY <1>1, SMT
  <2>3. high = IF q % 256 < 128 THEN q % 256 ELSE (q % 256) - 256 BY <1>4, <1>5, SMT
  <2> HIDE DEF q, r, high
  <2>4. -128 <= q /\ q <= 127 BY <1>1, <2>1, HighByte
  <2>5. high = q BY <2>1, <2>3, <2>4, SMT
  <2> QED BY <2>5, SMT DEF q
<1> HIDE DEF high
<1> QED BY <1>1, <1>7, <1>8, SMT

\* The format of one field: it is converted and padded.
LEMMA OneField ==
  ASSUME NEW item, item.type # "plain", NEW args, NEW S, NEW numeral \in Seq(S),
         Converted(item, args, 0) = numeral, item.pad \in S, item.width \in Nat
  PROVE  LET missing == Max({0, item.width - Len(numeral)})
             padding == [i \in 1 .. missing |-> item.pad]
         IN  /\ __do_printf(<<item>>, args) = IF item.left THEN numeral \o padding
                                              ELSE padding \o numeral
             /\ __do_printf(<<item>>, args) \in Seq(S)
<1> DEFINE missing == Max({0, item.width - Len(numeral)})
           padding == [i \in 1 .. missing |-> item.pad]
           fmt == <<item>>
           Row(ap, i) == IF i = 1 THEN 0 ELSE ap[i - 1] + Taken(fmt[i - 1])
           Solves(ap) == ap = [i \in DOMAIN fmt |-> Row(ap, i)]
           A == CHOOSE ap : Solves(ap)
           piece == __padstr(numeral, item)
<1>1. DOMAIN fmt = 1 .. 1 /\ fmt[1] = item OBVIOUS
<1>2. A[1] = 0
  <2> DEFINE a == [i \in 1 .. 1 |-> 0]
  <2>1. Solves(a)
    <3>1. ASSUME NEW i \in 1 .. 1 PROVE a[i] = Row(a, i) OBVIOUS
    <3> HIDE DEF Row
    <3> QED BY <1>1, <3>1
  <2>2. Solves(A)
    <3> HIDE DEF Solves, a
    <3> QED BY <2>1
  <2>3. A[1] = Row(A, 1)
    <3>1. 1 \in DOMAIN fmt BY <1>1
    <3> HIDE DEF Row, fmt, A
    <3> QED BY <2>2, <3>1
  <2> HIDE DEF A
  <2> QED BY <2>3
<1>3. Pieces(fmt, args) =
        [i \in DOMAIN fmt |->
           IF fmt[i].type = "plain" THEN <<fmt[i].ch>>
           ELSE __padstr(Converted(fmt[i], args, A[i]), fmt[i])]
  BY DEF Pieces
<1> HIDE DEF A
<1>4. Pieces(fmt, args) = <<piece>>
  <2>1. Pieces(fmt, args) = [i \in 1 .. 1 |-> piece]
    <3>1. ASSUME NEW i \in 1 .. 1
          PROVE  (IF fmt[i].type = "plain" THEN <<fmt[i].ch>>
                  ELSE __padstr(Converted(fmt[i], args, A[i]), fmt[i])) = piece
      <4>1. i = 1 OBVIOUS
      <4> QED BY <1>1, <1>2, <4>1
    <3> HIDE DEF piece, fmt
    <3> QED BY <1>1, <1>3, <3>1
  <2> HIDE DEF piece, fmt
  <2> QED BY <2>1
<1>5. Len(numeral) \in Nat BY LenProperties
<1>6. /\ missing \in Nat
      /\ missing = IF item.width - Len(numeral) > 0 THEN item.width - Len(numeral) ELSE 0
  <2> DEFINE x == item.width - Len(numeral)
  <2>1. x \in Int BY <1>5
  <2> HIDE DEF x
  <2>2. Max({0, x}) = IF x > 0 THEN x ELSE 0 BY <2>1 DEF Max
  <2> QED BY <2>1, <2>2 DEF x
<1> HIDE DEF missing
<1>7. padding \in Seq(S) BY <1>6
<1>8. __pad(item.width - Len(numeral), item.pad) = padding
  <2>1. CASE item.width - Len(numeral) > 0 BY <1>6, <2>1 DEF __pad
  <2>2. CASE ~(item.width - Len(numeral) > 0)
    <3>1. padding = <<>>
      <4>1. missing = 0 BY <1>6, <2>2
      <4>2. Len(padding) = 0 BY <1>6, <4>1
      <4> HIDE DEF padding
      <4> QED BY <1>7, <4>2, EmptySeq
    <3> QED BY <2>2, <3>1 DEF __pad
  <2> QED BY <2>1, <2>2
<1> HIDE DEF missing, padding
<1>9. piece = IF item.left THEN numeral \o padding ELSE padding \o numeral
  BY <1>8 DEF __padstr
<1>10. piece \in Seq(S) BY <1>7, <1>9, ConcatProperties
<1> HIDE DEF piece
<1>11. __do_printf(<<item>>, args) = piece
  <2>1. <<piece>> \in Seq(Seq(S)) /\ <<piece>> # <<>> /\ Len(<<piece>>) = 1
        /\ <<piece>>[1] = piece
    BY <1>10
  <2>2. FlattenSeq(<<piece>>) = piece BY <2>1, FlattenFacts
  <2> QED BY <1>4, <2>2 DEF __do_printf
<1> QED BY <1>9, <1>10, <1>11 DEF missing, padding

-----------------------------------------------------------------------------
(* The console: its screen *)

\* What a place of the screen may show.
Glyphs == STRING \cup Codes \cup {" ", "?", "-"} \cup Digits

LEMMA Blank == " " \in Glyphs
BY DEF Glyphs

\* The window is on the screen, and the cursor in the window or at the left of
\* the line below it.
Screens ==
  {s \in [video : [Places -> Glyphs],
          scroll_min_x : Int, scroll_min_y : Int,
          scroll_max_x : Int, scroll_max_y : Int,
          curr_x : Int, curr_y : Int, cursor : Int \X Int] :
     /\ min_x <= s.scroll_min_x /\ s.scroll_min_x <= s.scroll_max_x
     /\ s.scroll_max_x <= max_x
     /\ min_y <= s.scroll_min_y /\ s.scroll_min_y <= s.scroll_max_y
     /\ s.scroll_max_y <= max_y
     /\ s.curr_x \in s.scroll_min_x .. s.scroll_max_x
     /\ s.curr_y \in s.scroll_min_y .. s.scroll_max_y + 1
     /\ s.curr_y > s.scroll_max_y => s.curr_x = s.scroll_min_x}

SameWindow(s, r) ==
  /\ r.scroll_min_x = s.scroll_min_x /\ r.scroll_min_y = s.scroll_min_y
  /\ r.scroll_max_x = s.scroll_max_x /\ r.scroll_max_y = s.scroll_max_y
SameCursor(s, r) == r.curr_x = s.curr_x /\ r.curr_y = s.curr_y

\* What is on the screen outside the window, and inside.
Inside(s) == {p \in Places : InWindow(s, p)}
KeptIn(places, s, r) == \A p \in places : r.video[p] = s.video[p]

LEMMA Sizes ==
  /\ max_x \in Nat /\ max_y \in Nat /\ min_x = 0 /\ min_y = 0
  /\ C_BUFSIZE \in Nat /\ C_BUFSIZE > 1
BY ConsoleAssumption DEF max_x, max_y, min_x, min_y

LEMMA BoundFacts ==
  ASSUME NEW min \in Int, NEW max \in Int, NEW value \in Int, min <= max
  PROVE  /\ bound(min, value, max) \in min .. max
         /\ value \in min .. max => bound(min, value, max) = value
BY DEF bound

\* The record of a screen, and what each assignment leaves alone.
LEMMA ScreenFields ==
  ASSUME NEW s \in Screens
  PROVE  /\ s.scroll_min_x \in Int /\ s.scroll_min_y \in Int
         /\ s.scroll_max_x \in Int /\ s.scroll_max_y \in Int
         /\ s.curr_x \in Int /\ s.curr_y \in Int /\ s.video \in [Places -> Glyphs]
         /\ 0 <= s.scroll_min_x /\ s.scroll_min_x <= s.scroll_max_x
         /\ s.scroll_max_x <= max_x
         /\ 0 <= s.scroll_min_y /\ s.scroll_min_y <= s.scroll_max_y
         /\ s.scroll_max_y <= max_y
         /\ s.curr_x >= s.scroll_min_x /\ s.curr_x <= s.scroll_max_x
         /\ s.curr_y >= s.scroll_min_y /\ s.curr_y <= s.scroll_max_y + 1
         /\ s.curr_y > s.scroll_max_y => s.curr_x = s.scroll_min_x
BY DEF Screens, min_x, min_y

LEMMA VideoFacts ==
  ASSUME NEW s \in Screens
  PROVE  \A p \in Places : s.video[p] \in Glyphs
<1>1. s.video \in [Places -> Glyphs] BY ScreenFields
<1> QED BY <1>1

\* A screen with other contents, or another place for the cursor.
LEMMA WithVideo ==
  ASSUME NEW s \in Screens, NEW v \in [Places -> Glyphs]
  PROVE  LET r == [s EXCEPT !.video = v]
         IN  r \in Screens /\ r.video = v /\ SameWindow(s, r) /\ SameCursor(s, r)
BY DEF Screens, SameWindow, SameCursor

AtPlace(s, x, y) == [s EXCEPT !.curr_x = x, !.curr_y = y]

LEMMA WithCursor ==
  ASSUME NEW s \in Screens,
         NEW x \in Int, NEW y \in Int,
         /\ x \in s.scroll_min_x .. s.scroll_max_x
         /\ y \in s.scroll_min_y .. s.scroll_max_y + 1
         /\ y > s.scroll_max_y => x = s.scroll_min_x
  PROVE  LET r == AtPlace(s, x, y)
         IN  /\ r \in Screens /\ r.video = s.video /\ SameWindow(s, r)
             /\ r.curr_x = x /\ r.curr_y = y
<1> DEFINE r == [s EXCEPT !.curr_x = x, !.curr_y = y]
<1>1. x \in Int /\ y \in Int OBVIOUS
<1>2. /\ r.scroll_min_x = s.scroll_min_x /\ r.scroll_min_y = s.scroll_min_y
      /\ r.scroll_max_x = s.scroll_max_x /\ r.scroll_max_y = s.scroll_max_y
      /\ r.video = s.video /\ r.curr_x = x /\ r.curr_y = y
  BY DEF Screens
<1>3. r \in [video : [Places -> Glyphs],
            scroll_min_x : Int, scroll_min_y : Int,
            scroll_max_x : Int, scroll_max_y : Int,
            curr_x : Int, curr_y : Int, cursor : Int \X Int]
  BY <1>1 DEF Screens
<1> HIDE DEF r
<1>4. r \in Screens BY <1>2, <1>3 DEF Screens
<1> QED BY <1>2, <1>4 DEF SameWindow, r, AtPlace

LEMMA SetCursorFacts ==
  ASSUME NEW s \in Screens
  PROVE  LET r == __c_setcursor(s)
         IN  r \in Screens /\ r.video = s.video /\ SameWindow(s, r) /\ SameCursor(s, r)
BY DEF Screens, SameWindow, SameCursor, __c_setcursor

LEMMA PlaceFacts ==
  /\ \A x, y \in Int : <<x, y>> \in Places <=> x \in 0 .. max_x /\ y \in 0 .. max_y
  /\ \A p \in Places : /\ p = <<p[1], p[2]>> /\ p[1] \in Int /\ p[2] \in Int
                       /\ p[1] \in 0 .. max_x /\ p[2] \in 0 .. max_y
BY Sizes DEF Places, min_x, min_y

LEMMA WriteFacts ==
  ASSUME NEW s \in Screens, NEW x \in Int, NEW y \in Int, NEW c \in Glyphs
  PROVE  LET r == __c_putchar_at(s, x, y, c)
         IN  /\ r \in Screens /\ SameWindow(s, r) /\ SameCursor(s, r)
             /\ \A p \in Places : r.video[p] = IF p = <<x, y>> THEN c ELSE s.video[p]
<1> DEFINE r == __c_putchar_at(s, x, y, c)
<1>1. CASE <<x, y>> \in Places
  <2> DEFINE v == [s.video EXCEPT ![<<x, y>>] = c]
  <2>1. s.video \in [Places -> Glyphs] BY ScreenFields
  <2>2. /\ v \in [Places -> Glyphs]
        /\ \A p \in Places : v[p] = IF p = <<x, y>> THEN c ELSE s.video[p]
    BY <1>1, <2>1
  <2>3. r = [s EXCEPT !.video = v] BY <1>1 DEF __c_putchar_at
  <2> HIDE DEF v, r
  <2> QED BY <2>2, <2>3, WithVideo DEF r
<1>2. CASE <<x, y>> \notin Places
  BY <1>2 DEF __c_putchar_at, SameWindow, SameCursor
<1> QED BY <1>1, <1>2

\* What a place shows when blanks were put from x to limit.
Wiped(s, x, limit, y, p) ==
  IF p[1] \in x .. limit /\ p[2] = y THEN " " ELSE s.video[p]

LEMMA ErasedFacts ==
  ASSUME NEW s \in Screens, NEW x \in Int, NEW limit \in Int, NEW y \in Int
  PROVE  LET r == Erased(s, x, limit, y)
         IN  /\ r \in Screens /\ SameWindow(s, r) /\ SameCursor(s, r)
             /\ \A p \in Places : r.video[p] = Wiped(s, x, limit, y, p)
<1> DEFINE r == Erased(s, x, limit, y)
           v == [p \in Places |-> Wiped(s, x, limit, y, p)]
<1>1. v \in [Places -> Glyphs]
  <2>1. \A p \in Places : Wiped(s, x, limit, y, p) \in Glyphs
    BY VideoFacts, Blank DEF Wiped
  <2> QED BY <2>1
<1>2. r = [s EXCEPT !.video = v] BY DEF Erased, Wiped
<1>3. \A p \in Places : v[p] = Wiped(s, x, limit, y, p)
  OBVIOUS
<1> HIDE DEF v, r
<1>4. r \in Screens /\ r.video = v /\ SameWindow(s, r) /\ SameCursor(s, r)
  BY <1>1, <1>2, WithVideo
<1> QED BY <1>3, <1>4 DEF r

LEMMA ClearFacts ==
  ASSUME NEW s \in Screens
  PROVE  /\ c_clearscreen(s) \in Screens
         /\ SameWindow(s, c_clearscreen(s)) /\ SameCursor(s, c_clearscreen(s))
         /\ \A p \in Places : c_clearscreen(s).video[p] = " "
         /\ c_clearscroll(s) \in Screens
         /\ SameWindow(s, c_clearscroll(s)) /\ SameCursor(s, c_clearscroll(s))
         /\ \A p \in Places : c_clearscroll(s).video[p] =
              IF InWindow(s, p) THEN " " ELSE s.video[p]
<1> DEFINE v == [p \in Places |-> " "]
           w == [p \in Places |-> IF InWindow(s, p) THEN " " ELSE s.video[p]]
<1>1. v \in [Places -> Glyphs] /\ w \in [Places -> Glyphs]
  <2>1. \A p \in Places :
          (IF InWindow(s, p) THEN " " ELSE s.video[p]) \in Glyphs
    BY VideoFacts, Blank
  <2> QED BY <2>1, Blank
<1>2. c_clearscreen(s) = [s EXCEPT !.video = v] BY DEF c_clearscreen
<1>3. c_clearscroll(s) = [s EXCEPT !.video = w] BY DEF c_clearscroll
<1>4. \A p \in Places : v[p] = " " /\ w[p] = IF InWindow(s, p) THEN " " ELSE s.video[p]
  OBVIOUS
<1> HIDE DEF v, w
<1>5. /\ c_clearscreen(s) \in Screens /\ c_clearscreen(s).video = v
      /\ SameWindow(s, c_clearscreen(s)) /\ SameCursor(s, c_clearscreen(s))
  BY <1>1, <1>2, WithVideo
<1>6. /\ c_clearscroll(s) \in Screens /\ c_clearscroll(s).video = w
      /\ SameWindow(s, c_clearscroll(s)) /\ SameCursor(s, c_clearscroll(s))
  BY <1>1, <1>3, WithVideo
<1> QED BY <1>4, <1>5, <1>6

\* What a place shows when the lines of the window have moved up.
Lifted(s, p, lines) ==
  IF ~InWindow(s, p) THEN s.video[p]
  ELSE IF p[2] + lines <= s.scroll_max_y
  THEN s.video[<<p[1], p[2] + lines>>] ELSE " "

\* Scrolling moves lines up in the window; when it is scrolled away as a whole,
\* the cursor goes to its first place.
LEMMA ScrollFacts ==
  ASSUME NEW s \in Screens, NEW lines \in Nat
  PROVE  LET r == c_scroll(s, lines)
         IN  /\ r \in Screens /\ SameWindow(s, r)
             /\ \A p \in Places : r.video[p] = Lifted(s, p, lines)
             /\ lines <= s.scroll_max_y - s.scroll_min_y => SameCursor(s, r)
             /\ lines > s.scroll_max_y - s.scroll_min_y =>
                  r.curr_x = s.scroll_min_x /\ r.curr_y = s.scroll_min_y
<1> DEFINE r == c_scroll(s, lines)
           v == [p \in Places |-> Lifted(s, p, lines)]
<1>1. CASE lines > s.scroll_max_y - s.scroll_min_y
  <2> DEFINE k == c_clearscroll(s)
             m == [k EXCEPT !.curr_x = s.scroll_min_x, !.curr_y = s.scroll_min_y]
  <2>1. /\ k \in Screens /\ SameWindow(s, k)
        /\ \A p \in Places : k.video[p] = IF InWindow(s, p) THEN " " ELSE s.video[p]
    BY ClearFacts
  <2>2. r = __c_setcursor(m) BY <1>1 DEF c_scroll
  <2> HIDE DEF k, m, r
  <2> DEFINE left == s.scroll_min_x
             top  == s.scroll_min_y
  <2>3. /\ left \in k.scroll_min_x .. k.scroll_max_x
        /\ top \in k.scroll_min_y .. k.scroll_max_y + 1
        /\ top <= k.scroll_max_y /\ ~(top > k.scroll_max_y)
    <3>1. /\ k.scroll_min_x = s.scroll_min_x /\ k.scroll_max_x = s.scroll_max_x
          /\ k.scroll_min_y = s.scroll_min_y /\ k.scroll_max_y = s.scroll_max_y
      BY <2>1 DEF SameWindow
    <3> QED BY <3>1, ScreenFields
  <2>4. /\ m \in Screens /\ m.video = k.video /\ SameWindow(k, m)
        /\ m.curr_x = s.scroll_min_x /\ m.curr_y = s.scroll_min_y
    <3>1. m = AtPlace(k, left, top) BY DEF m, AtPlace
    <3> HIDE DEF left, top
    <3>2. k \in Screens BY <2>1
    <3>3. /\ m \in Screens /\ m.video = k.video /\ SameWindow(k, m)
          /\ m.curr_x = left /\ m.curr_y = top
      <4>1. top > k.scroll_max_y => left = k.scroll_min_x BY <2>3
      <4>2. left \in Int /\ top \in Int BY ScreenFields DEF left, top
      <4> QED BY <2>3, <3>1, <3>2, <4>1, <4>2, WithCursor
    <3> QED BY <3>3 DEF left, top
  <2>5. /\ r \in Screens /\ r.video = k.video /\ SameWindow(s, r)
        /\ r.curr_x = s.scroll_min_x /\ r.curr_y = s.scroll_min_y
    BY <2>1, <2>2, <2>4, SetCursorFacts DEF SameWindow, SameCursor
  <2>6. ASSUME NEW p \in Places, InWindow(s, p) PROVE ~(p[2] + lines <= s.scroll_max_y)
    BY <1>1, <2>6, PlaceFacts, ScreenFields DEF InWindow
  <2>7. ~(lines <= s.scroll_max_y - s.scroll_min_y) BY <1>1, ScreenFields
  <2>8. \A p \in Places : k.video[p] = Lifted(s, p, lines)
    BY <2>1, <2>6 DEF Lifted
  <2> QED BY <2>5, <2>7, <2>8 DEF r
<1>2. CASE ~(lines > s.scroll_max_y - s.scroll_min_y)
  <2>1. v \in [Places -> Glyphs]
    <3>1. ASSUME NEW p \in Places, InWindow(s, p), p[2] + lines <= s.scroll_max_y
          PROVE  <<p[1], p[2] + lines>> \in Places
      <4>1. p[1] \in Int /\ p[2] \in Int /\ p[1] \in 0 .. max_x /\ p[2] \in 0 .. max_y
        BY PlaceFacts
      <4>2. s.scroll_max_y \in Int /\ s.scroll_max_y <= max_y BY ScreenFields
      <4>3. p[2] + lines \in 0 .. max_y BY <3>1, <4>1, <4>2, Sizes
      <4> QED BY <4>1, <4>3, PlaceFacts
    <3>2. \A p \in Places : Lifted(s, p, lines) \in Glyphs
      BY <3>1, VideoFacts, Blank DEF Lifted
    <3> QED BY <3>2
  <2>2. r = [s EXCEPT !.video = v] BY <1>2 DEF c_scroll, Lifted
  <2>3. \A p \in Places : v[p] = Lifted(s, p, lines)
    OBVIOUS
  <2> HIDE DEF v, r
  <2>4. r \in Screens /\ r.video = v /\ SameWindow(s, r) /\ SameCursor(s, r)
    BY <2>1, <2>2, WithVideo
  <2> QED BY <1>2, <2>3, <2>4 DEF r
<1> QED BY <1>1, <1>2

LEMMA ScrolledFacts ==
  ASSUME NEW s \in Screens
  PROVE  LET r == Scrolled(s)
         IN  /\ r \in Screens /\ SameWindow(s, r)
             /\ r.curr_x = s.curr_x
             /\ r.curr_y = IF s.curr_y > s.scroll_max_y THEN s.scroll_max_y ELSE s.curr_y
             /\ s.curr_y <= s.scroll_max_y => r.video = s.video
             /\ s.curr_y > s.scroll_max_y =>
                  \A p \in Places : r.video[p] = Lifted(s, p, 1)
<1>1. CASE s.curr_y > s.scroll_max_y
  <2> DEFINE lines == s.curr_y - s.scroll_max_y
             k == c_scroll(s, lines)
             r == [k EXCEPT !.curr_y = s.scroll_max_y]
  <2>1. lines = 1 /\ s.curr_x = s.scroll_min_x BY <1>1, ScreenFields
  <2>2. Scrolled(s) = r BY <1>1 DEF Scrolled
  <2> HIDE DEF lines
  <2>3. /\ k \in Screens /\ SameWindow(s, k)
        /\ \A p \in Places : k.video[p] = Lifted(s, p, 1)
        /\ k.curr_x = s.scroll_min_x
    <3>1. 1 \in Nat /\ (1 <= s.scroll_max_y - s.scroll_min_y
                         \/ 1 > s.scroll_max_y - s.scroll_min_y)
      BY ScreenFields
    <3>2. k = c_scroll(s, 1) BY <2>1
    <3> HIDE DEF k
    <3> QED BY <2>1, <3>1, <3>2, ScrollFacts DEF SameCursor
  <2> HIDE DEF k
  <2>4. r = [k EXCEPT !.curr_x = k.curr_x, !.curr_y = s.scroll_max_y]
    BY <2>3 DEF Screens
  <2> DEFINE x == k.curr_x
             y == s.scroll_max_y
  <2>5. /\ x \in k.scroll_min_x .. k.scroll_max_x
        /\ y \in k.scroll_min_y .. k.scroll_max_y + 1
        /\ ~(y > k.scroll_max_y)
    <3>1. /\ k.scroll_min_x = s.scroll_min_x /\ k.scroll_max_x = s.scroll_max_x
          /\ k.scroll_min_y = s.scroll_min_y /\ k.scroll_max_y = s.scroll_max_y
      BY <2>3 DEF SameWindow
    <3>2. x = s.scroll_min_x BY <2>3
    <3>3. /\ s.scroll_min_x \in s.scroll_min_x .. s.scroll_max_x
          /\ y \in s.scroll_min_y .. s.scroll_max_y + 1
          /\ ~(y > s.scroll_max_y)
      BY ScreenFields
    <3> QED BY <3>1, <3>2, <3>3
  <2> HIDE DEF r
  <2>6. /\ r \in Screens /\ r.video = k.video /\ SameWindow(k, r)
        /\ r.curr_x = k.curr_x /\ r.curr_y = s.scroll_max_y
    <3>1. r = AtPlace(k, x, y) BY <2>4 DEF AtPlace
    <3> HIDE DEF x, y
    <3>2. /\ r \in Screens /\ r.video = k.video /\ SameWindow(k, r)
          /\ r.curr_x = x /\ r.curr_y = y
      <4>1. y > k.scroll_max_y => x = k.scroll_min_x BY <2>5
      <4>2. x \in Int /\ y \in Int BY <2>3, ScreenFields DEF x, y
      <4> QED BY <2>3, <2>5, <3>1, <4>1, <4>2, WithCursor
    <3> QED BY <3>2 DEF x, y
  <2>7. ~(s.curr_y <= s.scroll_max_y) BY <1>1, ScreenFields
  <2>8. SameWindow(s, r) BY <2>3, <2>6 DEF SameWindow
  <2>9. r.curr_x = s.curr_x BY <2>1, <2>3, <2>6
  <2>10. r.curr_y = s.scroll_max_y /\ r.video = k.video /\ r \in Screens BY <2>6
  <2>11. \A p \in Places : r.video[p] = Lifted(s, p, 1) BY <2>3, <2>10
  <2>12. r.curr_y = IF s.curr_y > s.scroll_max_y THEN s.scroll_max_y ELSE s.curr_y
    BY <1>1, <2>10
  <2> HIDE DEF k
  <2> QED BY <2>2, <2>7, <2>8, <2>9, <2>10, <2>11, <2>12
<1>2. CASE ~(s.curr_y > s.scroll_max_y)
  BY <1>2 DEF Scrolled, SameWindow
<1> QED BY <1>1, <1>2

\* Where the cursor goes, and what a place shows afterwards.
NextPlace(s, c) ==
  IF c = "\r" THEN <<s.scroll_min_x, s.curr_y>>
  ELSE IF c = "\n" \/ s.curr_x = s.scroll_max_x
  THEN <<s.scroll_min_x, s.curr_y + 1>>
  ELSE <<s.curr_x + 1, s.curr_y>>
Written(s, c, p) ==
  IF c = "\n"
  THEN IF p[1] \in s.curr_x .. s.scroll_max_x /\ p[2] = s.curr_y THEN " "
       ELSE s.video[p]
  ELSE IF c # "\r" /\ p = <<s.curr_x, s.curr_y>> THEN c
  ELSE s.video[p]

LEMMA NextLineFacts ==
  ASSUME NEW s \in Screens, s.curr_y <= s.scroll_max_y
  PROVE  LET r == NextLine(s)
         IN  /\ r \in Screens /\ r.video = s.video /\ SameWindow(s, r)
             /\ r.curr_x = s.scroll_min_x /\ r.curr_y = s.curr_y + 1
<1> DEFINE x == s.scroll_min_x
           y == s.curr_y + 1
<1>1. NextLine(s) = AtPlace(s, x, y) BY DEF NextLine, AtPlace
<1>2. /\ x \in Int /\ y \in Int
      /\ x \in s.scroll_min_x .. s.scroll_max_x
      /\ y \in s.scroll_min_y .. s.scroll_max_y + 1
      /\ y > s.scroll_max_y => x = s.scroll_min_x
  BY ScreenFields
<1> HIDE DEF x, y
<1>3. LET r == AtPlace(s, x, y)
      IN  /\ r \in Screens /\ r.video = s.video /\ SameWindow(s, r)
          /\ r.curr_x = x /\ r.curr_y = y
  BY <1>2, WithCursor
<1> QED BY <1>1, <1>3 DEF x, y

LEMMA PutcharFacts ==
  ASSUME NEW s0 \in Screens, NEW c \in Glyphs
  PROVE  LET s == Scrolled(s0)
             r == c_putchar(s0, c)
         IN  /\ r \in Screens /\ SameWindow(s, r)
             /\ <<r.curr_x, r.curr_y>> = NextPlace(s, c)
             /\ \A p \in Places : r.video[p] = Written(s, c, p)
<1> DEFINE s == Scrolled(s0)
           r == c_putchar(s0, c)
           written == __c_putchar_at(s, s.curr_x, s.curr_y, c)
           erased == Erased(s, s.curr_x, s.scroll_max_x, s.curr_y)
<1>1. /\ s \in Screens /\ s.curr_y <= s.scroll_max_y
      /\ s.curr_x \in Int /\ s.curr_y \in Int /\ s.scroll_max_x \in Int
  <2>1. /\ s \in Screens /\ SameWindow(s0, s)
        /\ s.curr_y = IF s0.curr_y > s0.scroll_max_y THEN s0.scroll_max_y
                      ELSE s0.curr_y
    BY ScrolledFacts
  <2> HIDE DEF s
  <2>2. s.scroll_max_y = s0.scroll_max_y BY <2>1 DEF SameWindow
  <2>3. s.curr_y <= s.scroll_max_y BY <2>1, <2>2, ScreenFields
  <2> QED BY <2>1, <2>3, ScreenFields
<1> HIDE DEF s
<1>2. /\ written \in Screens /\ SameWindow(s, written) /\ SameCursor(s, written)
      /\ \A p \in Places : written.video[p] =
            IF p = <<s.curr_x, s.curr_y>> THEN c ELSE s.video[p]
  BY <1>1, WriteFacts
<1>3. /\ erased \in Screens /\ SameWindow(s, erased) /\ SameCursor(s, erased)
      /\ \A p \in Places :
           erased.video[p] = Wiped(s, s.curr_x, s.scroll_max_x, s.curr_y, p)
  BY <1>1, ErasedFacts
<1> HIDE DEF written, erased
<1> SUFFICES /\ r \in Screens /\ SameWindow(s, r)
             /\ <<r.curr_x, r.curr_y>> = NextPlace(s, c)
             /\ \A p \in Places : r.video[p] = Written(s, c, p)
  BY DEF s
<1>4. ASSUME NEW m \in Screens, r = __c_setcursor(m), SameWindow(s, m),
             <<m.curr_x, m.curr_y>> = NextPlace(s, c),
             \A p \in Places : m.video[p] = Written(s, c, p)
      PROVE  /\ r \in Screens /\ SameWindow(s, r)
             /\ <<r.curr_x, r.curr_y>> = NextPlace(s, c)
             /\ \A p \in Places : r.video[p] = Written(s, c, p)
  <2> HIDE DEF r
  <2>1. r \in Screens /\ r.video = m.video /\ SameWindow(m, r) /\ SameCursor(m, r)
    BY <1>4, SetCursorFacts
  <2> QED BY <1>4, <2>1 DEF SameWindow, SameCursor
<1>5. CASE c = "\n"
  <2> DEFINE m == NextLine(erased)
  <2>1. r = __c_setcursor(m) BY <1>5 DEF c_putchar, s, erased
  <2>2. erased.curr_y <= erased.scroll_max_y
    BY <1>1, <1>3 DEF SameWindow, SameCursor
  <2>3. /\ m \in Screens /\ m.video = erased.video /\ SameWindow(erased, m)
        /\ m.curr_x = erased.scroll_min_x /\ m.curr_y = erased.curr_y + 1
    BY <1>3, <2>2, NextLineFacts
  <2> HIDE DEF m, r
  <2>4. SameWindow(s, m) BY <1>3, <2>3 DEF SameWindow
  <2>5. <<m.curr_x, m.curr_y>> = NextPlace(s, c)
    BY <1>3, <1>5, <2>3 DEF NextPlace, SameWindow, SameCursor
  <2>6. \A p \in Places : m.video[p] = Written(s, c, p)
    BY <1>3, <1>5, <2>3 DEF Written, Wiped
  <2> QED BY <1>4, <2>1, <2>3, <2>4, <2>5, <2>6
<1>6. CASE c = "\r"
  <2> DEFINE m == [s EXCEPT !.curr_x = s.scroll_min_x]
  <2>1. r = __c_setcursor(m) BY <1>6 DEF c_putchar, s
  <2>2. m = AtPlace(s, s.scroll_min_x, s.curr_y) BY <1>1 DEF AtPlace, Screens
  <2> DEFINE x == s.scroll_min_x
             y == s.curr_y
  <2>3. /\ x \in Int /\ y \in Int
        /\ x \in s.scroll_min_x .. s.scroll_max_x
        /\ y \in s.scroll_min_y .. s.scroll_max_y + 1
        /\ y > s.scroll_max_y => x = s.scroll_min_x
    BY <1>1, ScreenFields
  <2> HIDE DEF m, x, y, r
  <2>4. LET k == AtPlace(s, x, y)
        IN  /\ k \in Screens /\ k.video = s.video /\ SameWindow(s, k)
            /\ k.curr_x = x /\ k.curr_y = y
    BY <1>1, <2>3, WithCursor
  <2>5. /\ m \in Screens /\ m.video = s.video /\ SameWindow(s, m)
        /\ m.curr_x = s.scroll_min_x /\ m.curr_y = s.curr_y
    BY <2>2, <2>4 DEF x, y
  <2>6. <<m.curr_x, m.curr_y>> = NextPlace(s, c) BY <1>6, <2>5 DEF NextPlace
  <2>7. \A p \in Places : m.video[p] = Written(s, c, p)
    BY <1>6, <2>5 DEF Written
  <2> QED BY <1>4, <2>1, <2>5, <2>6, <2>7
<1>7. CASE c # "\n" /\ c # "\r" /\ s.curr_x = s.scroll_max_x
  <2> DEFINE m == NextLine(written)
  <2>1. r = __c_setcursor(m) BY <1>1, <1>7 DEF c_putchar, s, written
  <2>2. written.curr_y <= written.scroll_max_y
    BY <1>1, <1>2 DEF SameWindow, SameCursor
  <2>3. /\ m \in Screens /\ m.video = written.video /\ SameWindow(written, m)
        /\ m.curr_x = written.scroll_min_x /\ m.curr_y = written.curr_y + 1
    BY <1>2, <2>2, NextLineFacts
  <2> HIDE DEF m, r
  <2>4. SameWindow(s, m) BY <1>2, <2>3 DEF SameWindow
  <2>5. <<m.curr_x, m.curr_y>> = NextPlace(s, c)
    BY <1>2, <1>7, <2>3 DEF NextPlace, SameWindow, SameCursor
  <2>6. \A p \in Places : m.video[p] = Written(s, c, p)
    BY <1>2, <1>7, <2>3 DEF Written
  <2> QED BY <1>4, <2>1, <2>3, <2>4, <2>5, <2>6
<1>8. CASE c # "\n" /\ c # "\r" /\ s.curr_x # s.scroll_max_x
  <2> DEFINE m == [written EXCEPT !.curr_x = @ + 1]
  <2>1. r = __c_setcursor(m)
    <3>1. ~(s.curr_x + 1 > s.scroll_max_x) BY <1>1, <1>8, ScreenFields
    <3> QED BY <1>8, <3>1 DEF c_putchar, s, written
  <2> DEFINE x == s.curr_x + 1
             y == s.curr_y
  <2>2. m = AtPlace(written, x, y) BY <1>1, <1>2 DEF AtPlace, Screens, SameCursor
  <2>3. /\ x \in Int /\ y \in Int
        /\ x \in written.scroll_min_x .. written.scroll_max_x
        /\ y \in written.scroll_min_y .. written.scroll_max_y + 1
        /\ y > written.scroll_max_y => x = written.scroll_min_x
    <3>1. /\ x \in s.scroll_min_x .. s.scroll_max_x
          /\ y \in s.scroll_min_y .. s.scroll_max_y + 1
          /\ ~(y > s.scroll_max_y)
      BY <1>1, <1>8, ScreenFields
    <3> QED BY <1>1, <1>2, <3>1 DEF SameWindow
  <2> HIDE DEF m, x, y, r
  <2>4. LET k == AtPlace(written, x, y)
        IN  /\ k \in Screens /\ k.video = written.video /\ SameWindow(written, k)
            /\ k.curr_x = x /\ k.curr_y = y
    BY <1>2, <2>3, WithCursor
  <2>5. /\ m \in Screens /\ m.video = written.video /\ SameWindow(s, m)
        /\ m.curr_x = s.curr_x + 1 /\ m.curr_y = s.curr_y
    BY <1>2, <2>2, <2>4 DEF SameWindow, x, y
  <2>6. <<m.curr_x, m.curr_y>> = NextPlace(s, c) BY <1>8, <2>5 DEF NextPlace
  <2>7. \A p \in Places : m.video[p] = Written(s, c, p)
    BY <1>2, <1>8, <2>5 DEF Written
  <2> QED BY <1>4, <2>1, <2>5, <2>6, <2>7
<1> QED BY <1>5, <1>6, <1>7, <1>8

\* A character printed in the window changes nothing outside it.
LEMMA PutcharKeeps ==
  ASSUME NEW s0 \in Screens, NEW c \in Glyphs
  PROVE  LET r == c_putchar(s0, c)
         IN  /\ r \in Screens /\ SameWindow(s0, r)
             /\ KeptIn(Places \ Inside(s0), s0, r)
<1> DEFINE s == Scrolled(s0)
           r == c_putchar(s0, c)
<1>1. /\ s \in Screens /\ SameWindow(s0, s)
      /\ s.curr_x = s0.curr_x
      /\ s.curr_y = IF s0.curr_y > s0.scroll_max_y THEN s0.scroll_max_y
                    ELSE s0.curr_y
      /\ s0.curr_y <= s0.scroll_max_y => s.video = s0.video
      /\ s0.curr_y > s0.scroll_max_y =>
           \A p \in Places : s.video[p] = Lifted(s0, p, 1)
  BY ScrolledFacts
<1>2. /\ r \in Screens /\ SameWindow(s, r)
      /\ \A p \in Places : r.video[p] = Written(s, c, p)
  BY PutcharFacts
<1> HIDE DEF s, r
<1>3. SameWindow(s0, r) BY <1>1, <1>2 DEF SameWindow
<1>4. ASSUME NEW p \in Places, ~InWindow(s0, p) PROVE r.video[p] = s0.video[p]
  <2>1. s.video[p] = s0.video[p]
    <3>1. CASE s0.curr_y > s0.scroll_max_y BY <1>1, <1>4, <3>1 DEF Lifted
    <3>2. CASE ~(s0.curr_y > s0.scroll_max_y) BY <1>1, <3>2, ScreenFields
    <3> QED BY <3>1, <3>2
  <2>2. /\ s0.curr_x >= s0.scroll_min_x /\ s0.curr_x <= s0.scroll_max_x
        /\ s.curr_y >= s0.scroll_min_y /\ s.curr_y <= s0.scroll_max_y
    <3>1. s.curr_y <= s0.scroll_max_y /\ s.curr_y >= s0.scroll_min_y
      BY <1>1, ScreenFields
    <3> QED BY <3>1, ScreenFields
  <2>3. ~(p[1] \in s.curr_x .. s.scroll_max_x /\ p[2] = s.curr_y)
    <3>1. SUFFICES ASSUME p[1] \in s0.curr_x .. s0.scroll_max_x, p[2] = s.curr_y
                   PROVE  FALSE
      BY <1>1 DEF SameWindow
    <3>2. p[1] \in s0.scroll_min_x .. s0.scroll_max_x
      BY <2>2, <3>1, ScreenFields, PlaceFacts
    <3>3. p[2] \in s0.scroll_min_y .. s0.scroll_max_y
      BY <2>2, <3>1, ScreenFields, PlaceFacts
    <3> QED BY <1>4, <3>2, <3>3 DEF InWindow
  <2>4. p # <<s.curr_x, s.curr_y>>
    <3>1. SUFFICES ASSUME p = <<s.curr_x, s.curr_y>> PROVE FALSE
      OBVIOUS
    <3>2. p[1] = s0.curr_x /\ p[2] = s.curr_y BY <1>1, <3>1
    <3>3. p[1] \in s0.scroll_min_x .. s0.scroll_max_x
      BY <2>2, <3>2, ScreenFields, PlaceFacts
    <3>4. p[2] \in s0.scroll_min_y .. s0.scroll_max_y
      BY <2>2, <3>2, ScreenFields, PlaceFacts
    <3> QED BY <1>4, <3>3, <3>4 DEF InWindow
  <2> QED BY <1>2, <2>1, <2>3, <2>4 DEF Written
<1>5. KeptIn(Places \ Inside(s0), s0, r) BY <1>4 DEF KeptIn, Inside
<1> QED BY <1>2, <1>3, <1>5 DEF r

\* What printing in the window of s may make of the screen.
LeavesOutside(s) ==
  {r \in Screens : SameWindow(s, r) /\ KeptIn(Places \ Inside(s), s, r)}

LEMMA PutsFacts ==
  ASSUME NEW s \in Screens, NEW str \in Seq(Glyphs)
  PROVE  /\ c_puts(s, str) \in LeavesOutside(s)
         /\ \E after \in [0 .. Len(str) -> Screens] :
              /\ after[0] = s /\ c_puts(s, str) = after[Len(str)]
              /\ \A n \in 1 .. Len(str) : after[n] = c_putchar(after[n - 1], str[n])
<1> DEFINE N == Len(str)
           step == [n \in 1 .. N |-> [r \in Screens |-> c_putchar(r, str[n])]]
           Is(after) == after = [n \in 0 .. N |-> IF n = 0 THEN s
                                       ELSE c_putchar(after[n - 1], str[n])]
<1>1. N \in Nat /\ \A n \in 1 .. N : str[n] \in Glyphs OBVIOUS
<1>2. step \in [1 .. N -> [Screens -> Screens]]
  <2>1. \A n \in 1 .. N : \A r \in Screens : c_putchar(r, str[n]) \in Screens
    BY <1>1, PutcharKeeps
  <2> QED BY <2>1
<1> HIDE DEF N
<1>3. PICK f \in [0 .. N -> Screens] :
        Repeats(f, s, step, N)
  <2> HIDE DEF step
  <2>1. N \in Nat /\ s \in Screens BY <1>1
  <2> QED BY <1>2, <2>1, Repetition
<1>4. ASSUME NEW n \in 1 .. N PROVE /\ n - 1 \in 0 .. N /\ f[n - 1] \in Screens
                                    /\ f[n] = c_putchar(f[n - 1], str[n])
  <2>1. n - 1 \in 0 .. N BY <1>1
  <2>2. f[n] = step[n][f[n - 1]] BY <1>3 DEF Repeats
  <2> QED BY <1>3, <2>1, <2>2
<1> HIDE DEF step
<1>5. Is(f)
  <2>1. \A n \in 0 .. N : n = 0 \/ n \in 1 .. N BY <1>1
  <2>2. \A n \in 0 .. N : f[n] = IF n = 0 THEN s ELSE c_putchar(f[n - 1], str[n])
    BY <1>3, <1>4, <2>1 DEF Repeats
  <2> QED BY <2>2
<1> DEFINE after == CHOOSE after : Is(after)
<1>6. Is(after) BY <1>5
<1>7. c_puts(s, str) = after[N] BY DEF c_puts, N
<1> HIDE DEF after
<1>8. after[0] = s /\ \A n \in 1 .. N : after[n] = c_putchar(after[n - 1], str[n])
  BY <1>1, <1>6
<1>9. \A n \in 0 .. N : after[n] \in LeavesOutside(s)
  <2>1. s \in LeavesOutside(s) BY DEF LeavesOutside, SameWindow, KeptIn
  <2>2. ASSUME NEW n \in 1 .. N, after[n - 1] \in LeavesOutside(s)
        PROVE  after[n] \in LeavesOutside(s)
    <3> DEFINE q == after[n - 1]
    <3>1. q \in Screens /\ SameWindow(s, q) /\ KeptIn(Places \ Inside(s), s, q)
      BY <2>2 DEF LeavesOutside
    <3>2. after[n] = c_putchar(q, str[n]) BY <1>8
    <3> HIDE DEF q
    <3>3. /\ after[n] \in Screens /\ SameWindow(q, after[n])
          /\ KeptIn(Places \ Inside(q), q, after[n])
      BY <1>1, <3>1, <3>2, PutcharKeeps
    <3>4. Inside(q) = Inside(s) BY <3>1 DEF Inside, InWindow, SameWindow
    <3>5. SameWindow(s, after[n]) BY <3>1, <3>3 DEF SameWindow
    <3>6. KeptIn(Places \ Inside(s), s, after[n])
      BY <3>1, <3>3, <3>4 DEF KeptIn
    <3> QED BY <3>3, <3>5, <3>6 DEF LeavesOutside
  <2> HIDE DEF Is
  <2> QED BY <1>1, <1>8, <2>1, <2>2, StepInduction
<1>10. after \in [0 .. N -> Screens]
  <2>1. \A n \in 0 .. N : after[n] \in Screens BY <1>9 DEF LeavesOutside
  <2>2. after = [n \in 0 .. N |-> after[n]] BY <1>6
  <2> QED BY <2>1, <2>2
<1>11. N \in 0 .. N BY <1>1
<1> QED BY <1>7, <1>8, <1>9, <1>10, <1>11 DEF N

\* A character printed at a place stays in its line, and on its side of the
\* window's edges.
LEMMA PutcharAtFacts ==
  ASSUME NEW s \in Screens, NEW x \in Int, NEW y \in Int, NEW c \in Glyphs
  PROVE  LET r == c_putchar_at(s, x, y, c)
         IN  /\ r \in Screens /\ SameWindow(s, r) /\ SameCursor(s, r)
             /\ \A p \in Places : p[2] # y => r.video[p] = s.video[p]
             /\ <<x, y>> \in Inside(s) => KeptIn(Places \ Inside(s), s, r)
             /\ <<x, y>> \notin Inside(s) => KeptIn(Inside(s), s, r)
<1> DEFINE r == c_putchar_at(s, x, y, c)
<1>1. CASE c = "\n"
  <2> DEFINE limit == CASE x > s.scroll_max_x  -> max_x
                        [] x \in s.scroll_min_x .. s.scroll_max_x ->
                             s.scroll_max_x
                        [] x < s.scroll_min_x  -> s.scroll_min_x - 1
  <2>1. /\ limit \in Int
        /\ x > s.scroll_max_x => limit = max_x
        /\ x \in s.scroll_min_x .. s.scroll_max_x => limit = s.scroll_max_x
        /\ x < s.scroll_min_x => limit = s.scroll_min_x - 1
    <3>1. x > s.scroll_max_x \/ x \in s.scroll_min_x .. s.scroll_max_x
            \/ x < s.scroll_min_x
      BY ScreenFields
    <3>2. ~(x > s.scroll_max_x /\ x \in s.scroll_min_x .. s.scroll_max_x)
          /\ ~(x > s.scroll_max_x /\ x < s.scroll_min_x)
          /\ ~(x \in s.scroll_min_x .. s.scroll_max_x /\ x < s.scroll_min_x)
      BY ScreenFields
    <3>3. max_x \in Int /\ s.scroll_max_x \in Int /\ s.scroll_min_x - 1 \in Int
      BY ScreenFields, Sizes
    <3> QED BY <3>1, <3>2, <3>3
  <2>2. r = Erased(s, x, limit, y) BY <1>1 DEF c_putchar_at
  <2> HIDE DEF limit
  <2>3. /\ Erased(s, x, limit, y) \in Screens /\ SameWindow(s, Erased(s, x, limit, y))
        /\ SameCursor(s, Erased(s, x, limit, y))
        /\ \A p \in Places : Erased(s, x, limit, y).video[p] = Wiped(s, x, limit, y, p)
    BY <2>1, ErasedFacts
  <2> HIDE DEF r
  <2>4. /\ r \in Screens /\ SameWindow(s, r) /\ SameCursor(s, r)
        /\ \A p \in Places : r.video[p] = Wiped(s, x, limit, y, p)
    BY <2>2, <2>3
  <2>5. \A p \in Places : p[2] # y => r.video[p] = s.video[p]
    BY <2>4 DEF Wiped
  <2>6. ASSUME <<x, y>> \in Inside(s), NEW p \in Places \ Inside(s)
        PROVE  r.video[p] = s.video[p]
    <3>1. x \in s.scroll_min_x .. s.scroll_max_x /\ y \in s.scroll_min_y .. s.scroll_max_y
      BY <2>6 DEF Inside, InWindow
    <3>2. ~InWindow(s, p) BY <2>6 DEF Inside
    <3>3. ~(p[1] \in x .. limit /\ p[2] = y)
      BY <2>1, <3>1, <3>2, ScreenFields, PlaceFacts DEF InWindow
    <3> QED BY <2>4, <3>3 DEF Wiped
  <2>7. ASSUME <<x, y>> \notin Inside(s), NEW p \in Inside(s)
        PROVE  r.video[p] = s.video[p]
    <3>1. ~(x \in s.scroll_min_x .. s.scroll_max_x /\ y \in s.scroll_min_y .. s.scroll_max_y)
      <4>1. x \in s.scroll_min_x .. s.scroll_max_x /\ y \in s.scroll_min_y .. s.scroll_max_y
              => <<x, y>> \in Places
        BY ScreenFields, PlaceFacts, Sizes
      <4> QED BY <2>7, <4>1 DEF Inside, InWindow
    <3>2. InWindow(s, p) /\ p \in Places BY <2>7 DEF Inside
    <3>3. ~(p[1] \in x .. limit /\ p[2] = y)
      BY <2>1, <3>1, <3>2, ScreenFields, PlaceFacts DEF InWindow
    <3> QED BY <2>4, <3>2, <3>3 DEF Wiped
  <2>8. /\ <<x, y>> \in Inside(s) => KeptIn(Places \ Inside(s), s, r)
        /\ <<x, y>> \notin Inside(s) => KeptIn(Inside(s), s, r)
    BY <2>6, <2>7 DEF KeptIn
  <2> QED BY <2>4, <2>5, <2>8 DEF r
<1>2. CASE c # "\n"
  <2>1. r = __c_putchar_at(s, x, y, c) BY <1>2 DEF c_putchar_at
  <2> HIDE DEF r
  <2>2. /\ r \in Screens /\ SameWindow(s, r) /\ SameCursor(s, r)
        /\ \A p \in Places : r.video[p] = IF p = <<x, y>> THEN c ELSE s.video[p]
    BY <2>1, WriteFacts
  <2>3. \A p \in Places : p[2] # y => p # <<x, y>> OBVIOUS
  <2>4. \A p \in Places : p[2] # y => r.video[p] = s.video[p] BY <2>2, <2>3
  <2>5. /\ <<x, y>> \in Inside(s) => KeptIn(Places \ Inside(s), s, r)
        /\ <<x, y>> \notin Inside(s) => KeptIn(Inside(s), s, r)
    BY <2>2 DEF KeptIn, Inside
  <2> QED BY <2>2, <2>4, <2>5 DEF r
<1> QED BY <1>1, <1>2

\* What printing at places of lines other than those may make of the screen.
LeavesLines(s, rows) ==
  {r \in Screens : /\ SameWindow(s, r) /\ SameCursor(s, r)
                   /\ \A p \in Places : p[2] \in rows => r.video[p] = s.video[p]}

LEMMA PutsAtFacts ==
  ASSUME NEW s \in Screens, NEW x \in Int, NEW y \in Int, NEW str \in Seq(Glyphs)
  PROVE  c_puts_at(s, x, y, str) \in LeavesLines(s, Int \ {y})
<1> DEFINE N == Len(str)
           next(r, n) == IF x + n - 1 > max_x THEN r
                         ELSE c_putchar_at(r, x + n - 1, y, str[n])
           step == [n \in 1 .. N |-> [r \in Screens |-> next(r, n)]]
           Is(after) == after = [n \in 0 .. N |-> IF n = 0 THEN s
                                   ELSE IF x + n - 1 > max_x THEN after[n - 1]
                                   ELSE c_putchar_at(after[n - 1], x + n - 1, y, str[n])]
<1>1. N \in Nat /\ \A n \in 1 .. N : str[n] \in Glyphs /\ x + n - 1 \in Int OBVIOUS
<1>2. ASSUME NEW n \in 1 .. N, NEW r \in Screens
      PROVE  /\ next(r, n) \in Screens /\ SameWindow(r, next(r, n))
             /\ SameCursor(r, next(r, n))
             /\ \A p \in Places : p[2] # y => next(r, n).video[p] = r.video[p]
  <2>1. CASE x + n - 1 > max_x BY <2>1 DEF SameWindow, SameCursor
  <2>2. CASE ~(x + n - 1 > max_x)
    <3> DEFINE at == x + n - 1
               c == str[n]
               k == c_putchar_at(r, at, y, c)
    <3>1. next(r, n) = k BY <2>2
    <3>2. at \in Int /\ c \in Glyphs BY <1>1
    <3> HIDE DEF next, at, c
    <3>3. /\ k \in Screens /\ SameWindow(r, k) /\ SameCursor(r, k)
          /\ \A p \in Places : p[2] # y => k.video[p] = r.video[p]
      BY <3>2, PutcharAtFacts
    <3> HIDE DEF k
    <3> QED BY <3>1, <3>3
  <2> QED BY <2>1, <2>2
<1>3. step \in [1 .. N -> [Screens -> Screens]]
  <2> HIDE DEF next, N
  <2> QED BY <1>2
<1>4. PICK f \in [0 .. N -> Screens] : Repeats(f, s, step, N)
  <2> HIDE DEF step, N
  <2>1. N \in Nat /\ s \in Screens BY <1>1
  <2> QED BY <1>3, <2>1, Repetition
<1> HIDE DEF N
<1>5. ASSUME NEW n \in 1 .. N PROVE f[n] = next(f[n - 1], n)
  <2>1. n - 1 \in 0 .. N /\ f[n - 1] \in Screens BY <1>1
  <2>2. f[n] = step[n][f[n - 1]] BY <1>4 DEF Repeats
  <2> HIDE DEF next
  <2> QED BY <2>1, <2>2
<1> HIDE DEF step
<1>6. Is(f)
  <2>1. \A n \in 0 .. N : n = 0 \/ n \in 1 .. N BY <1>1
  <2>2. \A n \in 0 .. N : f[n] = IF n = 0 THEN s ELSE next(f[n - 1], n)
    <3> HIDE DEF next
    <3> QED BY <1>4, <1>5, <2>1 DEF Repeats
  <2>3. f = [n \in 0 .. N |-> f[n]] OBVIOUS
  <2> QED BY <2>2, <2>3
<1> DEFINE after == CHOOSE after : Is(after)
<1>7. Is(after) BY <1>6
<1>8. c_puts_at(s, x, y, str) = after[N] BY DEF c_puts_at, N
<1> HIDE DEF after
<1>9. after[0] = s /\ \A n \in 1 .. N : after[n] = next(after[n - 1], n)
  BY <1>1, <1>7
<1>10. \A n \in 0 .. N : after[n] \in LeavesLines(s, Int \ {y})
  <2>1. s \in LeavesLines(s, Int \ {y}) BY DEF LeavesLines, SameWindow, SameCursor
  <2>2. ASSUME NEW n \in 1 .. N, after[n - 1] \in LeavesLines(s, Int \ {y})
        PROVE  after[n] \in LeavesLines(s, Int \ {y})
    <3> DEFINE q == after[n - 1]
    <3>1. /\ q \in Screens /\ SameWindow(s, q) /\ SameCursor(s, q)
          /\ \A p \in Places : p[2] # y => q.video[p] = s.video[p]
      BY <2>2, PlaceFacts DEF LeavesLines
    <3>2. after[n] = next(q, n) BY <1>9
    <3> HIDE DEF q, next, Is
    <3>3. /\ after[n] \in Screens /\ SameWindow(q, after[n]) /\ SameCursor(q, after[n])
          /\ \A p \in Places : p[2] # y => after[n].video[p] = q.video[p]
      BY <1>2, <3>1, <3>2
    <3> QED BY <3>1, <3>3 DEF LeavesLines, SameWindow, SameCursor
  <2> HIDE DEF Is, next
  <2> QED BY <1>1, <1>9, <2>1, <2>2, StepInduction
<1>11. N \in 0 .. N BY <1>1
<1> QED BY <1>8, <1>10, <1>11

LEMMA StringsAreGlyphs ==
  /\ STRING \subseteq Glyphs /\ Codes \subseteq Glyphs
  /\ \A str \in Seq(STRING) : str \in Seq(Glyphs)
  /\ \A strs \in Seq(Seq(STRING)) : \A n \in 1 .. Len(strs) : strs[n] \in Seq(Glyphs)
<1>1. STRING \subseteq Glyphs /\ Codes \subseteq Glyphs BY DEF Glyphs
<1>2. \A S, T : S \subseteq T => \A str \in Seq(S) : str \in Seq(T)
  <2>1. ASSUME NEW S, NEW T, S \subseteq T, NEW str \in Seq(S)
        PROVE  str \in Seq(T)
    <3>1. str \in [1 .. Len(str) -> S] /\ Len(str) \in Nat OBVIOUS
    <3>2. str \in [1 .. Len(str) -> T] BY <2>1, <3>1
    <3>3. \A m \in Nat : \A g \in [1 .. m -> T] : g \in Seq(T) OBVIOUS
    <3> QED BY <3>1, <3>2, <3>3
  <2> QED BY <2>1
<1>3. \A str \in Seq(STRING) : str \in Seq(Glyphs) BY <1>1, <1>2
<1>4. ASSUME NEW strs \in Seq(Seq(STRING)), NEW n \in 1 .. Len(strs)
      PROVE  strs[n] \in Seq(Glyphs)
  <2>1. \A S : \A t \in Seq(S) : \A i \in 1 .. Len(t) : t[i] \in S OBVIOUS
  <2>2. strs[n] \in Seq(STRING) BY <2>1
  <2> QED BY <1>3, <2>2
<1> QED BY <1>1, <1>3, <1>4

LEMMA PrintfAtFacts ==
  ASSUME NEW s \in Screens, NEW x \in Int, NEW y \in Int, NEW fmt, NEW args,
         Pieces(fmt, args) \in Seq(Seq(STRING))
  PROVE  c_printf_at(s, x, y, fmt, args) \in Screens
<1> DEFINE X == [screen : Screens, x : Int, y : Int]
           pieces == Pieces(fmt, args)
           N == Len(pieces)
           Is(n, c) == fmt[n].type = "plain" /\ fmt[n].ch = c
           next(p, n) ==
             [screen |-> c_puts_at(p.screen, p.x, p.y, pieces[n]),
              x |-> IF Is(n, "\n") \/ Is(n, "\r") THEN s.scroll_min_x
                    ELSE p.x + Len(pieces[n]),
              y |-> IF Is(n, "\n") THEN p.y + 1 ELSE p.y]
           first == [screen |-> s, x |-> x, y |-> y]
           step == [n \in 1 .. N |-> [p \in X |-> next(p, n)]]
           Fits(after) == after = [n \in 0 .. N |-> IF n = 0 THEN first
                                              ELSE next(after[n - 1], n)]
<1>1. N \in Nat /\ \A n \in 1 .. N : pieces[n] \in Seq(Glyphs) /\ Len(pieces[n]) \in Nat
  <2>1. \A n \in 1 .. N : pieces[n] \in Seq(Glyphs) BY StringsAreGlyphs
  <2>2. N \in Nat OBVIOUS
  <2> HIDE DEF pieces, N
  <2>3. \A str \in Seq(Glyphs) : Len(str) \in Nat OBVIOUS
  <2> QED BY <2>1, <2>2, <2>3
<1> HIDE DEF pieces, N
<1>2. ASSUME NEW n \in 1 .. N, NEW p \in X PROVE next(p, n) \in X
  <2>1. p.screen \in Screens /\ p.x \in Int /\ p.y \in Int OBVIOUS
  <2>2. c_puts_at(p.screen, p.x, p.y, pieces[n]) \in Screens
    BY <1>1, <2>1, PutsAtFacts DEF LeavesLines
  <2>3. s.scroll_min_x \in Int BY ScreenFields
  <2> HIDE DEF Is
  <2>4. (IF Is(n, "\n") \/ Is(n, "\r") THEN s.scroll_min_x
         ELSE p.x + Len(pieces[n])) \in Int
    BY <1>1, <2>1, <2>3
  <2>5. (IF Is(n, "\n") THEN p.y + 1 ELSE p.y) \in Int BY <2>1
  <2> QED BY <2>2, <2>4, <2>5
<1>3. first \in X OBVIOUS
<1> HIDE DEF X, next, first
<1>4. step \in [1 .. N -> [X -> X]] BY <1>2
<1>5. PICK f \in [0 .. N -> X] : Repeats(f, first, step, N)
  <2> HIDE DEF step
  <2> QED BY <1>1, <1>3, <1>4, Repetition
<1>6. ASSUME NEW n \in 1 .. N PROVE f[n] = next(f[n - 1], n)
  <2>1. n - 1 \in 0 .. N /\ f[n - 1] \in X BY <1>1
  <2>2. f[n] = step[n][f[n - 1]] BY <1>5 DEF Repeats
  <2> QED BY <2>1, <2>2
<1>7. Fits(f)
  <2> HIDE DEF step
  <2>1. \A n \in 0 .. N : n = 0 \/ n \in 1 .. N BY <1>1
  <2>2. \A n \in 0 .. N : f[n] = IF n = 0 THEN first ELSE next(f[n - 1], n)
    BY <1>5, <1>6, <2>1 DEF Repeats
  <2>3. f = [n \in 0 .. N |-> f[n]] OBVIOUS
  <2> QED BY <2>2, <2>3
<1> DEFINE after == CHOOSE after : Fits(after)
<1>8. Fits(after) BY <1>7
<1>9. c_printf_at(s, x, y, fmt, args) = after[N].screen
  BY DEF c_printf_at, N, pieces, next, first
<1> HIDE DEF after, step
<1>10. after[0] = first /\ \A n \in 1 .. N : after[n] = next(after[n - 1], n)
  BY <1>1, <1>8
<1> HIDE DEF Fits
<1>11. \A n \in 0 .. N : after[n] \in X
  <2>1. after[0] \in X BY <1>3, <1>10
  <2>2. \A n \in 1 .. N : after[n - 1] \in X => after[n] \in X BY <1>2, <1>10
  <2> QED BY <1>1, <2>1, <2>2, StepInduction
<1>12. after[N] \in X BY <1>1, <1>11
<1>13. \A p \in X : p.screen \in Screens BY DEF X
<1> QED BY <1>9, <1>12, <1>13

\* The routines that move the window or the cursor.
LEMMA SetscrollFacts ==
  ASSUME NEW s \in Screens, NEW left \in Int, NEW top \in Int,
         NEW right \in Int, NEW bottom \in Int
  PROVE  LET r == c_setscroll(s, left, top, right, bottom)
         IN  /\ r \in Screens /\ r.video = s.video
             /\ r.scroll_min_y = bound(min_y, top, max_y)
             /\ r.curr_x = r.scroll_min_x /\ r.curr_y = r.scroll_min_y
<1> DEFINE a == bound(min_x, left, max_x)
           b == bound(min_y, top, max_y)
           c == bound(a, right, max_x)
           d == bound(b, bottom, max_y)
           m == [s EXCEPT !.scroll_min_x = a, !.scroll_min_y = b,
                          !.scroll_max_x = c, !.scroll_max_y = d,
                          !.curr_x = a, !.curr_y = b]
           r == c_setscroll(s, left, top, right, bottom)
<1>1. /\ a \in Int /\ a \in 0 .. max_x /\ b \in Int /\ b \in 0 .. max_y
  BY Sizes, BoundFacts
<1>2. c \in Int /\ c \in a .. max_x /\ d \in Int /\ d \in b .. max_y
  <2> HIDE DEF a, b
  <2> QED BY <1>1, Sizes, BoundFacts
<1>3. r = __c_setcursor(m) BY DEF c_setscroll
<1> HIDE DEF a, b, c, d, r
<1>4. /\ m.video = s.video /\ m.scroll_min_x = a /\ m.scroll_min_y = b
      /\ m.scroll_max_x = c /\ m.scroll_max_y = d /\ m.curr_x = a /\ m.curr_y = b
  BY DEF Screens
<1>5. m \in [video : [Places -> Glyphs],
             scroll_min_x : Int, scroll_min_y : Int,
             scroll_max_x : Int, scroll_max_y : Int,
             curr_x : Int, curr_y : Int, cursor : Int \X Int]
  BY <1>1, <1>2 DEF Screens
<1> HIDE DEF m
<1>6. m \in Screens
  <2>1. /\ min_x <= a /\ a <= c /\ c <= max_x /\ min_y <= b /\ b <= d /\ d <= max_y
        /\ a \in a .. c /\ b \in b .. d + 1 /\ ~(b > d)
    BY <1>1, <1>2, Sizes
  <2> QED BY <1>4, <1>5, <2>1 DEF Screens
<1>7. r \in Screens /\ r.video = m.video /\ SameWindow(m, r) /\ SameCursor(m, r)
  BY <1>3, <1>6, SetCursorFacts
<1> QED BY <1>4, <1>7 DEF SameWindow, SameCursor, r, b

LEMMA MovetoFacts ==
  ASSUME NEW s \in Screens, NEW x \in Int, NEW y \in Int
  PROVE  c_moveto(s, x, y) \in Screens
<1> DEFINE a == bound(s.scroll_min_x, x + s.scroll_min_x, s.scroll_max_x)
           b == bound(s.scroll_min_y, y + s.scroll_min_y, s.scroll_max_y)
<1>1. /\ a \in Int /\ a \in s.scroll_min_x .. s.scroll_max_x
      /\ b \in Int /\ b \in s.scroll_min_y .. s.scroll_max_y
  <2>1. \A l, m, v \in Int : l <= m => bound(l, v, m) \in Int /\ bound(l, v, m) \in l .. m
    BY BoundFacts
  <2> DEFINE u == x + s.scroll_min_x
             v == y + s.scroll_min_y
  <2>2. u \in Int /\ v \in Int BY ScreenFields
  <2> HIDE DEF u, v
  <2>3. /\ bound(s.scroll_min_x, u, s.scroll_max_x) \in Int
        /\ bound(s.scroll_min_x, u, s.scroll_max_x) \in s.scroll_min_x .. s.scroll_max_x
        /\ bound(s.scroll_min_y, v, s.scroll_max_y) \in Int
        /\ bound(s.scroll_min_y, v, s.scroll_max_y) \in s.scroll_min_y .. s.scroll_max_y
    BY <2>1, <2>2, ScreenFields
  <2> QED BY <2>3 DEF u, v
<1>2. c_moveto(s, x, y) = __c_setcursor(AtPlace(s, a, b)) BY DEF c_moveto, AtPlace
<1> HIDE DEF a, b
<1>3. b \in s.scroll_min_y .. s.scroll_max_y + 1 /\ ~(b > s.scroll_max_y)
  BY <1>1, ScreenFields
<1>4. AtPlace(s, a, b) \in Screens BY <1>1, <1>3, WithCursor
<1> QED BY <1>2, <1>4, SetCursorFacts

LEMMA IoInitFacts ==
  ASSUME NEW video \in [Places -> Glyphs]
  PROVE  c_io_init(video) \in Screens
<1> DEFINE m == [video |-> video, scroll_min_x |-> min_x, scroll_min_y |-> min_y,
                 scroll_max_x |-> max_x, scroll_max_y |-> max_y,
                 curr_x |-> min_x, curr_y |-> min_y, cursor |-> <<min_x, min_y>>]
<1>1. m \in Screens BY Sizes DEF Screens
<1>2. c_io_init(video) = __c_setcursor(m) BY DEF c_io_init
<1> HIDE DEF m
<1> QED BY <1>1, <1>2, SetCursorFacts

-----------------------------------------------------------------------------
(* The screen and the keyboard in every state *)

Keyboards ==
  [data : Keys \cup {NoCode}, shift : BOOLEAN, ctrl : BOOLEAN,
   buffer : [0 .. C_BUFSIZE - 1 -> Codes],
   next_char : 0 .. C_BUFSIZE - 1, next_space : 0 .. C_BUFSIZE - 1]
Readers ==
  [pc : {"idle", "wait", "fetch", "advance", "echo"}, c : Codes,
   gets : BOOLEAN, size : Nat, line : Seq(Codes)]

CTypeOK ==
  /\ program \in DOMAIN Uses
  /\ screen \in Screens
  /\ keyboard \in Keyboards
  /\ reader \in Readers

\* printf of one field: an int in any of the conversions, or a string.
Printed(item, arg) ==
  /\ AsDocumented(item, <<arg>>, __do_printf(<<item>>, <<arg>>))
  /\ __do_printf(<<item>>, <<arg>>) \in Seq(Glyphs)

LEMMA ShortestPrinted ==
  ASSUME NEW item, item.type \in {"d", "x", "o"}, item.pad \in STRING,
         item.width \in Nat, NEW v, NEW numeral, Shortest(numeral),
         Converted(item, <<v>>, 0) = numeral,
         item.type = "d" =>
           /\ Number(Unsigned(numeral), 10, 0, -1) = IF v < 0 THEN v ELSE -v
           /\ Unsigned(numeral) # numeral <=> v < 0,
         item.type = "x" =>
           /\ v < 0 => Len(Unsigned(numeral)) = 8
           /\ Number(Unsigned(numeral), 16, IF v < 0 THEN -1 ELSE 0, 1) = v,
         item.type = "o" =>
           /\ v < 0 => Len(Unsigned(numeral)) = 11
           /\ Number(Unsigned(numeral), 8, IF v < 0 THEN -1 ELSE 0, 1) = v
  PROVE  Printed(item, v)
<1> DEFINE missing == Max({0, item.width - Len(numeral)})
           padding == [i \in 1 .. missing |-> item.pad]
           out == __do_printf(<<item>>, <<v>>)
           digits == Unsigned(numeral)
<1>1. /\ numeral \in Seq(Glyphs) /\ item.pad \in Glyphs
  <2>1. Digits \cup {"-"} \subseteq Glyphs BY DEF Glyphs
  <2>2. numeral \in Seq(Digits \cup {"-"}) BY DEF Shortest
  <2>3. item.pad \in Glyphs BY DEF Glyphs
  <2> QED BY <2>1, <2>2, <2>3, SeqMonotonic
<1>2. item.type # "plain" OBVIOUS
<1>3. /\ out = IF item.left THEN numeral \o padding ELSE padding \o numeral
      /\ out \in Seq(Glyphs)
  BY <1>1, <1>2, OneField
<1>4. Len(numeral) < 12 /\ digits \in Seq(Digits) /\ (digits[1] # "0" \/ Len(digits) = 1)
  BY DEF Shortest
<1>5. Range(digits) \subseteq Range(hexdigits)
  <2>1. DOMAIN digits = 1 .. Len(digits) /\ \A i \in 1 .. Len(digits) : digits[i] \in Digits
    BY <1>4, LenProperties, ElementOfSeq
  <2>2. \A i \in DOMAIN digits : digits[i] \in Range(hexdigits) BY <2>1, DigitFacts
  <2>3. Range(digits) = {digits[i] : i \in DOMAIN digits} BY DEF Range
  <2> QED BY <2>2, <2>3
<1>6. digits = IF numeral[1] = "-" THEN Tail(numeral) ELSE numeral BY DEF Unsigned
<1>7. <<v>>[1] = v OBVIOUS
<1>8. /\ item.type = "x" => /\ v < 0 => Len(digits) = 8
                           /\ Number(digits, 16, IF v < 0 THEN -1 ELSE 0, 1) = v
      /\ item.type = "o" => /\ v < 0 => Len(digits) = 11
                           /\ Number(digits, 8, IF v < 0 THEN -1 ELSE 0, 1) = v
  OBVIOUS
<1>9. item.type = "d" =>
        /\ Number(digits, 10, 0, -1) = IF v < 0 THEN v ELSE -v
        /\ digits # numeral <=> v < 0
  OBVIOUS
<1> HIDE DEF out, digits
<1>10. AsDocumented(item, <<v>>, out)
  BY <1>3, <1>4, <1>5, <1>6, <1>7, <1>8, <1>9 DEF AsDocumented
<1> QED BY <1>3, <1>10 DEF Printed, out

LEMMA TextPrinted ==
  ASSUME NEW item, item.type \in {"c", "s"}, item.pad \in STRING, item.width \in Nat,
         NEW arg, NEW str \in Seq(Glyphs), Converted(item, <<arg>>, 0) = str
  PROVE  Printed(item, arg)
<1> DEFINE missing == Max({0, item.width - Len(str)})
           padding == [i \in 1 .. missing |-> item.pad]
           out == __do_printf(<<item>>, <<arg>>)
<1>1. item.type # "plain" /\ item.pad \in Glyphs BY DEF Glyphs
<1>2. /\ out = IF item.left THEN str \o padding ELSE padding \o str
      /\ out \in Seq(Glyphs)
  BY <1>1, OneField
<1> HIDE DEF out
<1>3. item.type \notin {"d", "x", "o"} OBVIOUS
<1>4. AsDocumented(item, <<arg>>, out) BY <1>2, <1>3 DEF AsDocumented
<1> QED BY <1>2, <1>4 DEF Printed, out

LEMMA FieldPrinted ==
  ASSUME NEW item \in FieldsOf({"c", "d", "x", "o"}), NEW v \in INT_MIN .. INT_MAX
  PROVE  Printed(item, v)
<1>1. item.type \in {"c", "d", "x", "o"} /\ item.pad \in STRING /\ item.width \in Nat
  BY DEF FieldsOf
<1>2. IntAt(<<v>>, 0) = v BY IntAtFirst
<1>3. CASE item.type = "d"
  <2>1. Converted(item, <<v>>, 0) = __cvtdec(v) BY <1>2, <1>3 DEF Converted
  <2> QED BY <1>1, <1>3, <2>1, CvtdecFacts, ShortestPrinted
<1>4. CASE item.type = "x"
  <2>1. Converted(item, <<v>>, 0) = __cvthex(v) BY <1>2, <1>4 DEF Converted
  <2>2. Unsigned(__cvthex(v)) = __cvthex(v) BY CvthexFacts
  <2> QED BY <1>1, <1>4, <2>1, <2>2, CvthexFacts, ShortestPrinted
<1>5. CASE item.type = "o"
  <2>1. Converted(item, <<v>>, 0) = __cvtoct(v) BY <1>2, <1>5 DEF Converted
  <2>2. Unsigned(__cvtoct(v)) = __cvtoct(v) BY CvtoctFacts
  <2> QED BY <1>1, <1>5, <2>1, <2>2, CvtoctFacts, ShortestPrinted
<1>6. CASE item.type = "c"
  <2> DEFINE code == Byte(v, 0)
  <2>1. Converted(item, <<v>>, 0) = <<CharAt(<<v>>, 0)>> BY <1>6 DEF Converted
  <2>2. CharAt(<<v>>, 0) = IF code \in 48 .. 57 THEN Digit(code - 48) ELSE "?"
    BY <1>2 DEF CharAt
  <2> HIDE DEF code
  <2>3. CharAt(<<v>>, 0) \in Glyphs
    <3>1. CASE code \in 48 .. 57
      <4>1. code - 48 \in 0 .. 15 BY <3>1
      <4>2. Digit(code - 48) \in Digits BY <4>1, DigitsDiffer
      <4> QED BY <2>2, <3>1, <4>2 DEF Glyphs
    <3>2. CASE code \notin 48 .. 57 BY <2>2, <3>2 DEF Glyphs
    <3> QED BY <3>1, <3>2
  <2>4. <<CharAt(<<v>>, 0)>> \in Seq(Glyphs) BY <2>3
  <2>5. item.type \in {"c", "s"} BY <1>6
  <2>6. item.pad \in STRING /\ item.width \in Nat BY <1>1
  <2>7. \E str \in Seq(Glyphs) : Converted(item, <<v>>, 0) = str BY <2>1, <2>4
  <2> HIDE DEF Printed
  <2> QED BY <2>5, <2>6, <2>7, TextPrinted
<1>7. item.type = "c" \/ item.type = "d" \/ item.type = "x" \/ item.type = "o"
  BY <1>1
<1> QED BY <1>3, <1>4, <1>5, <1>6, <1>7

LEMMA WordPrinted ==
  ASSUME NEW item \in FieldsOf({"s"}), NEW str \in Seq(STRING)
  PROVE  Printed(item, str)
<1>1. item.type = "s" /\ item.pad \in STRING /\ item.width \in Nat BY DEF FieldsOf
<1>2. Converted(item, <<str>>, 0) = str
  <2>1. 0 \div 4 + 1 = 1 /\ <<str>>[1] = str BY SMT
  <2> QED BY <1>1, <2>1 DEF Converted, StringAt
<1>3. str \in Seq(Glyphs) BY StringsAreGlyphs
<1> QED BY <1>1, <1>2, <1>3, TextPrinted

\* The arguments of the program's calls have their types.
LEMMA UseFacts ==
  ASSUME program \in DOMAIN Uses
  PROVE  /\ use.window \in Int \X Int \X Int \X Int
         /\ use.windows \subseteq Int \X Int \X Int \X Int
         /\ use.moves \subseteq Int \X Int /\ use.places \subseteq Int \X Int
         /\ use.lines \subseteq Nat /\ use.sizes \subseteq Nat /\ use.keys \subseteq Keys
         /\ use.MAX_TEXT \in Nat
         /\ \A c \in use.chars \cup use.glyphs : c \in Glyphs
         /\ \A str \in use.strings : str \in Seq(Glyphs)
         /\ \A item \in use.fields, n \in use.numbers : Printed(item, n)
         /\ \A item \in use.words, str \in use.strings : Printed(item, str)
         /\ \A f \in use.formats : Pieces(f.fmt, f.args) \in Seq(Seq(STRING))
         /\ use.MAX_TEXT > 0 =>
              /\ {} = UNION {use.fields, use.words, use.formats, use.moves,
                             use.windows, use.lines, use.keys, use.sizes}
              /\ \A p \in use.places : p[2] < bound(min_y, use.window[2], max_y)
<1>1. use \in {Uses[p] : p \in DOMAIN Uses} BY DEF use
<1> DEFINE u == use
<1>7. /\ u.window \in Nat \X Nat \X Nat \X Nat
      /\ u.windows \subseteq Nat \X Nat \X Nat \X Nat
      /\ u.moves \subseteq Nat \X Nat /\ u.places \subseteq Nat \X Nat
  BY <1>1, UsesAssumption
<1>8. /\ Nat \X Nat \X Nat \X Nat \subseteq Int \X Int \X Int \X Int
      /\ Nat \X Nat \subseteq Int \X Int
  OBVIOUS
<1>9. /\ u.window \in Int \X Int \X Int \X Int
      /\ u.windows \subseteq Int \X Int \X Int \X Int
      /\ u.moves \subseteq Int \X Int /\ u.places \subseteq Int \X Int
  BY <1>7, <1>8
<1>2. /\ u.lines \subseteq Nat /\ u.sizes \subseteq Nat /\ u.keys \subseteq Keys
      /\ u.MAX_TEXT \in Nat
      /\ u.chars \cup u.glyphs \subseteq STRING /\ u.strings \subseteq Seq(STRING)
  BY <1>1, UsesAssumption
<1>3. /\ u.fields \subseteq FieldsOf({"c", "d", "x", "o"})
      /\ u.words \subseteq FieldsOf({"s"}) /\ u.numbers \subseteq INT_MIN .. INT_MAX
      /\ \A f \in u.formats : Pieces(f.fmt, f.args) \in Seq(Seq(STRING))
  BY <1>1, UsesAssumption
<1>4. u.MAX_TEXT > 0 =>
        /\ {} = UNION {u.fields, u.words, u.formats, u.moves, u.windows,
                       u.lines, u.keys, u.sizes}
        /\ \A p \in u.places : p[2] < bound(min_y, u.window[2], max_y)
  BY <1>1, UsesAssumption
<1>5. /\ \A c \in u.chars \cup u.glyphs : c \in Glyphs
      /\ \A str \in u.strings : str \in Seq(Glyphs)
  BY <1>2, StringsAreGlyphs
<1>6. /\ \A item \in u.fields, n \in u.numbers : Printed(item, n)
      /\ \A item \in u.words, str \in u.strings : Printed(item, str)
  BY <1>2, <1>3, FieldPrinted, WordPrinted
<1> QED BY <1>2, <1>3, <1>4, <1>5, <1>6, <1>9

\* Whatever a program calls, the screen keeps its invariant.
LEMMA ScreenCallKeeps ==
  ASSUME program \in DOMAIN Uses, screen \in Screens, ScreenCall
  PROVE  screen' \in Screens
<1> DEFINE s == screen
<1>0. s \in Screens OBVIOUS
<1>1. ASSUME NEW c \in use.chars, Putchar(c) PROVE screen' \in Screens
  <2>1. c \in Glyphs BY UseFacts
  <2>2. c_putchar(s, c) \in Screens BY <1>0, <2>1, PutcharKeeps
  <2> QED BY <1>1, <2>2 DEF Putchar
<1>2. ASSUME NEW str \in use.strings, Puts(str) PROVE screen' \in Screens
  <2>1. str \in Seq(Glyphs) BY UseFacts
  <2>2. c_puts(s, str) \in Screens BY <1>0, <2>1, PutsFacts DEF LeavesOutside
  <2> QED BY <1>2, <2>2 DEF Puts
<1>3. ASSUME NEW fmt, NEW args, __do_printf(fmt, args) \in Seq(Glyphs),
             PrintField(fmt, args)
      PROVE  screen' \in Screens
  <2>1. c_puts(s, __do_printf(fmt, args)) \in Screens
    BY <1>0, <1>3, PutsFacts DEF LeavesOutside
  <2> QED BY <1>3, <2>1 DEF PrintField, c_printf
<1>4. ASSUME NEW p \in use.places, NEW c \in use.glyphs, PutcharAt(p[1], p[2], c)
      PROVE  screen' \in Screens
  <2>1. p[1] \in Int /\ p[2] \in Int /\ c \in Glyphs BY UseFacts
  <2>2. c_putchar_at(s, p[1], p[2], c) \in Screens BY <1>0, <2>1, PutcharAtFacts
  <2> QED BY <1>4, <2>2 DEF PutcharAt
<1>5. ASSUME NEW p \in use.places, NEW str \in use.strings, PutsAt(p[1], p[2], str)
      PROVE  screen' \in Screens
  <2>1. p[1] \in Int /\ p[2] \in Int /\ str \in Seq(Glyphs) BY UseFacts
  <2>2. c_puts_at(s, p[1], p[2], str) \in Screens
    BY <1>0, <2>1, PutsAtFacts DEF LeavesLines
  <2> QED BY <1>5, <2>2 DEF PutsAt
<1>6. ASSUME NEW p \in use.places, NEW f \in use.formats,
             PrintfAt(p[1], p[2], f.fmt, f.args)
      PROVE  screen' \in Screens
  <2>1. p[1] \in Int /\ p[2] \in Int /\ Pieces(f.fmt, f.args) \in Seq(Seq(STRING))
    BY UseFacts
  <2>2. c_printf_at(s, p[1], p[2], f.fmt, f.args) \in Screens
    BY <1>0, <2>1, PrintfAtFacts
  <2> QED BY <1>6, <2>2 DEF PrintfAt
<1>7. ASSUME NEW p \in use.moves, Arrange(c_moveto(screen, p[1], p[2]))
      PROVE  screen' \in Screens
  <2>1. p[1] \in Int /\ p[2] \in Int BY UseFacts
  <2>2. c_moveto(s, p[1], p[2]) \in Screens BY <1>0, <2>1, MovetoFacts
  <2> QED BY <1>7, <2>2 DEF Arrange
<1>8. ASSUME NEW w \in use.windows,
             Arrange(c_setscroll(screen, w[1], w[2], w[3], w[4]))
      PROVE  screen' \in Screens
  <2>1. w[1] \in Int /\ w[2] \in Int /\ w[3] \in Int /\ w[4] \in Int BY UseFacts
  <2>2. c_setscroll(s, w[1], w[2], w[3], w[4]) \in Screens
    BY <1>0, <2>1, SetscrollFacts
  <2> QED BY <1>8, <2>2 DEF Arrange
<1>9. ASSUME NEW n \in use.lines, Arrange(c_scroll(screen, n)) PROVE screen' \in Screens
  <2>1. n \in Nat BY UseFacts
  <2>2. c_scroll(s, n) \in Screens BY <1>0, <2>1, ScrollFacts
  <2> QED BY <1>9, <2>2 DEF Arrange
<1>10. ASSUME Arrange(c_clearscroll(screen)) \/ Arrange(c_clearscreen(screen))
       PROVE  screen' \in Screens
  BY <1>10, ClearFacts DEF Arrange
<1>11. /\ \A item \in use.fields, n \in use.numbers :
            __do_printf(<<item>>, <<n>>) \in Seq(Glyphs)
       /\ \A item \in use.words, str \in use.strings :
            __do_printf(<<item>>, <<str>>) \in Seq(Glyphs)
  BY UseFacts DEF Printed
<1>12. ASSUME NEW item \in use.fields, NEW n \in use.numbers, PrintField(<<item>>, <<n>>)
       PROVE  screen' \in Screens
  BY <1>3, <1>11, <1>12
<1>13. ASSUME NEW item \in use.words, NEW str \in use.strings,
              PrintField(<<item>>, <<str>>)
       PROVE  screen' \in Screens
  BY <1>3, <1>11, <1>13
<1> QED
  BY <1>1, <1>2, <1>4, <1>5, <1>6, <1>7, <1>8, <1>9, <1>10, <1>12, <1>13
     DEF ScreenCall

-----------------------------------------------------------------------------
(* The ring *)

\* Of a number less than two rounds away, the remainder.
LEMMA RoundFacts ==
  ASSUME NEW a \in Int, -C_BUFSIZE <= a, a < 2 * C_BUFSIZE
  PROVE  a % C_BUFSIZE = IF a < 0 THEN a + C_BUFSIZE
                         ELSE IF a < C_BUFSIZE THEN a ELSE a - C_BUFSIZE
<1>1. C_BUFSIZE \in Nat /\ C_BUFSIZE > 0 BY Sizes
<1>2. CASE a < 0 BY <1>1, <1>2
<1>3. CASE 0 <= a /\ a < C_BUFSIZE BY <1>1, <1>3
<1>4. CASE C_BUFSIZE <= a BY <1>1, <1>4
<1> QED BY <1>1, <1>2, <1>3, <1>4

\* The i-th place behind a, and the characters from there on.
Slot(a, i) == (a + i - 1) % C_BUFSIZE
Count(a, b) == (b - a) % C_BUFSIZE
Waiting(k) == [i \in 1 .. Count(k.next_char, k.next_space) |->
                 k.buffer[Slot(k.next_char, i)]]

LEMMA SlotFacts ==
  ASSUME NEW a \in 0 .. C_BUFSIZE - 1, NEW b \in 0 .. C_BUFSIZE - 1
  PROVE  /\ Count(a, b) = IF b < a THEN b - a + C_BUFSIZE ELSE b - a
         /\ Count(a, b) \in 0 .. C_BUFSIZE - 1
         /\ __c_increment(a) \in 0 .. C_BUFSIZE - 1
         /\ __c_increment(a) = IF a + 1 = C_BUFSIZE THEN 0 ELSE a + 1
         /\ \A i \in 1 .. C_BUFSIZE :
              /\ Slot(a, i) \in 0 .. C_BUFSIZE - 1
              /\ Slot(a, i) = IF a + i - 1 < C_BUFSIZE THEN a + i - 1
                              ELSE a + i - 1 - C_BUFSIZE
<1>1. C_BUFSIZE \in Nat /\ C_BUFSIZE > 1 BY Sizes
<1>2. Count(a, b) = IF b < a THEN b - a + C_BUFSIZE ELSE b - a
  <2>1. /\ b - a \in Int /\ -C_BUFSIZE <= b - a /\ b - a < C_BUFSIZE
        /\ b - a < 2 * C_BUFSIZE
    BY <1>1
  <2>2. b - a < 0 <=> b < a OBVIOUS
  <2> QED BY <2>1, <2>2, RoundFacts DEF Count
<1>3. ASSUME NEW i \in 1 .. C_BUFSIZE
      PROVE  Slot(a, i) = IF a + i - 1 < C_BUFSIZE THEN a + i - 1
                          ELSE a + i - 1 - C_BUFSIZE
  <2> DEFINE z == a + i - 1
  <2>1. z \in Int /\ -C_BUFSIZE <= z /\ z < 2 * C_BUFSIZE /\ ~(z < 0)
    BY <1>1
  <2>2. Slot(a, i) = z % C_BUFSIZE BY DEF Slot
  <2> HIDE DEF z
  <2>3. Slot(a, i) = IF z < C_BUFSIZE THEN z ELSE z - C_BUFSIZE
    <3>1. z % C_BUFSIZE = IF z < 0 THEN z + C_BUFSIZE
                          ELSE IF z < C_BUFSIZE THEN z ELSE z - C_BUFSIZE
      BY <2>1, RoundFacts
    <3> QED BY <2>1, <2>2, <3>1
  <2> QED BY <1>1, <2>3 DEF z
<1>4. \A i \in 1 .. C_BUFSIZE : Slot(a, i) \in 0 .. C_BUFSIZE - 1
  BY <1>1, <1>3
<1> QED BY <1>1, <1>2, <1>3, <1>4 DEF __c_increment

LEMMA KeyboardFields ==
  ASSUME NEW k \in Keyboards
  PROVE  /\ k.next_char \in 0 .. C_BUFSIZE - 1 /\ k.next_space \in 0 .. C_BUFSIZE - 1
         /\ k.next_char \in Int /\ k.next_space \in Int
         /\ k.buffer \in [0 .. C_BUFSIZE - 1 -> Codes]
BY Sizes DEF Keyboards

LEMMA WaitingFacts ==
  ASSUME NEW k \in Keyboards
  PROVE  /\ Waiting(k) \in Seq(Codes)
         /\ Len(Waiting(k)) = c_input_queue(k)
         /\ Len(Waiting(k)) = Count(k.next_char, k.next_space)
         /\ Waiting(k) = <<>> <=> k.next_char = k.next_space
         /\ Waiting(k) # <<>> => Head(Waiting(k)) = k.buffer[k.next_char]
<1> DEFINE a == k.next_char
           b == k.next_space
           n == Count(a, b)
<1>1. a \in 0 .. C_BUFSIZE - 1 /\ b \in 0 .. C_BUFSIZE - 1 BY KeyboardFields
<1>2. /\ n = IF b < a THEN b - a + C_BUFSIZE ELSE b - a
      /\ n \in 0 .. C_BUFSIZE - 1 /\ n \in Nat
  <2>1. /\ n = IF b < a THEN b - a + C_BUFSIZE ELSE b - a
        /\ n \in 0 .. C_BUFSIZE - 1
    BY <1>1, SlotFacts
  <2> HIDE DEF n
  <2> QED BY <2>1, Sizes
<1>3. ASSUME NEW i \in 1 .. n PROVE k.buffer[Slot(a, i)] \in Codes
  <2>1. i \in 1 .. C_BUFSIZE BY <1>2, Sizes
  <2>2. Slot(a, i) \in 0 .. C_BUFSIZE - 1 BY <1>1, <2>1, SlotFacts
  <2> QED BY <2>2, KeyboardFields
<1>4. c_input_queue(k) = n
  <2>1. b - a < 0 <=> b < a BY <1>1, Sizes
  <2> QED BY <1>2, <2>1 DEF c_input_queue
<1>5. n = 0 <=> a = b BY <1>1, <1>2, Sizes
<1>6. n > 0 => k.buffer[Slot(a, 1)] = k.buffer[a]
  <2>1. 1 \in 1 .. C_BUFSIZE BY Sizes
  <2>2. Slot(a, 1) = IF a + 1 - 1 < C_BUFSIZE THEN a + 1 - 1 ELSE a + 1 - 1 - C_BUFSIZE
    BY <1>1, <2>1, SlotFacts
  <2>3. a \in Int /\ a + 1 - 1 = a /\ a < C_BUFSIZE BY <1>1, Sizes
  <2>4. Slot(a, 1) = a BY <2>2, <2>3
  <2> QED BY <2>4
<1>7. Waiting(k) = [i \in 1 .. n |-> k.buffer[Slot(a, i)]] BY DEF Waiting
<1> HIDE DEF n
<1>8. Waiting(k) \in [1 .. n -> Codes] BY <1>3, <1>7
<1>9. Waiting(k) \in Seq(Codes) /\ Len(Waiting(k)) = n
  <2>1. \A m \in Nat : \A g \in [1 .. m -> Codes] : g \in Seq(Codes) /\ Len(g) = m
    OBVIOUS
  <2> QED BY <1>2, <1>8, <2>1
<1>10. Waiting(k) = <<>> <=> n = 0
  <2>1. \A g \in Seq(Codes) : g = <<>> <=> Len(g) = 0 OBVIOUS
  <2> QED BY <1>9, <2>1
<1>11. Waiting(k) # <<>> => Head(Waiting(k)) = Waiting(k)[1]
  <2>1. \A g \in Seq(Codes) : g # <<>> => Head(g) = g[1] OBVIOUS
  <2> QED BY <1>9, <2>1
<1>12. n > 0 => Waiting(k)[1] = k.buffer[a] BY <1>2, <1>6, <1>7
<1>13. n = 0 \/ n > 0 BY <1>2
<1> QED BY <1>4, <1>5, <1>9, <1>10, <1>11, <1>12, <1>13 DEF n

LEMMA SameSequence ==
  ASSUME NEW S, NEW f \in Seq(S), NEW g \in Seq(S), Len(f) = Len(g),
         \A i \in 1 .. Len(f) : f[i] = g[i]
  PROVE  f = g
OBVIOUS

\* A character is added at the end when there is room, or dropped.
LEMMA StoredFacts ==
  ASSUME NEW k \in Keyboards, NEW c \in Codes
  PROVE  LET m == Stored(k, c)
         IN  /\ m \in Keyboards /\ m.next_char = k.next_char
             /\ m.shift = k.shift /\ m.ctrl = k.ctrl
             /\ k.next_char # k.next_space =>
                  /\ m.next_char # m.next_space
                  /\ m.buffer[m.next_char] = k.buffer[k.next_char]
             /\ Waiting(m) = IF Len(Waiting(k)) < C_BUFSIZE - 1
                             THEN Append(Waiting(k), c) ELSE Waiting(k)
<1> DEFINE m == Stored(k, c)
           a == k.next_char
           b == k.next_space
           next == __c_increment(b)
           n == Count(a, b)
<1>1. a \in 0 .. C_BUFSIZE - 1 /\ b \in 0 .. C_BUFSIZE - 1 BY KeyboardFields
<1>2. CASE next = a
  <2>1. m = k BY <1>2 DEF Stored
  <2>2. next = IF b + 1 = C_BUFSIZE THEN 0 ELSE b + 1 BY <1>1, SlotFacts
  <2>3. n = IF b < a THEN b - a + C_BUFSIZE ELSE b - a BY <1>1, SlotFacts
  <2>4. Len(Waiting(k)) = n BY WaitingFacts
  <2> HIDE DEF next, n, m
  <2>5. n = C_BUFSIZE - 1
    <3>1. a = IF b + 1 = C_BUFSIZE THEN 0 ELSE b + 1 BY <1>2, <2>2
    <3> QED BY <1>1, <2>3, <3>1, Sizes
  <2>6. ~(Len(Waiting(k)) < C_BUFSIZE - 1) BY <2>4, <2>5, Sizes
  <2> QED BY <2>1, <2>6 DEF m
<1>3. CASE next # a
  <2>1. m = [k EXCEPT !.buffer[b] = c, !.next_space = next] BY <1>3 DEF Stored
  <2> HIDE DEF m
  <2>2. next \in 0 .. C_BUFSIZE - 1 /\ next = IF b + 1 = C_BUFSIZE THEN 0 ELSE b + 1
    BY <1>1, SlotFacts
  <2>3. /\ m.next_char = a /\ m.next_space = next
        /\ m.buffer = [k.buffer EXCEPT ![b] = c]
        /\ m.shift = k.shift /\ m.ctrl = k.ctrl
    BY <2>1 DEF Keyboards
  <2>4. m \in Keyboards
    <3>1. [k.buffer EXCEPT ![b] = c] \in [0 .. C_BUFSIZE - 1 -> Codes]
      BY KeyboardFields
    <3> HIDE DEF next
    <3> QED BY <2>1, <2>2, <3>1 DEF Keyboards
  <2>5. \A j \in 0 .. C_BUFSIZE - 1 : m.buffer[j] = IF j = b THEN c ELSE k.buffer[j]
    BY <1>1, <2>3, KeyboardFields
  <2>6. a # b => /\ m.next_char # m.next_space
                 /\ m.buffer[m.next_char] = k.buffer[k.next_char]
    BY <1>1, <1>3, <2>3, <2>5
  <2>7. /\ n = IF b < a THEN b - a + C_BUFSIZE ELSE b - a
        /\ n \in 0 .. C_BUFSIZE - 1 /\ n \in Nat
    <3>1. /\ n = IF b < a THEN b - a + C_BUFSIZE ELSE b - a
          /\ n \in 0 .. C_BUFSIZE - 1
      BY <1>1, SlotFacts
    <3> HIDE DEF n
    <3> QED BY <3>1, Sizes
  <2>8. Count(a, next) = n + 1 /\ n < C_BUFSIZE - 1
    <3>1. Count(a, next) = IF next < a THEN next - a + C_BUFSIZE ELSE next - a
      BY <1>1, <2>2, SlotFacts
    <3> HIDE DEF next, n
    <3> QED BY <1>1, <1>3, <2>2, <2>7, <3>1, Sizes
  <2>9. \A i \in 1 .. n : Slot(a, i) # b /\ Slot(a, i) \in 0 .. C_BUFSIZE - 1
    <3>1. SUFFICES ASSUME NEW i \in 1 .. n
                   PROVE  Slot(a, i) # b /\ Slot(a, i) \in 0 .. C_BUFSIZE - 1
      OBVIOUS
    <3>2. i \in 1 .. C_BUFSIZE /\ i \in 1 .. n /\ i \in Int BY <2>7, Sizes
    <3>3. /\ Slot(a, i) \in 0 .. C_BUFSIZE - 1
          /\ Slot(a, i) = IF a + i - 1 < C_BUFSIZE THEN a + i - 1
                          ELSE a + i - 1 - C_BUFSIZE
      BY <1>1, <3>2, SlotFacts
    <3> HIDE DEF n
    <3> QED BY <1>1, <2>7, <3>2, <3>3, Sizes
  <2>10. Slot(a, n + 1) = b
    <3>1. n + 1 \in 1 .. C_BUFSIZE BY <2>7, Sizes
    <3>2. Slot(a, n + 1) = IF a + (n + 1) - 1 < C_BUFSIZE THEN a + (n + 1) - 1
                           ELSE a + (n + 1) - 1 - C_BUFSIZE
      BY <1>1, <3>1, SlotFacts
    <3> HIDE DEF n
    <3> QED BY <1>1, <2>7, <3>2, Sizes
  <2>11. /\ Waiting(m) = [i \in 1 .. n + 1 |-> m.buffer[Slot(a, i)]]
         /\ Waiting(k) = [i \in 1 .. n |-> k.buffer[Slot(a, i)]]
    BY <2>3, <2>8 DEF Waiting
  <2> HIDE DEF n, next
  <2>12. /\ Waiting(k) \in Seq(Codes) /\ Len(Waiting(k)) = n
    BY WaitingFacts DEF n
  <2>13. Waiting(m) = Append(Waiting(k), c)
    <3>1. /\ Append(Waiting(k), c) \in Seq(Codes)
          /\ Len(Append(Waiting(k), c)) = n + 1
          /\ \A i \in 1 .. n + 1 : Append(Waiting(k), c)[i] =
                IF i = n + 1 THEN c ELSE Waiting(k)[i]
      <4>1. \A g \in Seq(Codes) :
              /\ Append(g, c) \in Seq(Codes) /\ Len(Append(g, c)) = Len(g) + 1
              /\ \A i \in 1 .. Len(g) + 1 : Append(g, c)[i] =
                    IF i = Len(g) + 1 THEN c ELSE g[i]
        OBVIOUS
      <4> QED BY <2>12, <4>1
    <3>2. ASSUME NEW i \in 1 .. n + 1
          PROVE  m.buffer[Slot(a, i)] = Append(Waiting(k), c)[i]
      <4>1. CASE i = n + 1 BY <1>1, <2>5, <2>10, <3>1, <4>1
      <4>2. CASE i # n + 1
        <5>1. i \in 1 .. n BY <2>7, <4>2
        <5> QED BY <2>5, <2>9, <2>11, <3>1, <4>2, <5>1
      <4> QED BY <4>1, <4>2
    <3>3. Waiting(m) \in Seq(Codes) /\ Len(Waiting(m)) = n + 1
      BY <2>3, <2>4, <2>8, WaitingFacts
    <3>4. \A i \in 1 .. n + 1 : Waiting(m)[i] = Append(Waiting(k), c)[i]
      BY <2>11, <3>2
    <3> QED BY <3>1, <3>3, <3>4, SameSequence
  <2> QED BY <2>3, <2>4, <2>6, <2>8, <2>12, <2>13 DEF m
<1> QED BY <1>2, <1>3

\* Whoever takes the first character leaves the others.
LEMMA TakenFacts ==
  ASSUME NEW k \in Keyboards, k.next_char # k.next_space
  PROVE  LET m == [k EXCEPT !.next_char = __c_increment(@)]
         IN  m \in Keyboards /\ Waiting(k) # <<>> /\ Waiting(m) = Tail(Waiting(k))
<1> DEFINE a == k.next_char
           b == k.next_space
           next == __c_increment(a)
           m == [k EXCEPT !.next_char = next]
           n == Count(a, b)
<1>1. a \in 0 .. C_BUFSIZE - 1 /\ b \in 0 .. C_BUFSIZE - 1 /\ a # b BY KeyboardFields
<1>2. next \in 0 .. C_BUFSIZE - 1 /\ next = IF a + 1 = C_BUFSIZE THEN 0 ELSE a + 1
  BY <1>1, SlotFacts
<1>3. n = IF b < a THEN b - a + C_BUFSIZE ELSE b - a
  BY <1>1, SlotFacts
<1>4. n \in Nat /\ n > 0 /\ n - 1 \in Nat /\ n < C_BUFSIZE BY <1>1, <1>3, Sizes
<1>5. Count(next, b) = n - 1
  <2>1. Count(next, b) = IF b < next THEN b - next + C_BUFSIZE ELSE b - next
    BY <1>1, <1>2, SlotFacts
  <2> HIDE DEF next, n
  <2> QED BY <1>1, <1>2, <1>3, <2>1, Sizes
<1> HIDE DEF n
<1>6. ASSUME NEW i \in 1 .. n - 1 PROVE Slot(next, i) = Slot(a, i + 1)
  <2>1. i \in 1 .. C_BUFSIZE /\ i + 1 \in 1 .. C_BUFSIZE /\ i \in Int BY <1>4, Sizes
  <2>2. Slot(next, i) = IF next + i - 1 < C_BUFSIZE THEN next + i - 1
                        ELSE next + i - 1 - C_BUFSIZE
    BY <1>2, <2>1, SlotFacts
  <2>3. Slot(a, i + 1) = IF a + (i + 1) - 1 < C_BUFSIZE THEN a + (i + 1) - 1
                         ELSE a + (i + 1) - 1 - C_BUFSIZE
    BY <1>1, <2>1, SlotFacts
  <2> HIDE DEF next
  <2> QED BY <1>1, <1>2, <2>1, <2>2, <2>3, Sizes
<1>7. m \in Keyboards /\ m.next_char = next /\ m.next_space = b /\ m.buffer = k.buffer
  <2> HIDE DEF next
  <2> QED BY <1>2 DEF Keyboards
<1> HIDE DEF next, m
<1>8. /\ Waiting(m) = [i \in 1 .. n - 1 |-> k.buffer[Slot(next, i)]]
      /\ Waiting(k) = [i \in 1 .. n |-> k.buffer[Slot(a, i)]]
  BY <1>5, <1>7 DEF Waiting, n
<1>9. Waiting(k) \in Seq(Codes) /\ Len(Waiting(k)) = n BY WaitingFacts DEF n
<1>10. /\ Tail(Waiting(k)) \in Seq(Codes) /\ Len(Tail(Waiting(k))) = n - 1
       /\ \A i \in 1 .. n - 1 : Tail(Waiting(k))[i] = Waiting(k)[i + 1]
  <2>1. \A g \in Seq(Codes) : Len(g) > 0 =>
          /\ Tail(g) \in Seq(Codes) /\ Len(Tail(g)) = Len(g) - 1
          /\ \A i \in 1 .. Len(g) - 1 : Tail(g)[i] = g[i + 1]
    OBVIOUS
  <2> QED BY <1>4, <1>9, <2>1
<1>11. \A i \in 1 .. n - 1 : i + 1 \in 1 .. n BY <1>4
<1>12. \A i \in 1 .. n - 1 : Waiting(m)[i] = Tail(Waiting(k))[i]
  <2>1. SUFFICES ASSUME NEW i \in 1 .. n - 1
                 PROVE  Waiting(m)[i] = Tail(Waiting(k))[i]
    OBVIOUS
  <2>2. Waiting(m)[i] = k.buffer[Slot(a, i + 1)] BY <1>6, <1>8
  <2>3. i + 1 \in 1 .. n BY <1>11
  <2>4. Waiting(k)[i + 1] = k.buffer[Slot(a, i + 1)] BY <1>8, <2>3
  <2> QED BY <1>10, <2>2, <2>4
<1>13. Waiting(m) = Tail(Waiting(k))
  <2>1. Waiting(m) \in Seq(Codes) /\ Len(Waiting(m)) = n - 1
    BY <1>5, <1>7, WaitingFacts
  <2> QED BY <1>10, <1>12, <2>1, SameSequence
<1>14. Waiting(k) # <<>> BY <1>1, WaitingFacts
<1> QED BY <1>7, <1>13, <1>14 DEF m, next

\* What an interrupt, or a poll, leaves of the keyboard: the first character.
Receives(k, m) ==
  /\ m \in Keyboards /\ m.next_char = k.next_char
  /\ k.next_char # k.next_space =>
       /\ m.next_char # m.next_space
       /\ m.buffer[m.next_char] = k.buffer[k.next_char]

\* What it makes of the queue: the character of a defined key is added if there
\* is room, and an undefined one adds at most one.
KeyCharacter(k, code) ==
  IF code = "enter" THEN "\n"
  ELSE IF k.ctrl THEN "EOT" ELSE IF k.shift THEN "D" ELSE "d"
Pressed(k, m, code) ==
  /\ m.shift = IF code \in {"+shift", "-shift"} THEN code = "+shift" ELSE k.shift
  /\ m.ctrl = IF code \in {"+ctrl", "-ctrl"} THEN code = "+ctrl" ELSE k.ctrl
  /\ Waiting(m) = IF code \in {"d", "enter"} /\ Len(Waiting(k)) < C_BUFSIZE - 1
                  THEN Append(Waiting(k), KeyCharacter(k, code)) ELSE Waiting(k)
NoKey(k, m) ==
  /\ m.shift = k.shift /\ m.ctrl = k.ctrl
  /\ Waiting(m) \in {Waiting(k)} \cup {Append(Waiting(k), c) : c \in Codes}
Reacts(k, m, code) ==
  /\ Receives(k, m)
  /\ code # "f1" => Pressed(k, m, code)
  /\ code = "f1" => NoKey(k, m)

\* Keyboards that differ outside the ring only.
SameRing(k, m) == /\ m.buffer = k.buffer
                  /\ m.next_char = k.next_char /\ m.next_space = k.next_space

LEMMA SameRingFacts ==
  ASSUME NEW k, NEW m, SameRing(k, m)
  PROVE  Waiting(m) = Waiting(k)
BY DEF SameRing, Waiting

LEMMA ScanCodeFacts ==
  ASSUME NEW k \in Keyboards, NEW code \in Keys
  PROVE  Reacts(k, __c_input_scan_code(k, code), code)
<1> DEFINE m == __c_input_scan_code(k, code)
<1>0. k.shift \in BOOLEAN /\ k.ctrl \in BOOLEAN BY DEF Keyboards
<1>1. ASSUME NEW q \in Keyboards, SameRing(k, q)
      PROVE  Receives(k, q) /\ Waiting(q) = Waiting(k)
  BY <1>1, SameRingFacts DEF Receives, SameRing
<1>2. CASE code \in {"+shift", "-shift"}
  <2> DEFINE held == code = "+shift"
             q == [k EXCEPT !.shift = held]
  <2>1. m = q BY <1>2 DEF __c_input_scan_code
  <2>2. held \in BOOLEAN OBVIOUS
  <2> HIDE DEF m
  <2>3. q \in Keyboards /\ SameRing(k, q) /\ q.shift = held /\ q.ctrl = k.ctrl
    <3> HIDE DEF held
    <3> QED BY <2>2 DEF Keyboards, SameRing
  <2> HIDE DEF q
  <2>4. Receives(k, q) /\ Waiting(q) = Waiting(k) BY <1>1, <2>3
  <2>5. Pressed(k, q, code)
    <3>1. /\ code \notin {"+ctrl", "-ctrl"} /\ code \notin {"d", "enter"}
      BY <1>2
    <3> QED BY <1>2, <2>3, <2>4, <3>1 DEF Pressed
  <2> QED BY <1>2, <2>1, <2>4, <2>5 DEF Reacts, m
<1>3. CASE code \in {"+ctrl", "-ctrl"}
  <2> DEFINE held == code = "+ctrl"
             q == [k EXCEPT !.ctrl = held]
  <2>1. m = q BY <1>3 DEF __c_input_scan_code
  <2>2. held \in BOOLEAN OBVIOUS
  <2> HIDE DEF m
  <2>3. q \in Keyboards /\ SameRing(k, q) /\ q.ctrl = held /\ q.shift = k.shift
    <3> HIDE DEF held
    <3> QED BY <2>2 DEF Keyboards, SameRing
  <2> HIDE DEF q
  <2>4. Receives(k, q) /\ Waiting(q) = Waiting(k) BY <1>1, <2>3
  <2>5. Pressed(k, q, code)
    <3>1. /\ code \notin {"+shift", "-shift"} /\ code \notin {"d", "enter"}
      BY <1>3
    <3> QED BY <1>3, <2>3, <2>4, <3>1 DEF Pressed
  <2> QED BY <1>3, <2>1, <2>4, <2>5 DEF Reacts, m
<1>4. CASE code = "release"
  <2>1. m = k BY <1>4 DEF __c_input_scan_code
  <2>2. Receives(k, k) BY <1>1 DEF SameRing
  <2>3. Pressed(k, k, code) BY <1>4 DEF Pressed
  <2> QED BY <1>4, <2>1, <2>2, <2>3 DEF Reacts
<1>5. CASE code \in {"d", "enter", "f1"}
  <2> DEFINE case == IF k.shift THEN "shift" ELSE "plain"
             typed == scan_code[case][code]
             c == IF k.ctrl THEN Masked(typed) ELSE typed
             q == Stored(k, c)
  <2>1. m = q BY <1>5 DEF __c_input_scan_code
  <2>2. case \in {"plain", "shift"} /\ (case = "shift" <=> k.shift)
    BY <1>0
  <2>3. /\ typed \in {"d", "D", "\n", "255"}
        /\ code = "enter" => typed = "\n"
        /\ code = "d" => typed = IF k.shift THEN "D" ELSE "d"
    <3> HIDE DEF case
    <3> QED BY <1>5, <2>2 DEF scan_code
  <2>4. /\ c \in Codes
        /\ code # "f1" => c = KeyCharacter(k, code)
    <3> HIDE DEF typed
    <3> QED BY <1>5, <2>3 DEF Masked, Codes, KeyCharacter
  <2> HIDE DEF c, m
  <2>5. /\ q \in Keyboards /\ q.next_char = k.next_char
        /\ q.shift = k.shift /\ q.ctrl = k.ctrl
        /\ k.next_char # k.next_space =>
             /\ q.next_char # q.next_space
             /\ q.buffer[q.next_char] = k.buffer[k.next_char]
        /\ Waiting(q) = IF Len(Waiting(k)) < C_BUFSIZE - 1
                        THEN Append(Waiting(k), c) ELSE Waiting(k)
    BY <2>4, StoredFacts
  <2> HIDE DEF q
  <2>6. Receives(k, q) BY <2>5 DEF Receives
  <2>7. code # "f1" => Pressed(k, q, code)
    <3>1. /\ code \notin {"+ctrl", "-ctrl"} /\ code \notin {"+shift", "-shift"}
      BY <1>5
    <3> QED BY <1>5, <2>4, <2>5, <3>1 DEF Pressed
  <2>8. NoKey(k, q) BY <2>4, <2>5 DEF NoKey
  <2> QED BY <2>1, <2>6, <2>7, <2>8 DEF Reacts, m
<1> QED BY <1>2, <1>3, <1>4, <1>5 DEF Keys

\* c_getchar has something to fetch; c_gets has room for another character
\* and for the end of the string.
Reading(k, r) ==
  /\ r.pc \in {"fetch", "advance"} => k.next_char # k.next_space
  /\ r.pc = "advance" => r.c = k.buffer[k.next_char]
LineFits(r) ==
  r.gets => IF r.pc = "idle" THEN r.line = <<>> \/ Len(r.line) < r.size
            ELSE Len(r.line) + 1 < r.size

InputInv ==
  /\ CTypeOK
  /\ Reading(keyboard, reader)
  /\ LineFits(reader)

LEMMA InputInit == CInit => InputInv
<1> SUFFICES ASSUME CInit PROVE InputInv
  OBVIOUS
<1>1. program \in DOMAIN Uses BY DEF CInit
<1>2. screen \in Screens
  <2> DEFINE video == [p \in Places |-> "?"]
             k == c_clearscreen(c_io_init(video))
  <2>1. screen = c_setscroll(k, use.window[1], use.window[2],
                             use.window[3], use.window[4])
    BY DEF CInit
  <2>2. k \in Screens
    <3>1. video \in [Places -> Glyphs] BY DEF Glyphs
    <3> HIDE DEF video
    <3>2. c_io_init(video) \in Screens BY <3>1, IoInitFacts
    <3> QED BY <3>2, ClearFacts
  <2>3. /\ use.window[1] \in Int /\ use.window[2] \in Int
        /\ use.window[3] \in Int /\ use.window[4] \in Int
    <3>1. use.window \in Int \X Int \X Int \X Int BY <1>1, UseFacts
    <3> QED BY <3>1
  <2> HIDE DEF k
  <2> QED BY <2>1, <2>2, <2>3, SetscrollFacts
<1>3. keyboard \in Keyboards /\ reader \in Readers
  BY Sizes DEF CInit, Keyboards, Readers, Codes
<1>4. reader.pc = "idle" /\ reader.line = <<>> BY DEF CInit
<1>5. Reading(keyboard, reader) BY <1>4 DEF Reading
<1>6. LineFits(reader) BY <1>4 DEF LineFits
<1> QED BY <1>1, <1>2, <1>3, <1>5, <1>6 DEF InputInv, CTypeOK

\* What each step of the input makes of the invariant.
LEMMA KeyboardStep ==
  ASSUME InputInv, NEW m, Receives(keyboard, m), keyboard' = m,
         UNCHANGED <<screen, reader, program>>
  PROVE  InputInv'
<1>1. keyboard' \in Keyboards BY DEF Receives
<1>2. Reading(keyboard', reader') BY DEF InputInv, Reading, Receives
<1> QED BY <1>1, <1>2 DEF InputInv, CTypeOK

LEMMA ReaderStep ==
  ASSUME InputInv, reader' \in Readers, Reading(keyboard, reader'), LineFits(reader'),
         UNCHANGED <<screen, keyboard, program>>
  PROVE  InputInv'
BY DEF InputInv, CTypeOK

\* A code is taken: the key has the effect that the queue's specification says.
LEMMA TakeCodeStep ==
  ASSUME InputInv, TakeCode
  PROVE  /\ InputInv'
         /\ keyboard.data \in Keys
         /\ UNCHANGED reader
         /\ \E m : /\ Reacts(keyboard, m, keyboard.data)
                   /\ Waiting(keyboard') = Waiting(m)
                   /\ keyboard'.shift = m.shift /\ keyboard'.ctrl = m.ctrl
<1> DEFINE k == keyboard
           m == __c_input_scan_code(k, k.data)
           q == [m EXCEPT !.data = NoCode]
<1>1. k \in Keyboards /\ k.data \in Keys
  BY DEF InputInv, CTypeOK, TakeCode, Keyboards
<1>2. Reacts(k, m, k.data) BY <1>1, ScanCodeFacts
<1> HIDE DEF m
<1>3. m \in Keyboards BY <1>2 DEF Reacts, Receives
<1>4. q \in Keyboards /\ SameRing(m, q) /\ q.shift = m.shift /\ q.ctrl = m.ctrl
  BY <1>3 DEF Keyboards, SameRing
<1>5. keyboard' = q /\ UNCHANGED <<screen, reader, program>>
  BY DEF TakeCode, m
<1> HIDE DEF q
<1>6. Waiting(q) = Waiting(m) BY <1>4, SameRingFacts
<1>7. Receives(k, q) BY <1>2, <1>4 DEF Reacts, Receives, SameRing
<1>8. InputInv' BY <1>5, <1>7, KeyboardStep
<1> QED BY <1>1, <1>2, <1>4, <1>5, <1>6, <1>8

LEMMA KeystrokeStep ==
  ASSUME InputInv, NEW code \in use.keys, Keystroke(code)
  PROVE  /\ InputInv'
         /\ Waiting(keyboard') = Waiting(keyboard)
         /\ UNCHANGED <<keyboard.shift, keyboard.ctrl, reader>>
<1> DEFINE k == keyboard
           m == [k EXCEPT !.data = code]
<1>1. k \in Keyboards /\ code \in Keys BY UseFacts DEF InputInv, CTypeOK
<1>2. m \in Keyboards /\ SameRing(k, m) /\ m.shift = k.shift /\ m.ctrl = k.ctrl
  BY <1>1 DEF Keyboards, SameRing
<1>3. keyboard' = m /\ UNCHANGED <<screen, reader, program>> BY DEF Keystroke
<1> HIDE DEF m
<1>4. Waiting(m) = Waiting(k) BY <1>2, SameRingFacts
<1>5. Receives(k, m) BY <1>2 DEF Receives, SameRing
<1>6. InputInv' BY <1>3, <1>5, KeyboardStep
<1> QED BY <1>2, <1>3, <1>4, <1>6

LEMMA ReaderFields ==
  ASSUME NEW r \in Readers
  PROVE  /\ r.c \in Codes /\ r.gets \in BOOLEAN /\ r.size \in Nat
         /\ r.line \in Seq(Codes) /\ Len(r.line) \in Nat
         /\ WithLast(r) \in Seq(Codes) /\ Len(WithLast(r)) \in Nat
         /\ Len(WithLast(r)) <= Len(r.line) + 1
<1>1. r.c \in Codes /\ r.gets \in BOOLEAN /\ r.size \in Nat /\ r.line \in Seq(Codes)
  BY DEF Readers
<1> QED BY <1>1 DEF WithLast

LEMMA GetcharStep ==
  ASSUME InputInv, Getchar
  PROVE  InputInv' /\ KeyQueue!CallGetchar
<1> DEFINE r == reader
           empty == <<>>
           q == [r EXCEPT !.pc = "wait", !.gets = FALSE, !.line = empty]
<1>1. r \in Readers /\ r.pc = "idle" BY DEF InputInv, CTypeOK, Getchar
<1>2. empty \in Seq(Codes) OBVIOUS
<1>3. reader' = q /\ UNCHANGED <<screen, keyboard, program>> BY DEF Getchar
<1> HIDE DEF empty
<1>4. /\ q \in Readers
      /\ q.pc = "wait" /\ q.gets = FALSE /\ q.line = empty /\ q.size = r.size
  BY <1>1, <1>2 DEF Readers
<1> HIDE DEF q
<1>5. Reading(keyboard, q) /\ LineFits(q) BY <1>4 DEF Reading, LineFits
<1>6. InputInv' BY <1>3, <1>4, <1>5, ReaderStep
<1>7. Typed' = Typed BY <1>3 DEF Typed
<1>8. Calling = "none" /\ Calling' = "getchar" /\ Got' = <<>>
  BY <1>1, <1>3, <1>4 DEF Calling, Got, empty
<1> QED BY <1>3, <1>4, <1>6, <1>7, <1>8 DEF KeyQueue!CallGetchar

LEMMA GetsStep ==
  ASSUME InputInv, NEW size \in use.sizes, Gets(size)
  PROVE  InputInv' /\ KeyQueue!CallGets(size)
<1> DEFINE r == reader
           empty == <<>>
           called == TRUE
           pc == IF size > 1 THEN "wait" ELSE "idle"
           q == [r EXCEPT !.pc = pc, !.gets = called, !.size = size, !.line = empty]
<1>1. r \in Readers /\ r.pc = "idle" /\ program \in DOMAIN Uses
  BY DEF InputInv, CTypeOK, Gets
<1>2. size \in Nat /\ empty \in Seq(Codes) /\ called \in BOOLEAN /\ Len(empty) = 0
  BY <1>1, UseFacts
<1>3. pc \in {"wait", "idle"} /\ (pc = "wait" <=> size > 1) OBVIOUS
<1>4. reader' = q /\ UNCHANGED <<screen, keyboard, program>> BY DEF Gets
<1> HIDE DEF empty, called, pc
<1>5. /\ q \in Readers
      /\ q.pc = pc /\ q.gets = called /\ q.line = empty /\ q.size = size
  BY <1>1, <1>2, <1>3 DEF Readers
<1> HIDE DEF q
<1>6. Reading(keyboard, q) BY <1>3, <1>5 DEF Reading
<1>7. LineFits(q) BY <1>2, <1>3, <1>5 DEF LineFits, empty
<1>8. InputInv' BY <1>4, <1>5, <1>6, <1>7, ReaderStep
<1>9. Typed' = Typed BY <1>4 DEF Typed
<1>10. /\ Calling = "none" /\ Got' = <<>>
       /\ Calling' = IF size > 1 THEN "gets" ELSE "none"
  BY <1>1, <1>3, <1>4, <1>5 DEF Calling, Got, empty, called
<1> QED BY <1>4, <1>5, <1>8, <1>9, <1>10 DEF KeyQueue!CallGets

\* The steps of c_getchar that the caller cannot see.
LEMMA ArrivedStep ==
  ASSUME InputInv, Arrived
  PROVE  InputInv' /\ UNCHANGED <<keyboard, Calling, reader.size, Got>>
<1> DEFINE r == reader
           q == [r EXCEPT !.pc = "fetch"]
<1>1. r \in Readers BY DEF InputInv, CTypeOK
<1>2. /\ q \in Readers /\ q.pc = "fetch" /\ q.gets = r.gets
      /\ q.line = r.line /\ q.size = r.size
  BY <1>1 DEF Readers
<1>3. /\ keyboard.next_char # keyboard.next_space /\ r.pc = "wait"
      /\ reader' = q /\ UNCHANGED <<screen, keyboard, program>>
  BY DEF Arrived, Empty
<1> HIDE DEF q
<1>4. Reading(keyboard, q) /\ LineFits(q)
  BY <1>2, <1>3 DEF InputInv, Reading, LineFits
<1>5. InputInv' BY <1>2, <1>3, <1>4, ReaderStep
<1> QED BY <1>2, <1>3, <1>5 DEF Calling, Got

LEMMA FetchStep ==
  ASSUME InputInv, Fetch
  PROVE  InputInv' /\ UNCHANGED <<keyboard, Calling, reader.size, Got>>
<1> DEFINE r == reader
           k == keyboard
           c == k.buffer[k.next_char]
           q == [r EXCEPT !.pc = "advance", !.c = c]
<1>1. r \in Readers /\ k \in Keyboards BY DEF InputInv, CTypeOK
<1>2. c \in Codes BY <1>1, KeyboardFields
<1>3. reader' = q /\ r.pc = "fetch" /\ UNCHANGED <<screen, keyboard, program>>
  BY DEF Fetch
<1>4. k.next_char # k.next_space BY <1>3 DEF InputInv, Reading
<1> HIDE DEF c
<1>5. /\ q \in Readers /\ q.pc = "advance" /\ q.gets = r.gets
      /\ q.line = r.line /\ q.size = r.size /\ q.c = c
  BY <1>1, <1>2 DEF Readers
<1> HIDE DEF q
<1>6. Reading(k, q) /\ LineFits(q)
  BY <1>3, <1>4, <1>5 DEF InputInv, Reading, LineFits, c
<1>7. InputInv' BY <1>3, <1>5, <1>6, ReaderStep
<1> QED BY <1>3, <1>5, <1>7 DEF Calling, Got

\* c_getchar takes the oldest character.
LEMMA ReturnStep ==
  ASSUME InputInv, Return
  PROVE  InputInv' /\ KeyQueue!Take
<1> DEFINE r == reader
           k == keyboard
           m == [k EXCEPT !.next_char = __c_increment(@)]
           q == [r EXCEPT !.pc = "echo"]
<1>1. r \in Readers /\ k \in Keyboards BY DEF InputInv, CTypeOK
<1>2. /\ r.pc = "advance" /\ k.next_char # k.next_space
      /\ r.c = k.buffer[k.next_char]
  BY DEF InputInv, Return, Reading
<1>3. m \in Keyboards /\ Waiting(k) # <<>> /\ Waiting(m) = Tail(Waiting(k))
  BY <1>1, <1>2, TakenFacts
<1>4. m.shift = k.shift /\ m.ctrl = k.ctrl
  BY <1>1 DEF Keyboards
<1>5. /\ q \in Readers /\ q.pc = "echo" /\ q.gets = r.gets /\ q.c = r.c
      /\ q.line = r.line /\ q.size = r.size
  BY <1>1 DEF Readers
<1>6. keyboard' = m /\ reader' = q /\ UNCHANGED <<screen, program>>
  BY DEF Return
<1> HIDE DEF m, q
<1>7. InputInv'
  <2>1. Reading(m, q) BY <1>5 DEF Reading
  <2>2. LineFits(q) BY <1>2, <1>5 DEF InputInv, LineFits
  <2> QED BY <1>3, <1>5, <1>6, <2>1, <2>2 DEF InputInv, CTypeOK
<1>8. /\ Typed = Waiting(k) /\ Typed' = Waiting(m)
      /\ Head(Typed) = r.c
  <2>1. Typed = Waiting(k) /\ Typed' = Waiting(m)
    BY <1>6 DEF Typed, Waiting, Slot, Count
  <2> QED BY <1>1, <1>2, <1>3, <2>1, WaitingFacts
<1>9. /\ Got = r.line /\ Got' = WithLast(r)
      /\ Calling = IF r.gets THEN "gets" ELSE "getchar"
      /\ Calling' = IF Complete(r) THEN "none" ELSE IF r.gets THEN "gets" ELSE "getchar"
  BY <1>2, <1>5, <1>6 DEF Got, Calling, WithLast, Complete
<1>10. WithLast(r) = IF Calling = "gets" /\ r.c = "EOT" THEN Got ELSE Append(Got, r.c)
  BY <1>9 DEF WithLast
<1>11. Complete(r) <=> \/ Calling = "getchar" \/ r.c \in {"\n", "EOT"}
                       \/ Len(WithLast(r)) + 1 = r.size
  <2>1. r.gets => Len(r.line) + 1 < r.size
    BY <1>2 DEF InputInv, LineFits
  <2>2. /\ r.size \in Nat /\ Len(r.line) \in Nat /\ Len(WithLast(r)) \in Nat
        /\ Len(WithLast(r)) <= Len(r.line) + 1 /\ r.gets \in BOOLEAN
    BY <1>1, ReaderFields
  <2>3. r.gets => (Len(WithLast(r)) >= r.size - 1 <=> Len(WithLast(r)) + 1 = r.size)
    BY <2>1, <2>2
  <2> QED BY <1>9, <2>2, <2>3 DEF Complete
<1> QED
  BY <1>3, <1>4, <1>5, <1>6, <1>7, <1>8, <1>9, <1>10, <1>11 DEF KeyQueue!Take

LEMMA EchoStep ==
  ASSUME InputInv, Echo
  PROVE  InputInv' /\ UNCHANGED <<keyboard, Calling, reader.size, Got>>
<1> DEFINE r == reader
           line == WithLast(r)
           done == Complete(r)
           q == [r EXCEPT !.pc = IF done THEN "idle" ELSE "wait", !.line = line]
<1>1. /\ r \in Readers /\ screen \in Screens /\ program \in DOMAIN Uses
      /\ r.pc = "echo" /\ reader' = q /\ UNCHANGED <<keyboard, program>>
  BY DEF InputInv, CTypeOK, Echo
<1>2. /\ r.c \in Codes /\ r.c \in Glyphs /\ r.gets \in BOOLEAN /\ r.size \in Nat
      /\ line \in Seq(Codes) /\ Len(line) \in Nat /\ Len(line) <= Len(r.line) + 1
      /\ Len(r.line) \in Nat
  BY <1>1, ReaderFields, StringsAreGlyphs
<1>3. screen' \in Screens
  <2>1. c_putchar(screen, r.c) \in Screens BY <1>1, <1>2, PutcharKeeps
  <2> QED BY <1>1, <2>1 DEF Echo
<1>4. done <=> ~r.gets \/ r.c \in {"\n", "EOT"} \/ Len(line) >= r.size - 1
  BY DEF Complete
<1> HIDE DEF line, done
<1>5. /\ q \in Readers /\ q.pc = (IF done THEN "idle" ELSE "wait")
      /\ q.gets = r.gets /\ q.size = r.size /\ q.line = line
  BY <1>1, <1>2 DEF Readers
<1> HIDE DEF q
<1>6. Reading(keyboard, q) BY <1>5 DEF Reading
<1>7. LineFits(q)
  <2>1. r.gets => Len(r.line) + 1 < r.size BY <1>1 DEF InputInv, LineFits
  <2> QED BY <1>2, <1>4, <1>5, <2>1 DEF LineFits
<1>8. InputInv' BY <1>1, <1>3, <1>5, <1>6, <1>7 DEF InputInv, CTypeOK
<1>9. Got = line /\ Got' = line
  BY <1>1, <1>5 DEF Got, line
<1>10. Calling' = Calling
  BY <1>1, <1>4, <1>5 DEF Calling, done
<1> QED BY <1>1, <1>5, <1>8, <1>9, <1>10

LEMMA InputStepKeeps ==
  ASSUME InputInv, [CNext]_cvars
  PROVE  InputInv'
<1>0. screen \in Screens /\ program \in DOMAIN Uses BY DEF InputInv, CTypeOK
<1>1. CASE UNCHANGED cvars
  BY <1>1 DEF cvars, InputInv, CTypeOK
<1>2. CASE ScreenCall
  <2>1. screen' \in Screens BY <1>0, <1>2, ScreenCallKeeps
  <2>2. NoInput
    BY <1>2 DEF ScreenCall, Putchar, Puts, PrintField, PutcharAt, PutsAt, PrintfAt,
                Arrange
  <2> QED BY <2>1, <2>2 DEF NoInput, InputInv, CTypeOK
<1>3. CASE TakeCode BY <1>3, TakeCodeStep
<1>4. ASSUME NEW code \in use.keys, Keystroke(code) PROVE InputInv'
  BY <1>4, KeystrokeStep
<1>5. CASE Getchar BY <1>5, GetcharStep
<1>6. ASSUME NEW size \in use.sizes, Gets(size) PROVE InputInv'
  BY <1>6, GetsStep
<1>7. CASE Arrived BY <1>7, ArrivedStep
<1>8. CASE Fetch BY <1>8, FetchStep
<1>9. CASE Return BY <1>9, ReturnStep
<1>10. CASE Echo BY <1>10, EchoStep
<1> QED
  BY <1>1, <1>2, <1>3, <1>4, <1>5, <1>6, <1>7, <1>8, <1>9, <1>10
     DEF CNext, InputStep, __c_keyboard_isr, Poll

\* What each step promises, it does.
LEMMA StepsAnswer ==
  ASSUME InputInv, [CNext]_cvars
  PROVE  InputAnswered
<1> DEFINE Unseen == UNCHANGED <<Typed, keyboard.shift, keyboard.ctrl, Calling,
                                 reader.size, Got>>
<1>1. Typed = Waiting(keyboard) /\ Typed' = Waiting(keyboard')
  BY DEF Typed, Waiting, Slot, Count
<1>2. UNCHANGED reader => UNCHANGED <<Calling, reader.size, Got>>
  BY DEF Calling, Got, WithLast, Complete
<1>3. ASSUME TakeCode
      PROVE  /\ keyboard.data # "f1" => KeyQueue!Press(keyboard.data)
             /\ keyboard.data = "f1" =>
                  /\ Typed' \in {Typed} \cup {Append(Typed, c) : c \in Codes}
                  /\ UNCHANGED <<keyboard.shift, keyboard.ctrl, Calling,
                                 reader.size, Got>>
  <2>1. PICK m : /\ Reacts(keyboard, m, keyboard.data)
                 /\ Waiting(keyboard') = Waiting(m)
                 /\ keyboard'.shift = m.shift /\ keyboard'.ctrl = m.ctrl
    BY <1>3, TakeCodeStep
  <2>2. UNCHANGED <<Calling, reader.size, Got>> /\ keyboard.data \in Keys
    BY <1>2, <1>3, TakeCodeStep
  <2>3. ASSUME keyboard.data # "f1" PROVE KeyQueue!Press(keyboard.data)
    <3> DEFINE code == keyboard.data
    <3>1. Pressed(keyboard, m, code) BY <2>1, <2>3 DEF Reacts
    <3>2. code \in {"d", "enter"} =>
            KeyCharacter(keyboard, code) = KeyQueue!Character(code)
      <4>1. keyboard.ctrl \in BOOLEAN BY DEF InputInv, CTypeOK, Keyboards
      <4> QED BY <4>1 DEF KeyCharacter, KeyQueue!Character
    <3> HIDE DEF code
    <3>3. KeyQueue!Press(code)
      BY <1>1, <2>1, <2>2, <3>1, <3>2 DEF Pressed, KeyQueue!Press
    <3> QED BY <3>3 DEF code
  <2>4. ASSUME keyboard.data = "f1"
        PROVE  /\ Typed' \in {Typed} \cup {Append(Typed, c) : c \in Codes}
               /\ UNCHANGED <<keyboard.shift, keyboard.ctrl>>
    <3>1. NoKey(keyboard, m) BY <2>1, <2>4 DEF Reacts
    <3> QED BY <1>1, <2>1, <3>1 DEF NoKey
  <2> QED BY <2>2, <2>3, <2>4
<1>4. Getchar => KeyQueue!CallGetchar BY GetcharStep
<1>5. \A size \in use.sizes : Gets(size) => KeyQueue!CallGets(size) BY GetsStep
<1>6. Return => KeyQueue!Take BY ReturnStep
<1>7. UNCHANGED <<keyboard, Calling, reader.size, Got>> => Unseen
  BY DEF Typed
<1>8. ASSUME ~(TakesKey \/ Calls \/ Return) PROVE Unseen
  <2>1. CASE UNCHANGED cvars
    <3>1. UNCHANGED keyboard /\ UNCHANGED reader BY <2>1 DEF cvars
    <3> QED BY <1>2, <1>7, <3>1
  <2>2. CASE ScreenCall
    <3>1. NoInput
      BY <2>2 DEF ScreenCall, Putchar, Puts, PrintField, PutcharAt, PutsAt, PrintfAt,
                  Arrange
    <3>2. UNCHANGED keyboard /\ UNCHANGED reader BY <3>1 DEF NoInput
    <3> QED BY <1>2, <1>7, <3>2
  <2>3. ASSUME NEW code \in use.keys, Keystroke(code) PROVE Unseen
    BY <1>1, <1>2, <2>3, KeystrokeStep
  <2>4. CASE Arrived BY <1>7, <2>4, ArrivedStep
  <2>5. CASE Fetch BY <1>7, <2>5, FetchStep
  <2>6. CASE Echo BY <1>7, <2>6, EchoStep
  <2> HIDE DEF Unseen
  <2> QED BY <1>8, <2>1, <2>2, <2>3, <2>4, <2>5, <2>6
          DEF CNext, InputStep, TakesKey, Calls
<1>9. TakesKey => TakeCode BY DEF TakesKey, __c_keyboard_isr, Poll
<1> QED BY <1>3, <1>4, <1>5, <1>6, <1>8, <1>9 DEF InputAnswered

-----------------------------------------------------------------------------
(* The roll of paper *)

\* The pen's way along the text; from the end of a shorter text it goes on.
IsPen(pen, t, width) ==
  /\ pen[0] = <<0, 0>>
  /\ \A n \in 1 .. Len(t) : pen[n] = Moved(pen[n - 1], t[n], width)
  /\ \A n \in 0 .. Len(t) : pen[n] \in (0 .. width - 1) \X Nat

LEMMA MovedFacts ==
  ASSUME NEW width \in Nat, width > 0, NEW p \in (0 .. width - 1) \X Nat, NEW c
  PROVE  /\ Moved(p, c, width) \in (0 .. width - 1) \X Nat
         /\ p[2] <= Moved(p, c, width)[2]
<1>1. p[1] \in 0 .. width - 1 /\ p[2] \in Nat /\ p = <<p[1], p[2]>> OBVIOUS
<1>2. CASE c = "\r" BY <1>1, <1>2 DEF Moved
<1>3. CASE c # "\r" /\ (c = "\n" \/ p[1] = width - 1) BY <1>1, <1>3 DEF Moved
<1>4. CASE c # "\r" /\ ~(c = "\n" \/ p[1] = width - 1)
  <2>1. p[1] + 1 \in 0 .. width - 1 BY <1>1, <1>4
  <2> QED BY <1>1, <1>4, <2>1 DEF Moved
<1> QED BY <1>2, <1>3, <1>4

LEMMA PenFacts ==
  ASSUME NEW width \in Nat, width > 0, NEW S, NEW t \in Seq(S)
  PROVE  IsPen(Pen(t, width), t, width)
<1> DEFINE N == Len(t)
           X == (0 .. width - 1) \X Nat
           first == <<0, 0>>
           step == [n \in 1 .. N |-> [p \in X |-> Moved(p, t[n], width)]]
           Fits(pen) == pen = [n \in 0 .. N |-> IF n = 0 THEN first
                                          ELSE Moved(pen[n - 1], t[n], width)]
<1>1. N \in Nat /\ first \in X OBVIOUS
<1> HIDE DEF N, X
<1>2. step \in [1 .. N -> [X -> X]]
  <2>1. \A n \in 1 .. N : \A p \in X : Moved(p, t[n], width) \in X
    BY MovedFacts DEF X
  <2> QED BY <2>1
<1>3. PICK f \in [0 .. N -> X] : Repeats(f, first, step, N)
  <2> HIDE DEF step, first
  <2> QED BY <1>1, <1>2, Repetition
<1>4. ASSUME NEW n \in 1 .. N PROVE f[n] = Moved(f[n - 1], t[n], width)
  <2>1. n - 1 \in 0 .. N /\ f[n - 1] \in X BY <1>1
  <2>2. f[n] = step[n][f[n - 1]] BY <1>3 DEF Repeats
  <2> QED BY <2>1, <2>2
<1>5. Fits(f)
  <2> HIDE DEF step
  <2>1. \A n \in 0 .. N : n = 0 \/ n \in 1 .. N BY <1>1
  <2>2. \A n \in 0 .. N : f[n] = IF n = 0 THEN first ELSE Moved(f[n - 1], t[n], width)
    BY <1>3, <1>4, <2>1 DEF Repeats
  <2>3. f = [n \in 0 .. N |-> f[n]] OBVIOUS
  <2> QED BY <2>2, <2>3
<1> DEFINE pen == CHOOSE pen : Fits(pen)
<1>6. Fits(pen) BY <1>5
<1>7. Pen(t, width) = pen BY DEF Pen, N
<1> HIDE DEF pen, step
<1>8. pen[0] = first /\ \A n \in 1 .. N : pen[n] = Moved(pen[n - 1], t[n], width)
  <2> HIDE DEF first
  <2>1. \A n \in 0 .. N : pen[n] = IF n = 0 THEN first
                                    ELSE Moved(pen[n - 1], t[n], width)
    BY <1>6
  <2>2. 0 \in 0 .. N /\ \A n \in 1 .. N : n \in 0 .. N /\ n # 0 BY <1>1
  <2> QED BY <2>1, <2>2
<1> HIDE DEF Fits
<1>9. \A n \in 0 .. N : pen[n] \in X
  <2>1. pen[0] \in X BY <1>1, <1>8
  <2>2. \A n \in 1 .. N : pen[n - 1] \in X => pen[n] \in X
    BY <1>8, MovedFacts DEF X
  <2> QED BY <1>1, <2>1, <2>2, StepInduction
<1> QED BY <1>7, <1>8, <1>9 DEF IsPen, N, X

\* The pen never goes up.
LEMMA PenDown ==
  ASSUME NEW width \in Nat, width > 0, NEW S, NEW t \in Seq(S),
         NEW pen, IsPen(pen, t, width)
  PROVE  \A n \in 0 .. Len(t) : \A m \in 0 .. n : pen[m][2] <= pen[n][2]
<1> DEFINE N == Len(t)
           T == {n \in Nat : n <= N => \A m \in 0 .. n : pen[m][2] <= pen[n][2]}
<1>1. /\ N \in Nat
      /\ \A n \in 0 .. N : pen[n][2] \in Nat /\ pen[n] \in (0 .. width - 1) \X Nat
  BY DEF IsPen
<1>2. 0 \in T BY <1>1
<1>3. ASSUME NEW n \in Nat, n \in T PROVE n + 1 \in T
  <2>1. SUFFICES ASSUME n + 1 <= N, NEW m \in 0 .. n + 1
                 PROVE  pen[m][2] <= pen[n + 1][2]
    OBVIOUS
  <2>2. n \in 0 .. N /\ n + 1 \in 1 .. N /\ n + 1 \in 0 .. N /\ (n + 1) - 1 = n
    BY <2>1
  <2>3. pen[n + 1] = Moved(pen[n], t[n + 1], width) BY <2>2 DEF IsPen
  <2>4. pen[n][2] <= pen[n + 1][2] BY <1>1, <2>2, <2>3, MovedFacts
  <2>5. CASE m = n + 1 BY <1>1, <2>2, <2>5
  <2>6. CASE m # n + 1
    <3>1. m \in 0 .. n /\ m \in 0 .. N BY <2>1, <2>2, <2>6
    <3>2. pen[m][2] <= pen[n][2] BY <1>3, <2>1, <3>1
    <3>3. pen[m][2] \in Nat /\ pen[n][2] \in Nat /\ pen[n + 1][2] \in Nat
      BY <1>1, <2>2, <3>1
    <3> QED BY <2>4, <3>2, <3>3
  <2> QED BY <2>5, <2>6
<1>4. \A n \in Nat : n \in T
  <2> HIDE DEF T
  <2> QED BY <1>2, <1>3, SetInduction
<1> QED BY <1>1, <1>4

\* A longer text takes the pen the same way, and one place further.
LEMMA PenGoesOn ==
  ASSUME NEW width \in Nat, width > 0, NEW S, NEW t \in Seq(S), NEW c \in S
  PROVE  LET pen == Pen(t, width)
             longer == Pen(Append(t, c), width)
         IN  /\ \A n \in 0 .. Len(t) : longer[n] = pen[n]
             /\ longer[Len(t) + 1] = Moved(pen[Len(t)], c, width)
<1> DEFINE pen == Pen(t, width)
           u == Append(t, c)
           longer == Pen(u, width)
           N == Len(t)
<1>1. /\ u \in Seq(S) /\ Len(u) = N + 1 /\ N \in Nat
      /\ \A n \in 1 .. N : u[n] = t[n] /\ n \in 1 .. N + 1
      /\ u[N + 1] = c /\ N + 1 \in 1 .. N + 1 /\ (N + 1) - 1 = N /\ N \in 0 .. N
  OBVIOUS
<1> HIDE DEF u
<1>2. IsPen(pen, t, width) /\ IsPen(longer, u, width) BY <1>1, PenFacts
<1> HIDE DEF pen, longer, N
<1>3. /\ pen[0] = longer[0]
      /\ \A n \in 1 .. N : /\ pen[n] = Moved(pen[n - 1], t[n], width)
                           /\ longer[n] = Moved(longer[n - 1], t[n], width)
      /\ longer[N + 1] = Moved(longer[N], c, width)
  BY <1>1, <1>2 DEF IsPen, N
<1>4. \A n \in 0 .. N : longer[n] = pen[n]
  <2> DEFINE T == {n \in Nat : n <= N => longer[n] = pen[n]}
  <2>1. 0 \in T BY <1>3
  <2>2. ASSUME NEW n \in Nat, n \in T PROVE n + 1 \in T
    <3>1. SUFFICES ASSUME n + 1 <= N PROVE longer[n + 1] = pen[n + 1]
      OBVIOUS
    <3>2. n + 1 \in 1 .. N /\ (n + 1) - 1 = n /\ longer[n] = pen[n]
      BY <1>1, <2>2, <3>1
    <3> QED BY <1>3, <3>2
  <2>3. \A n \in Nat : n \in T
    <3> HIDE DEF T
    <3> QED BY <2>1, <2>2, SetInduction
  <2> QED BY <1>1, <2>3
<1>5. longer[N] = pen[N] BY <1>1, <1>4
<1> QED BY <1>3, <1>4, <1>5 DEF pen, longer, u, N

\* Below what is written the paper is blank.
LEMMA PaperBelow ==
  ASSUME NEW S, NEW t \in Seq(S), NEW pen, NEW x, NEW y,
         \A n \in 1 .. Len(t) : pen[n - 1][2] # y
  PROVE  Paper(t, pen, x, y) = " "
<1> DEFINE written == {i \in DOMAIN t : /\ t[i] # "\r" /\ pen[i - 1][2] = y
                                        /\ \/ pen[i - 1][1] = x
                                           \/ t[i] = "\n" /\ pen[i - 1][1] < x}
<1>1. DOMAIN t = 1 .. Len(t) OBVIOUS
<1>2. written = {} BY <1>1
<1> QED BY <1>2 DEF Paper

\* One character more covers what was there.
Covered(before, c, at, x, y) ==
  IF /\ c # "\r" /\ at[2] = y
     /\ at[1] = x \/ (c = "\n" /\ at[1] < x)
  THEN IF c = "\n" THEN " " ELSE c
  ELSE before

LEMMA PaperGrows ==
  ASSUME NEW S, NEW t \in Seq(S), NEW c \in S, NEW pen, NEW longer, NEW x, NEW y,
         \A n \in 0 .. Len(t) : longer[n] = pen[n]
  PROVE  Paper(Append(t, c), longer, x, y) =
           Covered(Paper(t, pen, x, y), c, pen[Len(t)], x, y)
<1> DEFINE N == Len(t)
           u == Append(t, c)
           Covers(ch, p) == /\ ch # "\r" /\ p[2] = y
                            /\ \/ p[1] = x
                               \/ ch = "\n" /\ p[1] < x
           old == {i \in DOMAIN t : Covers(t[i], pen[i - 1])}
           new == {i \in DOMAIN u : Covers(u[i], longer[i - 1])}
<1>1. /\ N \in Nat /\ DOMAIN t = 1 .. N /\ DOMAIN u = 1 .. N + 1 /\ u[N + 1] = c
      /\ \A i \in 1 .. N : u[i] = t[i] /\ i \in 1 .. N + 1 /\ i - 1 \in 0 .. N
      /\ (N + 1) - 1 = N /\ N \in 0 .. N /\ N + 1 \in 1 .. N + 1
  OBVIOUS
<1>2. /\ Paper(t, pen, x, y) = IF old = {} \/ t[Max(old)] = "\n" THEN " " ELSE t[Max(old)]
      /\ Paper(u, longer, x, y) = IF new = {} \/ u[Max(new)] = "\n" THEN " "
                                  ELSE u[Max(new)]
  BY DEF Paper
<1> HIDE DEF u, N, Covers
<1>3. \A i \in 1 .. N : i \in old <=> i \in new BY <1>1 DEF N
<1>4. N + 1 \in new <=> Covers(c, pen[N]) BY <1>1 DEF N
<1>5. old \subseteq 1 .. N /\ new \subseteq 1 .. N + 1 BY <1>1
<1>6. \A i \in 1 .. N + 1 : i = N + 1 \/ i \in 1 .. N BY <1>1
<1> HIDE DEF old, new
<1>7. CASE Covers(c, pen[N])
  <2>1. N + 1 \in new BY <1>4, <1>7
  <2>2. Max(new) = N + 1
    <3>1. \A i \in new : N + 1 >= i BY <1>1, <1>5
    <3>2. \A j \in new : (\A i \in new : j >= i) => j = N + 1
      BY <1>1, <1>5, <2>1
    <3>3. PICK top : top = Max(new) OBVIOUS
    <3>4. top \in new /\ \A i \in new : top >= i BY <2>1, <3>1, <3>3 DEF Max
    <3> QED BY <3>2, <3>3, <3>4
  <2>3. Paper(u, longer, x, y) = IF c = "\n" THEN " " ELSE c BY <1>1, <1>2, <2>1, <2>2
  <2> QED BY <1>7, <2>3 DEF u, N, Covers, Covered
<1>8. CASE ~Covers(c, pen[N])
  <2>1. new = old BY <1>3, <1>4, <1>5, <1>6, <1>8
  <2>2. old # {} => Max(old) \in 1 .. N
    <3>1. SUFFICES ASSUME old # {} PROVE Max(old) \in 1 .. N
      OBVIOUS
    <3>2. old \subseteq 0 .. N BY <1>1, <1>5
    <3>3. \E m \in old : \A i \in old : m >= i
      BY <1>1, <3>1, <3>2, GreatestIn
    <3> QED BY <1>5, <3>3 DEF Max
  <2>3. Paper(u, longer, x, y) = Paper(t, pen, x, y)
    <3>1. CASE old = {} BY <1>2, <2>1, <3>1
    <3>2. CASE old # {}
      <4> DEFINE last == Max(old)
      <4>1. last \in 1 .. N BY <2>2, <3>2
      <4>2. u[last] = t[last] BY <1>1, <4>1
      <4>3. Max(new) = last BY <2>1
      <4> HIDE DEF last
      <4> DEFINE Ink(ch) == IF ch = "\n" THEN " " ELSE ch
      <4>4. Paper(t, pen, x, y) = Ink(t[last]) /\ Paper(u, longer, x, y) = Ink(u[last])
        BY <1>2, <2>1, <3>2, <4>3 DEF last
      <4> HIDE DEF Ink
      <4> QED BY <4>2, <4>4
    <3> QED BY <3>1, <3>2
  <2> QED BY <1>8, <2>3 DEF u, N, Covers, Covered
<1> QED BY <1>7, <1>8

\* The line of the roll at the top of the window.
TopLine(t, pen, height) ==
  IF t = <<>> THEN 0 ELSE Max({0, pen[Len(t) - 1][2] - height + 1})
Page(s, t, pen, top) ==
  \A x \in 0 .. Width(s) - 1, y \in 0 .. Height(s) - 1 :
    s.video[<<s.scroll_min_x + x, s.scroll_min_y + y>>] = Paper(t, pen, x, top + y)

\* The window is on the roll, and the cursor where the pen is.
Follows(s, t) ==
  LET pen == Pen(t, Width(s))
      top == TopLine(t, pen, Height(s))
  IN  /\ t \in Seq(Glyphs)
      /\ s.curr_x = s.scroll_min_x + pen[Len(t)][1]
      /\ s.curr_y = s.scroll_min_y + pen[Len(t)][2] - top
      /\ Page(s, t, pen, top)

LEMMA FollowsShows ==
  ASSUME NEW s, NEW t, Follows(s, t)
  PROVE  Shows(s, t)
BY DEF Follows, Shows, Page, TopLine

LEMMA MaxZero ==
  ASSUME NEW a \in Int
  PROVE  Max({0, a}) = (IF a > 0 THEN a ELSE 0)
<1> DEFINE S == {0, a}
           m == IF a > 0 THEN a ELSE 0
<1>1. m \in S /\ \A y \in S : m >= y OBVIOUS
<1>2. \A x \in S : (\A y \in S : x >= y) => x = m OBVIOUS
<1> HIDE DEF m, S
<1>3. PICK x : x = Max(S) OBVIOUS
<1>4. x \in S /\ \A y \in S : x >= y BY <1>1, <1>3 DEF Max
<1>5. Max(S) = m BY <1>2, <1>3, <1>4
<1> QED BY <1>5 DEF S, m

LEMMA SizeFacts ==
  ASSUME NEW s \in Screens
  PROVE  /\ Width(s) \in Nat /\ Width(s) > 0 /\ Height(s) \in Nat /\ Height(s) > 0
         /\ s.scroll_max_x = s.scroll_min_x + Width(s) - 1
         /\ s.scroll_max_y = s.scroll_min_y + Height(s) - 1
         /\ \A x \in 0 .. Width(s) - 1, y \in 0 .. Height(s) - 1 :
              /\ <<s.scroll_min_x + x, s.scroll_min_y + y>> \in Places
              /\ InWindow(s, <<s.scroll_min_x + x, s.scroll_min_y + y>>)
<1>1. /\ Width(s) \in Nat /\ Width(s) > 0 /\ Height(s) \in Nat /\ Height(s) > 0
      /\ s.scroll_max_x = s.scroll_min_x + Width(s) - 1
      /\ s.scroll_max_y = s.scroll_min_y + Height(s) - 1
  BY ScreenFields DEF Width, Height
<1>2. ASSUME NEW x \in 0 .. Width(s) - 1, NEW y \in 0 .. Height(s) - 1
      PROVE  /\ <<s.scroll_min_x + x, s.scroll_min_y + y>> \in Places
             /\ InWindow(s, <<s.scroll_min_x + x, s.scroll_min_y + y>>)
  <2> DEFINE a == s.scroll_min_x + x
             b == s.scroll_min_y + y
  <2>1. /\ a \in Int /\ b \in Int
        /\ a \in s.scroll_min_x .. s.scroll_max_x /\ b \in s.scroll_min_y .. s.scroll_max_y
        /\ a \in 0 .. max_x /\ b \in 0 .. max_y
    BY <1>1, ScreenFields, Sizes
  <2> HIDE DEF a, b
  <2>2. <<a, b>> \in Places BY <2>1, PlaceFacts
  <2>3. InWindow(s, <<a, b>>) BY <2>1 DEF InWindow
  <2> QED BY <2>2, <2>3 DEF a, b
<1> QED BY <1>1, <1>2

\* Before a character is written, the window is moved to the pen's line.
LEMMA LineFollows ==
  ASSUME NEW s0 \in Screens, NEW t, Follows(s0, t)
  PROVE  LET s   == Scrolled(s0)
             pen == Pen(t, Width(s0))
             at  == pen[Len(t)]
             top == Max({0, at[2] - Height(s0) + 1})
         IN  /\ s.curr_x = s0.scroll_min_x + at[1]
             /\ s.curr_y = s0.scroll_min_y + at[2] - top
             /\ top \in Nat
             /\ Page(s, t, pen, top)
<1> DEFINE s   == Scrolled(s0)
           pen == Pen(t, Width(s0))
           N   == Len(t)
           at  == pen[N]
           H   == Height(s0)
           a   == s0.scroll_min_x
           b   == s0.scroll_min_y
           top == Max({0, at[2] - H + 1})
           old == TopLine(t, pen, H)
<1>1. /\ t \in Seq(Glyphs) /\ N \in Nat
      /\ s0.curr_x = a + at[1] /\ s0.curr_y = b + at[2] - old
      /\ Page(s0, t, pen, old)
  BY DEF Follows
<1>2. /\ Width(s0) \in Nat /\ Width(s0) > 0 /\ H \in Nat /\ H > 0
      /\ s0.scroll_max_y = b + H - 1 /\ a \in Int /\ b \in Int
  BY SizeFacts, ScreenFields
<1>3. IsPen(pen, t, Width(s0)) BY <1>1, <1>2, PenFacts
<1>4. /\ \A n \in 0 .. N : pen[n] \in (0 .. Width(s0) - 1) \X Nat /\ pen[n][2] \in Nat
      /\ pen[0] = <<0, 0>> /\ at[2] \in Nat
  BY <1>1, <1>3 DEF IsPen
<1>5. /\ s \in Screens /\ SameWindow(s0, s)
      /\ s.curr_x = s0.curr_x
      /\ s.curr_y = IF s0.curr_y > s0.scroll_max_y THEN s0.scroll_max_y
                    ELSE s0.curr_y
      /\ s0.curr_y <= s0.scroll_max_y => s.video = s0.video
      /\ s0.curr_y > s0.scroll_max_y =>
           \A p \in Places : s.video[p] = Lifted(s0, p, 1)
  BY ScrolledFacts
<1>6. Width(s) = Width(s0) /\ Height(s) = H /\ s.scroll_min_x = a /\ s.scroll_min_y = b
  BY <1>5 DEF SameWindow, Width, Height
<1> HIDE DEF s, pen, H, N
<1>7. CASE N = 0
  <2>1. old = 0
    <3>1. t = <<>> BY <1>1, <1>7 DEF N
    <3> QED BY <3>1 DEF TopLine
  <2>2. at[2] = 0 BY <1>4, <1>7
  <2>3. at[2] - H + 1 \in Int /\ ~(at[2] - H + 1 > 0) BY <1>2, <2>2
  <2>4. top = 0 BY <2>3, MaxZero
  <2>5. ~(s0.curr_y > s0.scroll_max_y) /\ s0.curr_y <= s0.scroll_max_y
    BY <1>1, <1>2, <2>1, <2>2
  <2> HIDE DEF top, old
  <2>6. s.video = s0.video /\ s.curr_y = s0.curr_y BY <1>5, <2>5
  <2>7. Page(s, t, pen, top) BY <1>1, <1>6, <2>1, <2>4, <2>6 DEF Page, H
  <2> QED BY <1>1, <1>5, <2>1, <2>4, <2>6, <2>7 DEF s, pen, H, N, top
<1>8. CASE N # 0
  <2> DEFINE e == pen[N - 1][2]
  <2>1. N - 1 \in 0 .. N /\ N \in 0 .. N /\ e \in Nat BY <1>1, <1>4, <1>8
  <2>2. \A n \in 1 .. N : n - 1 \in 0 .. N - 1 /\ n - 1 \in 0 .. N
    BY <1>1
  <2>3. /\ e <= at[2] /\ \A n \in 1 .. N : pen[n - 1][2] <= e
    <3>1. \A n \in 0 .. N : \A m \in 0 .. n : pen[m][2] <= pen[n][2]
      BY <1>1, <1>2, <1>3, PenDown DEF N
    <3> QED BY <2>1, <2>2, <3>1
  <2>4. old = IF e - H + 1 > 0 THEN e - H + 1 ELSE 0
    <3>1. t # <<>> BY <1>8 DEF N
    <3>2. old = Max({0, e - H + 1}) BY <3>1 DEF TopLine, N
    <3> HIDE DEF old, e
    <3>3. e - H + 1 \in Int BY <1>2, <2>1
    <3> QED BY <3>2, <3>3, MaxZero
  <2>5. top = IF at[2] - H + 1 > 0 THEN at[2] - H + 1 ELSE 0
    <3> HIDE DEF at
    <3>1. at[2] - H + 1 \in Int BY <1>2, <1>4
    <3> QED BY <3>1, MaxZero
  <2> DEFINE d == at[2]
  <2>6. d \in Nat /\ e <= d /\ top = IF d - H + 1 > 0 THEN d - H + 1 ELSE 0
    BY <1>4, <2>3, <2>5
  <2>7. s0.curr_y = b + d - old BY <1>1
  <2> HIDE DEF top, old, e, d, at
  <2>8. top \in Nat /\ old \in Nat BY <1>2, <2>1, <2>4, <2>6
  <2>9. s0.curr_y \in Int /\ s0.curr_y <= s0.scroll_max_y + 1 BY ScreenFields
  <2>10. CASE s0.curr_y > s0.scroll_max_y
    <3>1. d - old = H BY <1>2, <2>6, <2>7, <2>8, <2>9, <2>10
    <3>2. top = old + 1 /\ e < d
      BY <1>2, <2>1, <2>4, <2>6, <2>8, <3>1
    <3>3. s.curr_y = b + d - top
      BY <1>2, <1>5, <2>6, <2>8, <2>10, <3>1, <3>2
    <3>4. Page(s, t, pen, top)
      <4>1. SUFFICES ASSUME NEW x \in 0 .. Width(s0) - 1, NEW y \in 0 .. H - 1
                     PROVE  s.video[<<a + x, b + y>>] = Paper(t, pen, x, top + y)
        BY <1>6 DEF Page
      <4> DEFINE p == <<a + x, b + y>>
      <4>2. p \in Places /\ InWindow(s0, p) BY SizeFacts DEF H
      <4>3. s.video[p] = Lifted(s0, p, 1) BY <1>5, <2>10, <4>2
      <4>4. CASE y < H - 1
        <5>1. (b + y) + 1 = b + (y + 1) /\ top + y = old + (y + 1)
              /\ y + 1 \in 0 .. H - 1 /\ b + (y + 1) <= s0.scroll_max_y
          BY <1>2, <2>8, <3>2, <4>4
        <5>2. s.video[p] = s0.video[<<a + x, b + (y + 1)>>]
          <6>1. p[1] = a + x /\ p[2] = b + y OBVIOUS
          <6>2. p[2] + 1 = b + (y + 1) /\ p[2] + 1 <= s0.scroll_max_y BY <5>1, <6>1
          <6> HIDE DEF p
          <6>3. s.video[p] = s0.video[<<p[1], p[2] + 1>>]
            BY <4>2, <4>3, <6>2 DEF Lifted
          <6> QED BY <6>1, <6>2, <6>3
        <5>3. s0.video[<<a + x, b + (y + 1)>>] = Paper(t, pen, x, old + (y + 1))
          BY <1>1, <5>1 DEF Page, H
        <5> QED BY <5>1, <5>2, <5>3
      <4>5. CASE y = H - 1
        <5>1. top + y = d /\ ~((b + y) + 1 <= s0.scroll_max_y)
          BY <1>2, <2>6, <2>8, <3>1, <3>2, <4>5
        <5>2. s.video[p] = " " BY <4>2, <4>3, <5>1 DEF Lifted
        <5>3. \A n \in 1 .. N : pen[n - 1][2] # d
          BY <1>4, <2>1, <2>2, <2>3, <2>6, <3>2 DEF d
        <5>4. Paper(t, pen, x, d) = " " BY <1>1, <5>3, PaperBelow DEF N
        <5> QED BY <5>1, <5>2, <5>4
      <4>6. y < H - 1 \/ y = H - 1 BY <1>2
      <4> QED BY <4>4, <4>5, <4>6
    <3>5. s.curr_x = a + at[1] BY <1>1, <1>5 DEF at
    <3> QED BY <2>8, <3>3, <3>4, <3>5 DEF s, pen, H, N, top, d, at
  <2>11. CASE ~(s0.curr_y > s0.scroll_max_y)
    <3>1. s0.curr_y <= s0.scroll_max_y BY <2>9, <2>11, ScreenFields
    <3>2. top = old BY <1>2, <2>1, <2>4, <2>6, <2>7, <2>8, <3>1
    <3>3. s.video = s0.video /\ s.curr_y = s0.curr_y BY <1>5, <2>11, <3>1
    <3>4. Page(s, t, pen, top) BY <1>1, <1>6, <3>2, <3>3 DEF Page, H
    <3>5. s.curr_x = a + at[1] BY <1>1, <1>5 DEF at
    <3>6. s.curr_y = b + d - top BY <2>7, <3>2, <3>3
    <3> QED BY <2>8, <3>4, <3>5, <3>6 DEF s, pen, H, N, top, d, at
  <2> QED BY <2>10, <2>11
<1> QED BY <1>7, <1>8

\* One character more on the roll and in the window.
LEMMA PutcharFollows ==
  ASSUME NEW s0 \in Screens, NEW t, NEW c \in Glyphs, Follows(s0, t)
  PROVE  Follows(c_putchar(s0, c), Append(t, c))
<1> DEFINE s   == Scrolled(s0)
           r   == c_putchar(s0, c)
           u   == Append(t, c)
           W   == Width(s0)
           H   == Height(s0)
           N   == Len(t)
           pen == Pen(t, W)
           longer == Pen(u, W)
           at  == pen[N]
           a   == s0.scroll_min_x
           b   == s0.scroll_min_y
           top == Max({0, at[2] - H + 1})
<1>1. /\ t \in Seq(Glyphs) /\ N \in Nat /\ u \in Seq(Glyphs) /\ Len(u) = N + 1
      /\ u # <<>> /\ (N + 1) - 1 = N /\ N \in 0 .. N
  BY DEF Follows
<1>2. /\ W \in Nat /\ W > 0 /\ H \in Nat /\ H > 0 /\ a \in Int /\ b \in Int
      /\ s0.scroll_max_x = a + W - 1 /\ s0.scroll_max_y = b + H - 1
  BY SizeFacts, ScreenFields
<1>3. /\ s.curr_x = a + at[1] /\ s.curr_y = b + at[2] - top /\ top \in Nat
      /\ Page(s, t, pen, top)
  BY LineFollows
<1>4. /\ s \in Screens /\ SameWindow(s0, s) BY ScrolledFacts
<1>5. /\ r \in Screens /\ SameWindow(s, r)
      /\ <<r.curr_x, r.curr_y>> = NextPlace(s, c)
      /\ \A p \in Places : r.video[p] = Written(s, c, p)
  BY PutcharFacts
<1>6. /\ \A n \in 0 .. N : longer[n] = pen[n]
      /\ longer[N + 1] = Moved(at, c, W)
  BY <1>1, <1>2, PenGoesOn
<1>7. at \in (0 .. W - 1) \X Nat /\ at[1] \in 0 .. W - 1 /\ at[2] \in Nat
  <2>1. IsPen(pen, t, W) BY <1>1, <1>2, PenFacts
  <2> HIDE DEF pen, W
  <2>2. at \in (0 .. W - 1) \X Nat BY <1>1, <2>1 DEF IsPen
  <2> HIDE DEF at
  <2> QED BY <2>2
<1>8. /\ s.scroll_min_x = a /\ s.scroll_min_y = b
      /\ s.scroll_max_x = a + W - 1 /\ s.scroll_max_y = b + H - 1
      /\ r.scroll_min_x = a /\ r.scroll_min_y = b /\ Width(s) = W /\ Height(s) = H
      /\ Width(r) = W /\ Height(r) = H
  BY <1>2, <1>4, <1>5 DEF SameWindow, Width, Height
<1>9. TopLine(u, longer, H) = top
  <2>1. longer[N] = pen[N] BY <1>1, <1>6
  <2> HIDE DEF u, longer, N, pen, H
  <2> QED BY <1>1, <2>1 DEF TopLine
<1> HIDE DEF s, r, W, H, N, pen, longer, at, top, a, b, u
<1>10. /\ r.curr_x = a + longer[N + 1][1]
       /\ r.curr_y = b + longer[N + 1][2] - top
  <2>1. r.curr_x = NextPlace(s, c)[1] /\ r.curr_y = NextPlace(s, c)[2]
    <3>1. \A x, y, p : <<x, y>> = p => x = p[1] /\ y = p[2] OBVIOUS
    <3> QED BY <1>5, <3>1
  <2>2. CASE c = "\r"
    BY <1>2, <1>3, <1>6, <1>7, <1>8, <2>1, <2>2 DEF NextPlace, Moved
  <2>3. CASE c # "\r" /\ (c = "\n" \/ at[1] = W - 1)
    <3>1. c = "\n" \/ s.curr_x = s.scroll_max_x BY <1>2, <1>3, <1>7, <1>8, <2>3
    <3>2. NextPlace(s, c) = <<s.scroll_min_x, s.curr_y + 1>> BY <2>3, <3>1 DEF NextPlace
    <3>3. longer[N + 1] = <<0, at[2] + 1>> BY <1>6, <2>3 DEF Moved
    <3> QED BY <1>2, <1>3, <1>7, <1>8, <2>1, <3>2, <3>3
  <2>4. CASE c # "\r" /\ ~(c = "\n" \/ at[1] = W - 1)
    <3>1. ~(c = "\n" \/ s.curr_x = s.scroll_max_x) BY <1>2, <1>3, <1>7, <1>8, <2>4
    <3>2. NextPlace(s, c) = <<s.curr_x + 1, s.curr_y>> BY <2>4, <3>1 DEF NextPlace
    <3>3. longer[N + 1] = <<at[1] + 1, at[2]>> BY <1>6, <2>4 DEF Moved
    <3> QED BY <1>2, <1>3, <1>7, <1>8, <2>1, <3>2, <3>3
  <2> QED BY <2>2, <2>3, <2>4
<1>11. Page(r, u, longer, top)
  <2>1. SUFFICES ASSUME NEW x \in 0 .. W - 1, NEW y \in 0 .. H - 1
                 PROVE  r.video[<<a + x, b + y>>] = Paper(u, longer, x, top + y)
    BY <1>8 DEF Page
  <2> DEFINE p == <<a + x, b + y>>
             here == at[2] = top + y
  <2>2. p \in Places /\ p[1] = a + x /\ p[2] = b + y BY SizeFacts DEF a, b, W, H
  <2>3. r.video[p] = Written(s, c, p) BY <1>5, <2>2
  <2>4. s.video[p] = Paper(t, pen, x, top + y) BY <1>3, <1>8 DEF Page
  <2>5. Paper(u, longer, x, top + y) =
          Covered(Paper(t, pen, x, top + y), c, at, x, top + y)
    <3> DEFINE z == top + y
    <3> HIDE DEF z
    <3>1. Paper(Append(t, c), longer, x, z) =
            Covered(Paper(t, pen, x, z), c, pen[Len(t)], x, z)
      BY <1>1, <1>6, PaperGrows DEF N
    <3> QED BY <3>1 DEF z, u, at, N
  <2> SUFFICES r.video[p] = Paper(u, longer, x, top + y)
    OBVIOUS
  <2> HIDE DEF p
  <2>6. p[2] = s.curr_y <=> here BY <1>2, <1>3, <1>7, <2>2
  <2>7. p[1] \in s.curr_x .. s.scroll_max_x <=> at[1] <= x
    BY <1>2, <1>3, <1>7, <1>8, <2>2
  <2>8. p[1] = s.curr_x <=> at[1] = x
    <3>1. at[1] \in Int /\ x \in Int BY <1>2, <1>7
    <3>2. p[1] = a + x /\ s.curr_x = a + at[1] BY <1>3, <2>2
    <3> HIDE DEF p
    <3> QED BY <1>2, <3>1, <3>2
  <2>9. at[1] <= x <=> at[1] = x \/ at[1] < x BY <1>2, <1>7
  <2>10. p = <<s.curr_x, s.curr_y>> <=> p[1] = s.curr_x /\ p[2] = s.curr_y
    BY <2>2 DEF p
  <2> HIDE DEF here
  <2>11. CASE c = "\n"
    BY <2>3, <2>4, <2>5, <2>6, <2>7, <2>9, <2>11 DEF Written, Covered, here
  <2>12. CASE c = "\r"
    BY <2>3, <2>4, <2>5, <2>12 DEF Written, Covered
  <2>13. CASE c # "\n" /\ c # "\r"
    BY <2>3, <2>4, <2>5, <2>6, <2>8, <2>10, <2>13 DEF Written, Covered, here
  <2> QED BY <2>11, <2>12, <2>13
<1>12. u \in Seq(Glyphs) /\ Len(u) = N + 1 BY <1>1
<1> QED BY <1>8, <1>9, <1>10, <1>11, <1>12 DEF Follows, longer, r, u

LEMMA SeqFacts ==
  ASSUME NEW S, NEW t \in Seq(S), NEW str \in Seq(S)
  PROVE  /\ t \o SubSeq(str, 1, 0) = t /\ SubSeq(str, 1, Len(str)) = str
         /\ \A n \in 1 .. Len(str) :
              t \o SubSeq(str, 1, n) = Append(t \o SubSeq(str, 1, n - 1), str[n])
         /\ \A c \in S : t \o <<c>> = Append(t, c)
<1>1. t \o SubSeq(str, 1, 0) = t /\ SubSeq(str, 1, Len(str)) = str OBVIOUS
<1>2. \A c \in S : t \o <<c>> = Append(t, c) OBVIOUS
<1>3. ASSUME NEW n \in 1 .. Len(str)
      PROVE  t \o SubSeq(str, 1, n) = Append(t \o SubSeq(str, 1, n - 1), str[n])
  <2> DEFINE f == t \o SubSeq(str, 1, n)
             h == t \o SubSeq(str, 1, n - 1)
             g == Append(h, str[n])
  <2>1. SubSeq(str, 1, n) \in Seq(S) /\ Len(SubSeq(str, 1, n)) = n
    OBVIOUS
  <2>2. SubSeq(str, 1, n - 1) \in Seq(S) /\ Len(SubSeq(str, 1, n - 1)) = n - 1
    OBVIOUS
  <2>3. f \in Seq(S) /\ Len(f) = Len(t) + n BY <2>1
  <2>4. h \in Seq(S) /\ Len(h) = Len(t) + n - 1 BY <2>2
  <2>5. g \in Seq(S) /\ Len(g) = Len(t) + n BY <2>4
  <2>6. ASSUME NEW i \in 1 .. Len(f) PROVE f[i] = g[i]
    <3>1. CASE i <= Len(t)
      BY <2>1, <2>2, <2>3, <2>4, <3>1
    <3>2. CASE i > Len(t) /\ i < Len(t) + n
      BY <2>1, <2>2, <2>3, <2>4, <3>2
    <3>3. CASE i = Len(t) + n
      BY <2>1, <2>2, <2>3, <2>4, <3>3
    <3> QED BY <2>3, <3>1, <3>2, <3>3
  <2> QED BY <2>3, <2>5, <2>6, SameSequence
<1> QED BY <1>1, <1>2, <1>3

LEMMA PutsFollows ==
  ASSUME NEW s \in Screens, NEW t, NEW str \in Seq(Glyphs), Follows(s, t)
  PROVE  Follows(c_puts(s, str), t \o str)
<1>1. t \in Seq(Glyphs) BY DEF Follows
<1>2. PICK after \in [0 .. Len(str) -> Screens] :
        /\ after[0] = s /\ c_puts(s, str) = after[Len(str)]
        /\ \A n \in 1 .. Len(str) : after[n] = c_putchar(after[n - 1], str[n])
  BY PutsFacts
<1> DEFINE Upto(n) == t \o SubSeq(str, 1, n)
           T == {n \in Nat : n <= Len(str) => Follows(after[n], Upto(n))}
<1>3. 0 \in T BY <1>1, <1>2, SeqFacts
<1>4. ASSUME NEW n \in Nat, n \in T PROVE n + 1 \in T
  <2>1. SUFFICES ASSUME n + 1 <= Len(str) PROVE Follows(after[n + 1], Upto(n + 1))
    OBVIOUS
  <2>2. /\ n + 1 \in 1 .. Len(str) /\ n \in 0 .. Len(str) /\ (n + 1) - 1 = n
        /\ Follows(after[n], Upto(n)) /\ str[n + 1] \in Glyphs
    BY <1>4, <2>1
  <2>3. after[n + 1] = c_putchar(after[n], str[n + 1]) /\ after[n] \in Screens
    BY <1>2, <2>2
  <2>4. Upto(n + 1) = Append(Upto(n), str[n + 1]) BY <1>1, <2>2, SeqFacts
  <2> HIDE DEF Upto
  <2> QED BY <2>2, <2>3, <2>4, PutcharFollows
<1>5. Len(str) \in T
  <2> HIDE DEF T
  <2>1. Len(str) \in Nat OBVIOUS
  <2> QED BY <1>3, <1>4, <2>1, SetInduction
<1>6. Follows(after[Len(str)], Upto(Len(str))) BY <1>5
<1>7. Upto(Len(str)) = t \o str BY <1>1, SeqFacts
<1> QED BY <1>2, <1>6, <1>7

\* What is printed above the window does not touch it.
LEMMA AboveFollows ==
  ASSUME NEW s \in Screens, NEW t, Follows(s, t), NEW r \in Screens,
         SameWindow(s, r), SameCursor(s, r), KeptIn(Inside(s), s, r)
  PROVE  Follows(r, t)
<1>1. /\ Width(r) = Width(s) /\ Height(r) = Height(s)
      /\ r.scroll_min_x = s.scroll_min_x /\ r.scroll_min_y = s.scroll_min_y
  BY DEF SameWindow, Width, Height
<1>2. \A x \in 0 .. Width(s) - 1, y \in 0 .. Height(s) - 1 :
        r.video[<<s.scroll_min_x + x, s.scroll_min_y + y>>]
          = s.video[<<s.scroll_min_x + x, s.scroll_min_y + y>>]
  BY SizeFacts DEF KeptIn, Inside
<1>3. \A pen, top : Page(s, t, pen, top) => Page(r, t, pen, top)
  BY <1>1, <1>2 DEF Page
<1> QED BY <1>1, <1>3 DEF Follows, SameCursor

\* A program whose text is remembered reads no keys, and prints elsewhere only
\* above its window.
TextInv ==
  /\ InputInv
  /\ use.MAX_TEXT > 0 =>
       /\ reader.pc = "idle"
       /\ screen.scroll_min_y = bound(min_y, use.window[2], max_y)
       /\ Follows(screen, text)

LEMMA TextInit == CInit => TextInv
<1> SUFFICES ASSUME CInit PROVE TextInv
  OBVIOUS
<1>1. InputInv BY InputInit
<1>2. screen \in Screens /\ program \in DOMAIN Uses BY <1>1 DEF InputInv, CTypeOK
<1> DEFINE video == [p \in Places |-> "?"]
           k == c_clearscreen(c_io_init(video))
<1>3. screen = c_setscroll(k, use.window[1], use.window[2],
                           use.window[3], use.window[4])
  BY DEF CInit
<1>4. k \in Screens /\ \A p \in Places : k.video[p] = " "
  <2>1. video \in [Places -> Glyphs] BY DEF Glyphs
  <2> HIDE DEF video
  <2>2. c_io_init(video) \in Screens BY <2>1, IoInitFacts
  <2> QED BY <2>2, ClearFacts
<1>5. /\ use.window[1] \in Int /\ use.window[2] \in Int
      /\ use.window[3] \in Int /\ use.window[4] \in Int
  <2>1. use.window \in Int \X Int \X Int \X Int BY <1>2, UseFacts
  <2> QED BY <2>1
<1> HIDE DEF k
<1>6. /\ screen.video = k.video
      /\ screen.scroll_min_y = bound(min_y, use.window[2], max_y)
      /\ screen.curr_x = screen.scroll_min_x /\ screen.curr_y = screen.scroll_min_y
  <2> DEFINE w1 == use.window[1]
             w2 == use.window[2]
             w3 == use.window[3]
             w4 == use.window[4]
             r  == c_setscroll(k, w1, w2, w3, w4)
  <2>1. w1 \in Int /\ w2 \in Int /\ w3 \in Int /\ w4 \in Int BY <1>5
  <2>2. screen = r BY <1>3
  <2> HIDE DEF w1, w2, w3, w4
  <2>3. /\ r.video = k.video /\ r.scroll_min_y = bound(min_y, w2, max_y)
        /\ r.curr_x = r.scroll_min_x /\ r.curr_y = r.scroll_min_y
    <3> DEFINE IsSet(q, t, p) == /\ p.video = q.video
                                 /\ p.scroll_min_y = bound(min_y, t, max_y)
                                 /\ p.curr_x = p.scroll_min_x
                                 /\ p.curr_y = p.scroll_min_y
    <3>1. k \in Screens BY <1>4
    <3>2. IsSet(k, w2, r) BY <2>1, <3>1, SetscrollFacts
    <3> QED BY <3>2
  <2> HIDE DEF r
  <2> QED BY <2>2, <2>3 DEF w2
<1>7. text = <<>> /\ text \in Seq(Glyphs) /\ Len(text) = 0 /\ reader.pc = "idle"
  BY DEF CInit
<1> DEFINE s == screen
           pen == Pen(text, Width(s))
           top == TopLine(text, pen, Height(s))
<1>8. pen[0] = <<0, 0>>
  <2>1. Width(s) \in Nat /\ Width(s) > 0 BY <1>2, SizeFacts
  <2>2. IsPen(pen, text, Width(s)) BY <1>7, <2>1, PenFacts
  <2> QED BY <2>2 DEF IsPen
<1>9. top = 0 BY <1>7 DEF TopLine
<1> HIDE DEF pen, top
<1>10. Page(s, text, pen, top)
  <2>1. SUFFICES ASSUME NEW x \in 0 .. Width(s) - 1, NEW y \in 0 .. Height(s) - 1
                 PROVE  s.video[<<s.scroll_min_x + x, s.scroll_min_y + y>>]
                          = Paper(text, pen, x, top + y)
    BY DEF Page
  <2>2. s.video[<<s.scroll_min_x + x, s.scroll_min_y + y>>] = " "
    BY <1>2, <1>4, <1>6, SizeFacts
  <2> DEFINE z == top + y
  <2> HIDE DEF z
  <2>3. \A n \in 1 .. Len(text) : pen[n - 1][2] # z BY <1>7
  <2>4. Paper(text, pen, x, z) = " " BY <1>7, <2>3, PaperBelow
  <2> QED BY <2>2, <2>4 DEF z
<1>11. /\ s.curr_x = s.scroll_min_x + pen[Len(text)][1]
       /\ s.curr_y = s.scroll_min_y + pen[Len(text)][2] - top
  <2>1. pen[Len(text)][1] = 0 /\ pen[Len(text)][2] = 0 BY <1>7, <1>8
  <2> QED BY <1>2, <1>6, <1>9, <2>1, ScreenFields
<1>12. Follows(screen, text) BY <1>7, <1>10, <1>11 DEF Follows, pen, top
<1> QED BY <1>1, <1>6, <1>7, <1>12 DEF TextInv

LEMMA TextStep ==
  ASSUME TextInv, [CNext]_cvars
  PROVE  TextInv'
<1>1. InputInv /\ InputInv' BY InputStepKeeps DEF TextInv
<1>2. screen \in Screens /\ screen' \in Screens /\ program \in DOMAIN Uses
  BY <1>1 DEF InputInv, CTypeOK
<1>3. program' = program
  BY DEF CNext, cvars, ScreenCall, InputStep, Putchar, Puts, PrintField, PutcharAt,
         PutsAt, PrintfAt, Arrange, NoInput, __c_keyboard_isr, Keystroke, TakeCode,
         Getchar, Gets, Poll, Arrived, Fetch, Return, Echo
<1>4. use' = use BY <1>3 DEF use
<1>5. SUFFICES ASSUME use.MAX_TEXT > 0
               PROVE  /\ reader'.pc = "idle"
                      /\ screen'.scroll_min_y = bound(min_y, use.window[2], max_y)
                      /\ Follows(screen', text')
  BY <1>1, <1>4 DEF TextInv
<1> DEFINE s == screen
           edge == bound(min_y, use.window[2], max_y)
<1>6. /\ reader.pc = "idle" /\ s.scroll_min_y = edge /\ Follows(s, text)
  BY <1>5 DEF TextInv
<1>7. /\ use.fields = {} /\ use.words = {} /\ use.formats = {} /\ use.moves = {}
      /\ use.windows = {} /\ use.lines = {} /\ use.keys = {} /\ use.sizes = {}
      /\ \A p \in use.places : p[2] < edge
  <2>1. /\ {} = UNION {use.fields, use.words, use.formats, use.moves,
                       use.windows, use.lines, use.keys, use.sizes}
        /\ \A p \in use.places : p[2] < bound(min_y, use.window[2], max_y)
    BY <1>2, <1>5, UseFacts
  <2> QED BY <2>1
<1> HIDE DEF edge
<1>8. use.MAX_TEXT # 0
  <2>1. use.MAX_TEXT \in Nat BY <1>2, UseFacts
  <2> QED BY <1>5, <2>1
<1>a. ASSUME NEW r, screen' = r, Follows(r, text'), SameWindow(s, r), reader' = reader
      PROVE  /\ reader'.pc = "idle" /\ screen'.scroll_min_y = edge
             /\ Follows(screen', text')
  BY <1>6, <1>a DEF SameWindow
<1>9. CASE UNCHANGED cvars
  <2>1. SameWindow(s, s) BY DEF SameWindow
  <2> QED BY <1>6, <1>9, <1>a, <2>1 DEF cvars, edge
<1>10. ASSUME NEW c \in use.chars, Putchar(c)
       PROVE  /\ reader'.pc = "idle" /\ screen'.scroll_min_y = edge
              /\ Follows(screen', text')
  <2>1. c \in Glyphs BY <1>2, UseFacts
  <2>2. /\ screen' = c_putchar(s, c) /\ text' = text \o <<c>> /\ reader' = reader
    BY <1>8, <1>10 DEF Putchar, Shown, NoInput
  <2>3. text' = Append(text, c)
    <3>1. text \in Seq(Glyphs) BY <1>6 DEF Follows
    <3> QED BY <2>1, <2>2, <3>1, SeqFacts
  <2>4. Follows(c_putchar(s, c), Append(text, c)) BY <1>2, <1>6, <2>1, PutcharFollows
  <2>5. SameWindow(s, c_putchar(s, c)) BY <1>2, <2>1, PutcharKeeps
  <2> QED BY <1>a, <2>2, <2>3, <2>4, <2>5
<1>11. ASSUME NEW str \in use.strings, Puts(str)
       PROVE  /\ reader'.pc = "idle" /\ screen'.scroll_min_y = edge
              /\ Follows(screen', text')
  <2>1. str \in Seq(Glyphs) BY <1>2, UseFacts
  <2>2. /\ screen' = c_puts(s, str) /\ text' = text \o str /\ reader' = reader
    BY <1>8, <1>11 DEF Puts, Shown, NoInput
  <2>3. Follows(c_puts(s, str), text \o str) BY <1>2, <1>6, <2>1, PutsFollows
  <2>4. SameWindow(s, c_puts(s, str))
    BY <1>2, <2>1, PutsFacts DEF LeavesOutside
  <2> QED BY <1>a, <2>2, <2>3, <2>4
<1>b. ASSUME NEW y \in Int, y < edge, NEW r \in Screens, SameWindow(s, r), SameCursor(s, r),
             \A p \in Places : p[2] # y => r.video[p] = s.video[p]
      PROVE  Follows(r, text)
  <2>1. ASSUME NEW p \in Inside(s) PROVE p \in Places /\ p[2] # y
    <3>1. p \in Places /\ InWindow(s, p) BY DEF Inside
    <3>2. p[2] \in s.scroll_min_y .. s.scroll_max_y BY <3>1 DEF InWindow
    <3> QED BY <1>2, <1>6, <1>b, <3>1, <3>2, ScreenFields
  <2>2. KeptIn(Inside(s), s, r) BY <1>b, <2>1 DEF KeptIn
  <2> QED BY <1>2, <1>6, <1>b, <2>2, AboveFollows
<1>12. ASSUME NEW p \in use.places, NEW c \in use.glyphs, PutcharAt(p[1], p[2], c)
       PROVE  /\ reader'.pc = "idle" /\ screen'.scroll_min_y = edge
              /\ Follows(screen', text')
  <2> DEFINE x == p[1]
             y == p[2]
             r == c_putchar_at(s, x, y, c)
  <2>1. x \in Int /\ y \in Int /\ c \in Glyphs BY <1>2, UseFacts
  <2>2. y < edge BY <1>7
  <2>3. screen' = r /\ text' = text /\ reader' = reader
    BY <1>12 DEF PutcharAt, shown, NoInput
  <2> HIDE DEF x, y
  <2>4. /\ r \in Screens /\ SameWindow(s, r) /\ SameCursor(s, r)
        /\ \A q \in Places : q[2] # y => r.video[q] = s.video[q]
    BY <1>2, <2>1, PutcharAtFacts
  <2> HIDE DEF r
  <2>5. Follows(r, text) BY <1>b, <2>1, <2>2, <2>4
  <2> QED BY <1>a, <2>3, <2>4, <2>5
<1>13. ASSUME NEW p \in use.places, NEW str \in use.strings, PutsAt(p[1], p[2], str)
       PROVE  /\ reader'.pc = "idle" /\ screen'.scroll_min_y = edge
              /\ Follows(screen', text')
  <2> DEFINE x == p[1]
             y == p[2]
             r == c_puts_at(s, x, y, str)
  <2>1. x \in Int /\ y \in Int /\ str \in Seq(Glyphs) BY <1>2, UseFacts
  <2>2. y < edge BY <1>7
  <2>3. screen' = r /\ text' = text /\ reader' = reader
    BY <1>13 DEF PutsAt, shown, NoInput
  <2> HIDE DEF x, y
  <2>4. r \in LeavesLines(s, Int \ {y}) BY <1>2, <2>1, PutsAtFacts
  <2> HIDE DEF r
  <2>5. /\ r \in Screens /\ SameWindow(s, r) /\ SameCursor(s, r)
        /\ \A q \in Places : q[2] # y => r.video[q] = s.video[q]
    BY <2>4, PlaceFacts DEF LeavesLines
  <2>6. Follows(r, text) BY <1>b, <2>1, <2>2, <2>5
  <2> QED BY <1>a, <2>3, <2>5, <2>6
<1>14. CASE ScreenCall
  <2>1. \/ \E c \in use.chars : Putchar(c)
        \/ \E str \in use.strings : Puts(str)
        \/ \E p \in use.places : \E c \in use.glyphs : PutcharAt(p[1], p[2], c)
        \/ \E p \in use.places : \E str \in use.strings : PutsAt(p[1], p[2], str)
    BY <1>7, <1>14 DEF ScreenCall
  <2> QED BY <1>10, <1>11, <1>12, <1>13, <2>1 DEF edge
<1>15. InputStep => reader' = reader /\ screen' = screen /\ text' = text
  <2>1. reader.pc = "idle" /\ use.keys = {} /\ use.sizes = {} BY <1>6, <1>7
  <2> QED
    BY <2>1 DEF InputStep, Keystroke, __c_keyboard_isr, TakeCode, Getchar, Gets, Poll,
                Arrived, Fetch, Return, Echo, shown
<1>16. CASE InputStep
  <2>1. screen' = s /\ text' = text /\ reader' = reader BY <1>15, <1>16
  <2>2. SameWindow(s, s) BY DEF SameWindow
  <2> QED BY <1>6, <1>a, <2>1, <2>2 DEF edge
<1> QED BY <1>9, <1>14, <1>16 DEF CNext
-----------------------------------------------------------------------------
(* Theorems *)

LEMMA InputInvariant == CSpec => []InputInv
BY InputInit, InputStepKeeps, PTL DEF CSpec

\* The screen, the keyboard's ring and the reader have their types in every
\* state; the window stays on the screen and the cursor in the window, or at
\* the left of the line below it.
THEOREM ConsoleTypes == CSpec => []CTypeOK
<1>1. InputInv => CTypeOK BY DEF InputInv
<1> QED BY <1>1, InputInvariant, PTL

\* The window and the rest of the screen leave each other alone: what c_putchar,
\* c_puts, c_scroll and the echo of a key write stays in the window, and what
\* c_putchar_at writes stays on its side of the window's edges.
THEOREM ScreenRegionsSeparate == CSpec => RegionsSeparate
<1> DEFINE Untouched(places) == \A p \in places : screen'.video[p] = screen.video[p]
           Window == {p \in Places : InWindow(screen, p)}
           PrintsInWindow ==
             \/ \E c \in use.chars : Putchar(c)
             \/ \E str \in use.strings : Puts(str)
             \/ \E n \in use.lines : Arrange(c_scroll(screen, n))
             \/ Echo
           Apart == /\ PrintsInWindow => Untouched(Places \ Window)
                    /\ \A p \in use.places \ Window : \A c \in use.glyphs :
                         PutcharAt(p[1], p[2], c) => Untouched(Window)
                    /\ \A p \in use.places \cap Window : \A c \in use.glyphs :
                         PutcharAt(p[1], p[2], c) => Untouched(Places \ Window)
<1>1. ASSUME InputInv PROVE Apart
  <2> DEFINE s == screen
  <2>1. /\ s \in Screens /\ program \in DOMAIN Uses /\ reader \in Readers
        /\ Window = Inside(s)
    BY <1>1 DEF InputInv, CTypeOK, Inside
  <2>2. ASSUME NEW r, KeptIn(Places \ Inside(s), s, r), screen' = r
        PROVE  Untouched(Places \ Window)
    BY <2>1, <2>2 DEF KeptIn
  <2>3. ASSUME NEW c \in use.chars, Putchar(c) PROVE Untouched(Places \ Window)
    <3>1. c \in Glyphs BY <2>1, UseFacts
    <3>2. KeptIn(Places \ Inside(s), s, c_putchar(s, c)) BY <2>1, <3>1, PutcharKeeps
    <3> QED BY <2>2, <2>3, <3>2 DEF Putchar
  <2>4. ASSUME NEW str \in use.strings, Puts(str) PROVE Untouched(Places \ Window)
    <3>1. str \in Seq(Glyphs) BY <2>1, UseFacts
    <3>2. KeptIn(Places \ Inside(s), s, c_puts(s, str))
      BY <2>1, <3>1, PutsFacts DEF LeavesOutside
    <3> QED BY <2>2, <2>4, <3>2 DEF Puts
  <2>5. ASSUME NEW n \in use.lines, Arrange(c_scroll(screen, n))
        PROVE  Untouched(Places \ Window)
    <3>1. n \in Nat BY <2>1, UseFacts
    <3>2. \A p \in Places : c_scroll(s, n).video[p] = Lifted(s, p, n)
      BY <2>1, <3>1, ScrollFacts
    <3>3. KeptIn(Places \ Inside(s), s, c_scroll(s, n))
      BY <3>2 DEF KeptIn, Inside, Lifted
    <3> QED BY <2>2, <2>5, <3>3 DEF Arrange
  <2>6. ASSUME Echo PROVE Untouched(Places \ Window)
    <3>1. reader.c \in Glyphs BY <2>1, StringsAreGlyphs DEF Readers
    <3>2. KeptIn(Places \ Inside(s), s, c_putchar(s, reader.c))
      BY <2>1, <3>1, PutcharKeeps
    <3>3. KeptIn(Places \ Inside(s), s, s) BY DEF KeptIn
    <3>4. screen' = s \/ screen' = c_putchar(s, reader.c) BY <2>6 DEF Echo
    <3> QED BY <2>2, <3>2, <3>3, <3>4
  <2>7. ASSUME NEW p \in use.places, NEW c \in use.glyphs, PutcharAt(p[1], p[2], c)
        PROVE  /\ p \in Window => Untouched(Places \ Window)
               /\ p \notin Window => Untouched(Window)
    <3> DEFINE x == p[1]
               y == p[2]
               r == c_putchar_at(s, x, y, c)
    <3>1. x \in Int /\ y \in Int /\ c \in Glyphs /\ p = <<x, y>> BY <2>1, UseFacts
    <3>2. screen' = r BY <2>7 DEF PutcharAt
    <3> HIDE DEF x, y
    <3>3. /\ <<x, y>> \in Inside(s) => KeptIn(Places \ Inside(s), s, r)
          /\ <<x, y>> \notin Inside(s) => KeptIn(Inside(s), s, r)
      BY <2>1, <3>1, PutcharAtFacts
    <3> HIDE DEF r
    <3> QED BY <2>1, <3>1, <3>2, <3>3 DEF KeptIn
  <2> QED BY <2>3, <2>4, <2>5, <2>6, <2>7
<1>2. InputInv => [Apart]_cvars BY <1>1
<1>3. [][Apart]_cvars <=> RegionsSeparate BY DEF RegionsSeparate
<1> QED BY <1>2, <1>3, InputInvariant, PTL

\* The ring that the interrupt handler and c_getchar share without a lock is
\* the queue of c_io.h: the character of a defined key is stored unless there
\* is no room, none is doubled or overtaken, c_getchar returns the oldest,
\* c_gets the line that was typed as far as it fits, and c_input_queue counts
\* the characters left.
THEOREM KeysArriveAsTyped == CSpec => InputAsTyped
<1> DEFINE Facts == /\ c_input_queue(keyboard) = Len(Typed)
                    /\ reader.gets => (Got = <<>> \/ Len(Got) < reader.size)
<1>1. Typed = Waiting(keyboard)
  BY DEF Typed, Waiting, Slot, Count
<1>2. ASSUME InputInv PROVE Facts
  <2>1. keyboard \in Keyboards /\ reader \in Readers BY <1>2 DEF InputInv, CTypeOK
  <2>2. c_input_queue(keyboard) = Len(Typed) BY <1>1, <2>1, WaitingFacts
  <2>3. ASSUME reader.gets PROVE Got = <<>> \/ Len(Got) < reader.size
    <3>1. /\ Len(WithLast(reader)) \in Nat /\ Len(reader.line) \in Nat
          /\ reader.size \in Nat /\ Len(WithLast(reader)) <= Len(reader.line) + 1
      BY <2>1, ReaderFields
    <3> QED BY <1>2, <2>3, <3>1 DEF InputInv, LineFits, Got
  <2> QED BY <2>2, <2>3
<1>3. CInit => KeyQueue!KInit
  <2>1. SUFFICES ASSUME CInit PROVE KeyQueue!KInit
    OBVIOUS
  <2>2. keyboard \in Keyboards BY <2>1, InputInit DEF InputInv, CTypeOK
  <2>3. /\ keyboard.next_char = keyboard.next_space
        /\ keyboard.shift = FALSE /\ keyboard.ctrl = FALSE
        /\ reader.pc = "idle" /\ reader.line = <<>> /\ reader.size = 0
    BY <2>1 DEF CInit
  <2>4. Typed = <<>> BY <1>1, <2>2, <2>3, WaitingFacts
  <2> QED BY <2>3, <2>4 DEF KeyQueue!KInit, Calling, Got
<1>4. InputInv /\ [CNext]_cvars => [InputAnswered]_cvars
  BY StepsAnswer
<1>5. InputAsTyped <=> KeyQueue!KInit /\ [][InputAnswered]_cvars /\ []Facts
  BY DEF InputAsTyped
<1> HIDE DEF Facts
<1> QED
  BY <1>2, <1>3, <1>4, <1>5, InputInvariant, PTL DEF CSpec

\* The window shows the end of what was printed in it, wrapped and scrolled,
\* whatever is printed above it in between.
THEOREM WindowAlwaysShowsText == CSpec => []WindowShowsText
<1>1. TextInv => WindowShowsText
  BY FollowsShows DEF TextInv, WindowShowsText
<1> QED BY <1>1, TextInit, TextStep, PTL DEF CSpec

\* Whatever int, or string, is printed in whatever field: it fits the buffer of
\* twelve characters and is aligned.  Every int is right in %d and in %x (a
\* negative one there in two's complement), and every int that is not negative
\* in %o, with no digit too many; of a negative one in %o it is the lower 32
\* bits that are right, not the digit in front of them.
THEOREM FieldsEverAsDocumented == CSpec => []FieldsAsDocumented
<1>1. CInit => FieldsAsDocumented
  <2> SUFFICES ASSUME CInit PROVE DOMAIN field.fmt = {} BY DEF FieldsAsDocumented
  <2>1. field.fmt = <<>> BY DEF CInit
  <2> QED BY <2>1
<1>2. ASSUME NEW item, NEW arg, Printed(item, arg), PrintField(<<item>>, <<arg>>)
      PROVE  FieldsAsDocumented'
  <2>1. /\ field'.fmt = <<item>> /\ field'.args = <<arg>>
        /\ field'.out = __do_printf(<<item>>, <<arg>>)
    BY <1>2 DEF PrintField
  <2>2. \A i \in DOMAIN <<item>> : <<item>>[i] = item OBVIOUS
  <2>3. AsDocumented(item, <<arg>>, __do_printf(<<item>>, <<arg>>)) BY <1>2 DEF Printed
  <2> QED BY <2>1, <2>2, <2>3 DEF FieldsAsDocumented
<1>3. ASSUME field' = field, FieldsAsDocumented PROVE FieldsAsDocumented'
  BY <1>3 DEF FieldsAsDocumented
<1>4. ASSUME InputInv, FieldsAsDocumented, [CNext]_cvars PROVE FieldsAsDocumented'
  <2>1. program \in DOMAIN Uses BY <1>4 DEF InputInv, CTypeOK
  <2>2. ASSUME NEW item \in use.fields, NEW n \in use.numbers,
               PrintField(<<item>>, <<n>>)
        PROVE  FieldsAsDocumented'
    BY <1>2, <2>1, <2>2, UseFacts
  <2>3. ASSUME NEW item \in use.words, NEW str \in use.strings,
               PrintField(<<item>>, <<str>>)
        PROVE  FieldsAsDocumented'
    BY <1>2, <2>1, <2>3, UseFacts
  <2>4. \/ field' = field
        \/ \E item \in use.fields, n \in use.numbers : PrintField(<<item>>, <<n>>)
        \/ \E item \in use.words, str \in use.strings : PrintField(<<item>>, <<str>>)
    <3>1. CASE ScreenCall
      BY <3>1 DEF ScreenCall, Putchar, Puts, PutcharAt, PutsAt, PrintfAt, Arrange, shown
    <3>2. CASE InputStep
      BY <3>2 DEF InputStep, __c_keyboard_isr, Keystroke, TakeCode, Getchar, Gets,
                  Poll, Arrived, Fetch, Return, Echo, shown
    <3>3. CASE UNCHANGED cvars BY <3>3 DEF cvars, shown
    <3> QED BY <1>4, <3>1, <3>2, <3>3 DEF CNext
  <2> QED BY <1>3, <1>4, <2>2, <2>3, <2>4
<1> QED BY <1>1, <1>4, InputInvariant, PTL DEF CSpec
=============================================================================
