----------------------------- MODULE MCDevices ------------------------------
(***************************************************************************)
(* The two character devices, the serial line and the console, one at a    *)
(* time: they share no state, so that no behaviour of one depends on what  *)
(* the other does.                                                         *)
(***************************************************************************)
EXTENDS MCSio, Console

VARIABLE device

(* What programs do with the console, on a screen of three by three. *)

NoUse ==
  [window |-> <<0, 0, 0, 0>>, MAX_TEXT |-> 0, interrupts |-> TRUE,
   chars |-> {}, strings |-> {}, fields |-> {}, numbers |-> {}, words |-> {},
   places |-> {}, glyphs |-> {}, formats |-> {}, moves |-> {}, windows |-> {}, lines |-> {},
   keys |-> {}, sizes |-> {}]

\* The kernel: a window under a fixed line, and the pinwheel in its corner.
KernelUse ==
  [NoUse EXCEPT !.window = <<0, 1, 1, 9>>, !.MAX_TEXT = 6,
     !.chars = {"a", "b", "\n", "\r"}, !.strings = {<<"b", "\n", "a">>},
     !.places = {<<2, 0>>}, !.glyphs = {"|"}]

\* Everything c_io.h offers, in windows of several shapes.
AnyUse ==
  [NoUse EXCEPT !.window = <<1, 1, 1, 2>>,
     !.chars = {"a", "\n", "\r"}, !.strings = {<<"a", "a">>},
     !.places = {<<0, 1>>, <<1, 1>>, <<2, 0>>, <<3, 1>>},
     !.glyphs = {"a", "\n"},
     !.formats = {[fmt |-> <<Plain("\n"), Plain("a"), Plain("\r"),
                             Field("s", FALSE, " ", 2)>>,
                   args |-> <<<<"a">>>>]},
     !.moves = {<<0, 0>>, <<1, 5>>},
     !.windows = {<<1, 1, 1, 2>>, <<0, 2, 9, 2>>},
     !.lines = {0, 1, 2}]

\* The keyboard, with a window of one character for the echo.
LineUse == [NoUse EXCEPT !.keys = {"d", "enter", "+ctrl"}, !.sizes = {0, 3}]
KeyUse == [NoUse EXCEPT !.keys = Keys \ {"enter", "-ctrl"}]
PolledUse == [NoUse EXCEPT !.keys = {"d", "enter", "+ctrl", "-ctrl"},
                           !.sizes = {2}, !.interrupts = FALSE]

\* Numbers of every size, in fields of several widths.
Fields(types, widths) ==
  {Field(type, left, padchar, width) :
     type \in types, left \in BOOLEAN, padchar \in {" ", "0"}, width \in widths}
FieldUse ==
  [NoUse EXCEPT
     !.fields = Fields({"d", "x", "o"}, {3, 14}) \cup Fields({"c"}, {3}),
     !.numbers = {INT_MIN, INT_MIN + 1, -305419896, -1, 0, 8, 10, 57, 1193046,
                  INT_MAX},
     !.words = Fields({"s"}, {1, 3}),
     !.strings = {<<"a", "b">>}]

ConsoleUses ==
  [none |-> NoUse, kernel |-> KernelUse, any |-> AnyUse, lines |-> LineUse,
   keys |-> KeyUse, polled |-> PolledUse, fields |-> FieldUse]
-----------------------------------------------------------------------------

dvars == <<vars, cvars, device>>
DInit ==
  /\ device \in {"sio", "console"}
  /\ Init /\ (device = "console" => ~tx_event)
  /\ CInit /\ (device = "sio" <=> program = "none")

SioStep(A) == device = "sio" /\ A /\ UNCHANGED <<cvars, device>>
ConsoleStep == device = "console" /\ CNext /\ UNCHANGED <<vars, device>>

DSpec == DInit /\ [][SioStep(Next) \/ ConsoleStep]_dvars
DFairSpec ==
  /\ DSpec
  /\ WF_dvars(SioStep(TxDone))
  /\ WF_dvars(SioStep(TxEvent))
=============================================================================
