----------------------------- MODULE MCLoading ------------------------------
(***************************************************************************)
(* From the disk to main(): first the boot loader brings the images into   *)
(* memory, then processes execute them.  The loader is gone when the first *)
(* process runs, and what it loaded is never written again, so that the    *)
(* two are checked one at a time.                                          *)
(***************************************************************************)
EXTENDS Bootstrap, Execve

VARIABLE stage

\* Above the loader: two numbers, and an explicit segment and offset whose
\* second sector is in the next 64K.
MCAddresses ==
  {[segment |-> 4, offset |-> 0, linear |-> TRUE],
   [segment |-> 7, offset |-> 0, linear |-> TRUE],
   [segment |-> 2, offset |-> 2, linear |-> FALSE]}

(* Five images in low memory. *)

Header(type, vaddr, offset, filesz) ==
  [type |-> type, vaddr |-> vaddr, offset |-> offset, filesz |-> filesz]
Image(entry, headers, from, to) ==
  [valid |-> TRUE, entry |-> entry, headers |-> headers,
   bss |-> [from |-> from, to |-> to]]
MCImages ==
  (0 :> [Image(20, <<Header("PT_LOAD", 19, 0, 3)>>, 0, 0) EXCEPT !.valid = FALSE])
  \* Text and data, and a header of another type behind them.
  @@ (1 :> Image(16, <<Header("PT_LOAD", 16, 2, 2), Header("PT_LOAD", 19, 4, 1),
                       Header("PT_GNU_STACK", 0, 0, 0)>>, 20, 22))
  \* Something that is not an executable image.
  @@ (2 :> [Image(16, <<>>, 0, 0) EXCEPT !.valid = FALSE])
  \* A header in front that hides the text.
  @@ (8 :> Image(16, <<Header("PT_NOTE", 0, 0, 0),
                       Header("PT_LOAD", 16, 2, 2)>>, 0, 0))
  \* One segment and more BSS.
  @@ (9 :> Image(17, <<Header("PT_LOAD", 16, 1, 4)>>, 20, 24))

\* Short names; three of the images with all arguments.
Names == UNION {[1 .. n -> {" ", "0", "1", "2", "x"}] : n \in 0 .. 2}
           \cup {<<c>> \o s : c \in {" ", "0"}, s \in [1 .. 2 -> {"0", "1", "x"}]}
PlainNames == {<<"0", "x", "1">>, <<"0", "1", "0">>, <<"0", "1", "1">>}

Argvs == {<<>>, << <<"a">> >>, << <<"a", "b">>, <<"c">> >>,
            << <<"a">>, <<"a", "b">> >>,
            << <<"a">>, <<"b">>, <<"c">> >>,               \* too many
            << <<"a", "b", "c">>, <<"a", "b", "c">> >>,    \* too long
            << <<>> >>, << <<"a">>, <<>> >>}

MCCalls == (PlainNames \X Argvs) \cup (Names \X {<<>>})
-----------------------------------------------------------------------------

lvars == <<allvars, xvars, stage>>
LInit ==
  /\ stage \in {"boot", "execve"}
  /\ Init
  /\ XInit /\ (stage = "boot" => /\ segment = 9
                                  /\ ram[0] = Nul)

BootStage(A) == stage = "boot" /\ A /\ UNCHANGED <<xvars, stage>>
ExecveStage == stage = "execve" /\ XNext /\ UNCHANGED <<allvars, stage>>

LSpec == /\ LInit
         /\ [][BootStage(Next) \/ ExecveStage]_lvars
         /\ WF_lvars(BootStage(LoaderStep /\ UNCHANGED buildvars))
=============================================================================
