------------------------------ MODULE Console -------------------------------
(***************************************************************************)
(* c_io.c: the screen with its scrolling window, and the keyboard.         *)
(*                                                                         *)
(* The screen is one record of the driver's variables and the video        *)
(* memory; each routine is an operator from a screen to the screen it      *)
(* leaves.  Kernel and system calls print with interrupts off, so a call   *)
(* is one step.  c_getchar and c_gets run with interrupts on or off, and   *)
(* are split where they touch what the keyboard's ISR touches.  (No code   *)
(* of the kernel calls them; c_io.h offers them.)                          *)
(***************************************************************************)
EXTENDS Printf

CONSTANTS
  SCREEN_X_SIZE, SCREEN_Y_SIZE,
  C_BUFSIZE,    \* size of the keyboard's ring
  Uses          \* programs, by what they do with the console

ASSUME ConsoleAssumption ==
  /\ SCREEN_X_SIZE \in Nat \ {0} /\ SCREEN_Y_SIZE \in Nat \ {0}
  /\ C_BUFSIZE \in Nat /\ C_BUFSIZE > 1

VARIABLES
  screen,       \* video memory, scrolling window and cursor
  keyboard,     \* the ring, the keys held, and the controller
  reader,       \* where c_getchar and c_gets are
  text,         \* what was printed in the window since it was blank
  field,        \* the last c_printf, and what it printed
  program       \* which of the programs runs

shown == <<text, field>>
cvars == <<screen, keyboard, reader, text, field, program>>

\* The arguments with which the program calls c_io.c.
use == Uses[program]
-----------------------------------------------------------------------------
(* The screen *)

min_x == 0
min_y == 0
max_x == SCREEN_X_SIZE - 1
max_y == SCREEN_Y_SIZE - 1
Places == (min_x .. max_x) \X (min_y .. max_y)

bound(min, value, max) ==
  LET raised == IF value < min THEN min ELSE value
  IN  IF raised > max THEN max ELSE raised

\* The cursor stays in the window when curr_y is one line below.
__c_setcursor(s) ==
  [s EXCEPT !.cursor = <<s.curr_x, IF s.curr_y > s.scroll_max_y
                                   THEN s.scroll_max_y ELSE s.curr_y>>]

\* Nothing happens when (x, y) is not on the screen.
__c_putchar_at(s, x, y, c) ==
  IF <<x, y>> \in Places THEN [s EXCEPT !.video[<<x, y>>] = c] ELSE s

\* Blanks from x to limit.
Erased(s, x, limit, y) ==
  [s EXCEPT !.video = [p \in Places |->
     IF p[1] \in x .. limit /\ p[2] = y THEN " " ELSE s.video[p]]]

c_setscroll(s, s_min_x, s_min_y, s_max_x, s_max_y) ==
  LET left == bound(min_x, s_min_x, max_x)
      top  == bound(min_y, s_min_y, max_y)
  IN  __c_setcursor(
        [s EXCEPT !.scroll_min_x = left, !.scroll_min_y = top,
                  !.scroll_max_x = bound(left, s_max_x, max_x),
                  !.scroll_max_y = bound(top, s_max_y, max_y),
                  !.curr_x = left, !.curr_y = top])

c_moveto(s, x, y) ==
  __c_setcursor(
    [s EXCEPT
       !.curr_x = bound(s.scroll_min_x, x + s.scroll_min_x, s.scroll_max_x),
       !.curr_y = bound(s.scroll_min_y, y + s.scroll_min_y, s.scroll_max_y)])

\* A newline erases up to the edge of the window, or of the screen.
Fault_c_putchar_at(s, x, y, c) ==
  IF c = "\n" THEN Erased(s, x, max_x, y) ELSE __c_putchar_at(s, x, y, c)
c_putchar_at(s, x, y, c) ==
  IF c = "\n"
  THEN Erased(s, x, CASE x > s.scroll_max_x  -> max_x
                      [] x \in s.scroll_min_x .. s.scroll_max_x ->
                           s.scroll_max_x
                      [] x < s.scroll_min_x  -> s.scroll_min_x - 1, y)
  ELSE __c_putchar_at(s, x, y, c)

InWindow(s, p) == /\ p[1] \in s.scroll_min_x .. s.scroll_max_x
                  /\ p[2] \in s.scroll_min_y .. s.scroll_max_y

c_clearscroll(s) ==
  [s EXCEPT !.video = [p \in Places |->
                         IF InWindow(s, p) THEN " " ELSE s.video[p]]]
c_clearscreen(s) == [s EXCEPT !.video = [p \in Places |-> " "]]

\* The whole window or more is just cleared.
Fault_c_scroll(s, lines) ==
  [s EXCEPT !.video = [p \in Places |->
     IF ~InWindow(s, p) THEN s.video[p]
     ELSE IF p[2] + lines <= s.scroll_max_y
     THEN s.video[<<p[1], p[2] + lines>>] ELSE s.video[p]]]
c_scroll(s, lines) ==
  IF lines > s.scroll_max_y - s.scroll_min_y
  THEN __c_setcursor([c_clearscroll(s) EXCEPT !.curr_x = s.scroll_min_x,
                                              !.curr_y = s.scroll_min_y])
  ELSE [s EXCEPT !.video = [p \in Places |->
          IF ~InWindow(s, p) THEN s.video[p]
          ELSE IF p[2] + lines <= s.scroll_max_y
          THEN s.video[<<p[1], p[2] + lines>>] ELSE " "]]

\* A line that was begun below the window scrolls it first.
Scrolled(s) ==
  IF s.curr_y > s.scroll_max_y
  THEN [c_scroll(s, s.curr_y - s.scroll_max_y)
          EXCEPT !.curr_y = s.scroll_max_y]
  ELSE s

NextLine(s) == [s EXCEPT !.curr_x = s.scroll_min_x, !.curr_y = @ + 1]

c_putchar(s0, c) ==
  LET s == Scrolled(s0)
      written == __c_putchar_at(s, s.curr_x, s.curr_y, c)
  IN  __c_setcursor(
        CASE c = "\n" ->
               NextLine(Erased(s, s.curr_x, s.scroll_max_x, s.curr_y))
          [] c = "\r" -> [s EXCEPT !.curr_x = s.scroll_min_x]
          [] OTHER ->
               IF s.curr_x + 1 > s.scroll_max_x THEN NextLine(written)
               ELSE [written EXCEPT !.curr_x = @ + 1])

\* Every character of a string, one after the other.
c_puts(s, str) ==
  LET after[n \in 0 .. Len(str)] ==
        IF n = 0 THEN s ELSE c_putchar(after[n - 1], str[n])
  IN  after[Len(str)]

c_puts_at(s, x, y, str) ==
  LET after[n \in 0 .. Len(str)] ==
        IF n = 0 THEN s
        ELSE IF x + n - 1 > max_x THEN after[n - 1]
        ELSE c_putchar_at(after[n - 1], x + n - 1, y, str[n])
  IN  after[Len(str)]

\* __c_do_printf at a place: after a newline it goes on at the window's edge.
c_printf_at(s, x, y, fmt, args) ==
  LET pieces == Pieces(fmt, args)
      Is(n, c) == fmt[n].type = "plain" /\ fmt[n].ch = c
      after[n \in 0 .. Len(pieces)] ==
        IF n = 0 THEN [screen |-> s, x |-> x, y |-> y]
        ELSE LET p == after[n - 1]
             IN  [screen |-> c_puts_at(p.screen, p.x, p.y, pieces[n]),
                  x |-> IF Is(n, "\n") \/ Is(n, "\r") THEN s.scroll_min_x
                        ELSE p.x + Len(pieces[n]),
                  y |-> IF Is(n, "\n") THEN p.y + 1 ELSE p.y]
  IN  after[Len(pieces)].screen
c_printf(s, fmt, args) == c_puts(s, __do_printf(fmt, args))

c_io_init(video) ==
  __c_setcursor(
    [video |-> video, scroll_min_x |-> min_x, scroll_min_y |-> min_y,
     scroll_max_x |-> max_x, scroll_max_y |-> max_y,
     curr_x |-> min_x, curr_y |-> min_y, cursor |-> <<min_x, min_y>>])
-----------------------------------------------------------------------------
(* The keyboard *)

\* What a key gives without and with Shift; f1 stands for every scan code
\* that the table does not define (255, which is never equal to '\377').
scan_code ==
  [plain |-> [d |-> "d", enter |-> "\n", f1 |-> "255"],
   shift |-> [d |-> "D", enter |-> "\n", f1 |-> "255"]]
Masked(c) == CASE c \in {"d", "D"} -> "EOT" [] c = "\n" -> "\n"
               [] c = "255" -> "31"
Codes == {"d", "D", "\n", "255", "EOT", "31"}
Keys == {"d", "enter", "f1", "release", "+shift", "-shift", "+ctrl", "-ctrl"}

__c_increment(pointer) == IF pointer + 1 >= C_BUFSIZE THEN 0 ELSE pointer + 1

\* A character is stored only if there is room.
Fault_Stored(k, c) ==
  [k EXCEPT !.buffer[k.next_space] = c,
            !.next_space = __c_increment(k.next_space)]
Stored(k, c) ==
  LET next == __c_increment(k.next_space)
  IN  IF next # k.next_char
      THEN [k EXCEPT !.buffer[k.next_space] = c, !.next_space = next]
      ELSE k

__c_input_scan_code(k, code) ==
  CASE code \in {"+shift", "-shift"} -> [k EXCEPT !.shift = code = "+shift"]
    [] code \in {"+ctrl", "-ctrl"}   -> [k EXCEPT !.ctrl = code = "+ctrl"]
    [] code = "release"              -> k
    [] OTHER ->
         LET c == scan_code[IF k.shift THEN "shift" ELSE "plain"][code]
         IN  Stored(k, IF k.ctrl THEN Masked(c) ELSE c)

c_input_queue(k) ==
  LET n == k.next_space - k.next_char IN IF n < 0 THEN n + C_BUFSIZE ELSE n
-----------------------------------------------------------------------------
(* The program starts as _init does: a blank screen and a window. *)

\* Conversions as Field makes them, of any width.
FieldsOf(types) ==
  [type : types, left : BOOLEAN, pad : STRING, width : Nat]

\* Arguments have their types, and formats get arguments that fit them.  A
\* program whose text is remembered lets the driver scroll alone, and prints
\* elsewhere only above its window, as the kernel does.
ASSUME UsesAssumption ==
  \A u \in {Uses[p] : p \in DOMAIN Uses} :
    /\ u.window \in Nat \X Nat \X Nat \X Nat
    /\ u.windows \subseteq Nat \X Nat \X Nat \X Nat
    /\ u.moves \subseteq Nat \X Nat /\ u.places \subseteq Nat \X Nat
    /\ u.lines \subseteq Nat /\ u.sizes \subseteq Nat /\ u.keys \subseteq Keys
    /\ u.interrupts \in BOOLEAN /\ u.MAX_TEXT \in Nat
    /\ u.chars \cup u.glyphs \subseteq STRING /\ u.strings \subseteq Seq(STRING)
    /\ u.fields \subseteq FieldsOf({"c", "d", "x", "o"})
    /\ u.words \subseteq FieldsOf({"s"}) /\ u.numbers \subseteq INT_MIN .. INT_MAX
    /\ \A f \in u.formats : Pieces(f.fmt, f.args) \in Seq(Seq(STRING))
    /\ u.MAX_TEXT > 0 =>
         /\ {} = UNION {u.fields, u.words, u.formats, u.moves, u.windows,
                        u.lines, u.keys, u.sizes}
         /\ \A p \in u.places : p[2] < bound(min_y, u.window[2], max_y)

NoCode == "none"
CInit ==
  /\ program \in DOMAIN Uses
  /\ screen = c_setscroll(c_clearscreen(c_io_init([p \in Places |-> "?"])),
                          use.window[1], use.window[2],
                          use.window[3], use.window[4])
  /\ keyboard = [data |-> NoCode, shift |-> FALSE, ctrl |-> FALSE,
                 buffer |-> [i \in 0 .. C_BUFSIZE - 1 |-> "\n"],
                 next_char |-> 0, next_space |-> 0]
  /\ reader = [pc |-> "idle", c |-> "\n", gets |-> FALSE, size |-> 0,
               line |-> <<>>]
  /\ text = <<>>
  /\ field = [fmt |-> <<>>, args |-> <<>>, out |-> <<>>]

\* Text is remembered as long as the program lets the driver scroll alone.
Shown(chars) ==
  IF use.MAX_TEXT = 0 THEN UNCHANGED text
  ELSE Len(text \o chars) <= use.MAX_TEXT /\ text' = text \o chars

NoInput == UNCHANGED <<keyboard, reader, program>>

\* c_putchar and c_puts, of the kernel or for the calls putc and puts.
Putchar(c) ==
  /\ screen' = c_putchar(screen, c)
  /\ Shown(<<c>>)
  /\ NoInput /\ UNCHANGED field
Puts(str) ==
  /\ screen' = c_puts(screen, str)
  /\ Shown(str)
  /\ NoInput /\ UNCHANGED field

PrintField(fmt, args) ==
  /\ screen' = c_printf(screen, fmt, args)
  /\ field' = [fmt |-> fmt, args |-> args, out |-> __do_printf(fmt, args)]
  /\ NoInput /\ UNCHANGED text

\* The routines that print at a place; the clock's pinwheel is one of these.
PutcharAt(x, y, c) ==
  /\ screen' = c_putchar_at(screen, x, y, c)
  /\ NoInput /\ UNCHANGED shown
PutsAt(x, y, str) ==
  /\ screen' = c_puts_at(screen, x, y, str)
  /\ NoInput /\ UNCHANGED shown
PrintfAt(x, y, fmt, args) ==
  /\ screen' = c_printf_at(screen, x, y, fmt, args)
  /\ NoInput /\ UNCHANGED shown

\* The routines that change the window, its contents or the cursor.
Arrange(s) ==
  /\ screen' = s
  /\ NoInput /\ UNCHANGED shown

ScreenCall ==
  \/ \E c \in use.chars : Putchar(c)
  \/ \E str \in use.strings : Puts(str)
  \/ \E item \in use.fields, n \in use.numbers : PrintField(<<item>>, <<n>>)
  \/ \E item \in use.words, str \in use.strings : PrintField(<<item>>, <<str>>)
  \/ \E p \in use.places : \E c \in use.glyphs : PutcharAt(p[1], p[2], c)
  \/ \E p \in use.places : \E str \in use.strings : PutsAt(p[1], p[2], str)
  \/ \E p \in use.places : \E f \in use.formats :
       PrintfAt(p[1], p[2], f.fmt, f.args)
  \/ \E p \in use.moves : Arrange(c_moveto(screen, p[1], p[2]))
  \/ \E w \in use.windows :
       Arrange(c_setscroll(screen, w[1], w[2], w[3], w[4]))
  \/ \E n \in use.lines : Arrange(c_scroll(screen, n))
  \/ use.windows # {} /\ Arrange(c_clearscroll(screen))
  \/ use.windows # {} /\ Arrange(c_clearscreen(screen))
-----------------------------------------------------------------------------
(* Input.  The controller keeps the code of one key until the ISR takes it *)
(* or, with interrupts off, c_getchar polls it.                            *)

Keystroke(code) ==
  /\ keyboard.data = NoCode
  /\ keyboard' = [keyboard EXCEPT !.data = code]
  /\ UNCHANGED <<screen, reader, shown, program>>

TakeCode ==
  /\ keyboard.data # NoCode
  /\ keyboard' = [__c_input_scan_code(keyboard, keyboard.data)
                    EXCEPT !.data = NoCode]
  /\ UNCHANGED <<screen, reader, shown, program>>

__c_keyboard_isr == use.interrupts /\ TakeCode

\* c_getchar, and c_gets, which returns at once when there is no room.
Getchar ==
  /\ reader.pc = "idle"
  /\ reader' = [reader EXCEPT !.pc = "wait", !.gets = FALSE, !.line = <<>>]
  /\ UNCHANGED <<screen, keyboard, shown, program>>
Gets(size) ==
  /\ reader.pc = "idle"
  /\ reader' = [reader EXCEPT !.pc = IF size > 1 THEN "wait" ELSE "idle",
                              !.gets = TRUE, !.size = size, !.line = <<>>]
  /\ UNCHANGED <<screen, keyboard, shown, program>>

Empty == keyboard.next_char = keyboard.next_space

\* With interrupts off it must read the next keystroke itself.
Poll ==
  /\ reader.pc = "wait"
  /\ Empty
  /\ ~use.interrupts
  /\ TakeCode

Arrived ==
  /\ reader.pc = "wait"
  /\ ~Empty
  /\ reader' = [reader EXCEPT !.pc = "fetch"]
  /\ UNCHANGED <<screen, keyboard, shown, program>>
Fetch ==
  /\ reader.pc = "fetch"
  /\ reader' = [reader EXCEPT !.pc = "advance",
                              !.c = keyboard.buffer[keyboard.next_char]]
  /\ UNCHANGED <<screen, keyboard, shown, program>>
Return ==
  /\ reader.pc = "advance"
  /\ reader' = [reader EXCEPT !.pc = "echo"]
  /\ keyboard' = [keyboard EXCEPT !.next_char = __c_increment(@)]
  /\ UNCHANGED <<screen, shown, program>>

\* The characters the call has got with this one, and whether it returns:
\* c_getchar at once, c_gets when the line is complete.
WithLast(r) == IF r.gets /\ r.c = "EOT" THEN r.line ELSE Append(r.line, r.c)
Complete(r) == \/ ~r.gets
               \/ r.c \in {"\n", "EOT"}
               \/ Len(WithLast(r)) >= r.size - 1
Echo ==
  /\ reader.pc = "echo"
  /\ screen' = IF reader.c = "EOT" THEN screen
               ELSE c_putchar(screen, reader.c)
  /\ reader' = [reader EXCEPT !.pc = IF Complete(reader) THEN "idle" ELSE "wait",
                              !.line = WithLast(reader)]
  /\ UNCHANGED <<keyboard, shown, program>>

InputStep ==
  \/ \E code \in use.keys : Keystroke(code)
  \/ __c_keyboard_isr
  \/ use.keys # {} /\ Getchar
  \/ \E size \in use.sizes : Gets(size)
  \/ Poll \/ Arrived \/ Fetch \/ Return \/ Echo

CNext == ScreenCall \/ InputStep

CSpec == CInit /\ [][CNext]_cvars
-----------------------------------------------------------------------------
(* Correctness *)

\* What has been typed, which call waits for it, and what it has got.
Typed ==
  [i \in 1 .. (keyboard.next_space - keyboard.next_char) % C_BUFSIZE |->
     keyboard.buffer[(keyboard.next_char + i - 1) % C_BUFSIZE]]
Calling ==
  IF reader.pc = "idle" \/ (reader.pc = "echo" /\ Complete(reader))
  THEN "none"
  ELSE IF reader.gets THEN "gets" ELSE "getchar"
Got == IF reader.pc = "echo" THEN WithLast(reader) ELSE reader.line

KeyQueue == INSTANCE ConsoleSpec
  WITH Room <- C_BUFSIZE - 1, Codes <- Codes, queue <- Typed,
       shift <- keyboard.shift, ctrl <- keyboard.ctrl,
       call <- Calling, size <- reader.size, got <- Got

\* What each step promises, it does; the code of an undefined key may add a
\* character, and says nothing else (see UndefinedIgnored).
TakesKey == __c_keyboard_isr \/ Poll
Calls == Getchar \/ \E size \in use.sizes : Gets(size)
InputAnswered ==
  /\ TakesKey /\ keyboard.data # "f1" => KeyQueue!Press(keyboard.data)
  /\ TakesKey /\ keyboard.data = "f1" =>
       /\ Typed' \in {Typed} \cup {Append(Typed, c) : c \in Codes}
       /\ UNCHANGED <<keyboard.shift, keyboard.ctrl, Calling, reader.size, Got>>
  /\ Getchar => KeyQueue!CallGetchar
  /\ \A size \in use.sizes : Gets(size) => KeyQueue!CallGets(size)
  /\ Return => KeyQueue!Take
  /\ ~(TakesKey \/ Calls \/ Return) =>
       UNCHANGED <<Typed, keyboard.shift, keyboard.ctrl, Calling, reader.size, Got>>

\* The keyboard's ring is a queue that the ISR and c_getchar share without a
\* lock: whenever the code of a defined key comes, its character is stored as
\* Shift and Ctrl say, and dropped only if there is no room; none is doubled
\* or overtaken; c_getchar returns the oldest, and c_gets the line that was
\* typed, as far as it fits; c_input_queue counts the characters left.
InputAsTyped ==
  /\ KeyQueue!KInit
  /\ [][InputAnswered]_cvars
  /\ [](/\ c_input_queue(keyboard) = Len(Typed)
        /\ reader.gets => (Got = <<>> \/ Len(Got) < reader.size))

\* "Ignore undefined scan codes." (c_io.c)
UndefinedIgnored ==
  [][TakesKey /\ keyboard.data = "f1" => KeyQueue!Press(keyboard.data)]_cvars

\* A paper roll as wide as the window: where the pen is when the first i
\* characters of the text are on it, and what a place of it shows in the end.
Width(s) == s.scroll_max_x - s.scroll_min_x + 1
Height(s) == s.scroll_max_y - s.scroll_min_y + 1
Moved(p, c, width) ==
  IF c = "\r" THEN <<0, p[2]>>
  ELSE IF c = "\n" \/ p[1] = width - 1 THEN <<0, p[2] + 1>>
  ELSE <<p[1] + 1, p[2]>>
Pen(t, width) ==
  LET pen[i \in 0 .. Len(t)] ==
        IF i = 0 THEN <<0, 0>> ELSE Moved(pen[i - 1], t[i], width)
  IN  pen
Paper(t, pen, x, y) ==
  LET written == {i \in DOMAIN t :
                    /\ t[i] # "\r"
                    /\ pen[i - 1][2] = y
                    /\ \/ pen[i - 1][1] = x
                       \/ t[i] = "\n" /\ pen[i - 1][1] < x}
  IN  IF written = {} \/ t[Max(written)] = "\n" THEN " " ELSE t[Max(written)]

\* The window on the end of it.
Shows(s, t) ==
  LET pen == Pen(t, Width(s))
      top == IF t = <<>> THEN 0 ELSE Max({0, pen[Len(t) - 1][2] - Height(s) + 1})
  IN  \A x \in 0 .. Width(s) - 1, y \in 0 .. Height(s) - 1 :
        s.video[<<s.scroll_min_x + x, s.scroll_min_y + y>>]
          = Paper(t, pen, x, top + y)

\* The window shows the end of what was printed in it, wrapped and scrolled
\* (c_io.h: "a window that behaves in the usual manner"), whatever is printed
\* elsewhere in between.
WindowShowsText == use.MAX_TEXT > 0 => Shows(screen, text)

\* Printing in the window and scrolling it leaves the rest of the screen
\* alone, and printing one character outside never reaches into the window
\* (c_io.c: "If we're not in the scroll region, don't let this loop enter
\* it").
RegionsSeparate ==
  [][LET Kept(places) ==
           \A p \in places : screen'.video[p] = screen.video[p]
         Inside == {p \in Places : InWindow(screen, p)}
         PrintsInWindow ==
           \/ \E c \in use.chars : Putchar(c)
           \/ \E str \in use.strings : Puts(str)
           \/ \E n \in use.lines : Arrange(c_scroll(screen, n))
           \/ Echo
     IN  /\ PrintsInWindow => Kept(Places \ Inside)
         /\ \A p \in use.places \ Inside : \A c \in use.glyphs :
              PutcharAt(p[1], p[2], c) => Kept(Inside)
         /\ \A p \in use.places \cap Inside : \A c \in use.glyphs :
              PutcharAt(p[1], p[2], c) => Kept(Places \ Inside)]_cvars

\* The number that digits denote, when others denote first in front of them;
\* counted in negative numbers for %d, so that the smallest int is one.
ValueOf(ch) == CHOOSE d \in 0 .. 15 : Digit(d) = ch
Number(digits, base, first, sign) ==
  LET number[i \in 0 .. Len(digits)] ==
        IF i = 0 THEN first
        ELSE number[i - 1] * base + sign * ValueOf(digits[i])
  IN  number[Len(digits)]

\* out is what the documentation says of one field for the first of args.
\* The digits of a negative int, in %x and %o, are its two's complement: as
\* many as the conversion has, and each in front of them would be the highest.
AsDocumented(item, args, out) ==
  LET value == args[1]
      numeral == Converted(item, args, 0)
      digits == IF numeral[1] = "-" THEN Tail(numeral) ELSE numeral
      missing == Max({0, item.width - Len(numeral)})
      padding == [i \in 1 .. missing |-> item.pad]
      Denotes(base, length) ==
        /\ value < 0 => Len(digits) = length
        /\ Number(digits, base, IF value < 0 THEN -1 ELSE 0, 1) = value
  IN  /\ out = IF item.left THEN numeral \o padding ELSE padding \o numeral
      /\ item.type \in {"d", "x", "o"} =>
           /\ Len(numeral) < 12
           /\ Range(digits) \subseteq Range(hexdigits)
           /\ digits[1] # "0" \/ Len(digits) = 1
      /\ item.type = "d" =>
           /\ Number(digits, 10, 0, -1) = IF value < 0 THEN value ELSE -value
           /\ digits # numeral <=> value < 0
      /\ item.type = "x" => Denotes(16, 8)
      /\ item.type = "o" => Denotes(8, 11)

\* printf prints an int aligned in a field of the width asked for, and never
\* needs more than the twelve characters it has for it: %d as the shortest
\* numeral with a sign, the smallest int included; %x and %o as the shortest
\* numeral of an int that is not negative, and %x of a negative one as the
\* eight digits of its two's complement (c_io.h, "%-0WC").  Of a negative int
\* in %o less is claimed: its lower 32 bits are right.  The eleven digits have
\* 33, and the one in front is set (-1 is 77777777777, not 37777777777).
FieldsAsDocumented ==
  \A i \in DOMAIN field.fmt : AsDocumented(field.fmt[i], field.args, field.out)
=============================================================================
