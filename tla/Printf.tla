------------------------------- MODULE Printf -------------------------------
(***************************************************************************)
(* printf: the conversions and the padding that ulibc.c and c_io.c share   *)
(* word for word.  A character is a string of length one; a format is a    *)
(* sequence of items, which stand for single characters and for %-0W and a *)
(* conversion; an int is a TLA+ integer of 32 bits.                        *)
(***************************************************************************)
EXTENDS Integers, SequencesExt

hexdigits ==
  <<"0", "1", "2", "3", "4", "5", "6", "7", "8", "9", "A", "B", "C", "D", "E",
    "F">>
Digit(value) == hexdigits[value + 1]

INT_MAX == 2147483647
INT_MIN == -INT_MAX - 1

\* -value, which is value itself for the smallest int.
Negated(value) == IF value = INT_MIN THEN INT_MIN ELSE -value

Decimal[value \in Nat] ==
  IF value < 10 THEN <<Digit(value)>>
  ELSE Append(Decimal[value \div 10], Digit(value % 10))

\* value / 10 is negative for the smallest int only: its last digit is 8.
Fault_cvtdec0(value) ==
  IF value < 0 THEN Append(Decimal[214748364], "(") ELSE Decimal[value]
__cvtdec0(value) ==
  IF value < 0 THEN Append(Decimal[214748364], Digit(8)) ELSE Decimal[value]

__cvtdec(value) ==
  IF value < 0 THEN <<"-">> \o __cvtdec0(Negated(value)) ELSE __cvtdec0(value)

\* Digits without the zeros in front, but for the last one.
Significant(digits) ==
  LET first == CHOOSE i \in DOMAIN digits :
                 /\ digits[i] # "0" \/ i = Len(digits)
                 /\ \A j \in 1 .. i - 1 : digits[j] = "0"
  IN  SubSeq(digits, first, Len(digits))

__cvthex(value) ==
  Significant([i \in 1 .. 8 |-> Digit((value \div 16 ^ (8 - i)) % 16)])

\* The first digit has two bits, but val is shifted as an int: in front of
\* them stand copies of the sign, and three bits are taken.
__cvtoct(value) ==
  Significant([i \in 1 .. 11 |-> Digit((value \div 8 ^ (11 - i)) % 8)])
-----------------------------------------------------------------------------
(* Arguments, on the stack one after the other *)

Byte(value, i) == (value \div 256 ^ i) % 256

\* The int at ap, which counts bytes.  (What lies behind the arguments is
\* unknown; here it is zero.)
IntAt(args, ap) ==
  LET Arg(i) == IF i \div 4 + 1 \in DOMAIN args
                THEN Byte(args[i \div 4 + 1], i % 4) ELSE 0
      high == IF Arg(ap + 3) < 128 THEN Arg(ap + 3) ELSE Arg(ap + 3) - 256
  IN  Arg(ap) + Arg(ap + 1) * 256 + Arg(ap + 2) * 65536 + high * 16777216
\* A character is the lowest byte of an int.  (Of the characters that are
\* not digits the code does not matter.)
CharAt(args, ap) == LET code == Byte(IntAt(args, ap), 0)
                    IN  IF code \in 48 .. 57 THEN Digit(code - 48) ELSE "?"
StringAt(args, ap) == args[ap \div 4 + 1]

(* Items of a format *)

Plain(ch) == [type |-> "plain", ch |-> ch]
Field(type, leftadjust, padchar, width) ==
  [type |-> type, left |-> leftadjust, pad |-> padchar, width |-> width]

__pad(extra, padchar) ==
  IF extra > 0 THEN [i \in 1 .. extra |-> padchar] ELSE <<>>

\* Padding on the left, or on the right.
__padstr(str, item) ==
  LET padding == __pad(item.width - Len(str), item.pad)
  IN  IF item.left THEN str \o padding ELSE padding \o str

Converted(item, args, ap) ==
  CASE item.type = "c" -> <<CharAt(args, ap)>>
    [] item.type = "d" -> __cvtdec(IntAt(args, ap))
    [] item.type = "s" -> StringAt(args, ap)
    [] item.type = "x" -> __cvthex(IntAt(args, ap))
    [] item.type = "o" -> __cvtoct(IntAt(args, ap))

\* How far an item moves ap: for %c by one byte only.
Taken(item) == CASE item.type = "plain" -> 0
                 [] item.type = "c" -> 1
                 [] OTHER -> 4

\* What is put out for each item of the format, one after the other.
Pieces(fmt, args) ==
  LET ap[i \in DOMAIN fmt] ==
        IF i = 1 THEN 0 ELSE ap[i - 1] + Taken(fmt[i - 1])
  IN  [i \in DOMAIN fmt |->
         IF fmt[i].type = "plain" THEN <<fmt[i].ch>>
         ELSE __padstr(Converted(fmt[i], args, ap[i]), fmt[i])]

\* For ulibc.c's printf and c_io.c's c_printf: every character, in order.
__do_printf(fmt, args) == FlattenSeq(Pieces(fmt, args))
=============================================================================
