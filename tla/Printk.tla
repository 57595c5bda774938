------------------------------- MODULE Printk -------------------------------
(***************************************************************************)
(* The number conversions and the formatter of main.c (int_to_str,       *)
(* uint_to_str, vsnprintf, printk), as operators, checked against        *)
(* reference definitions over every input of a small word width.  A      *)
(* string is the sequence of its characters, each a one-letter string; a *)
(* long is LONG_BITS wide (64 in the source).  The state is the input    *)
(* under check.                                                          *)
(***************************************************************************)
EXTENDS Integers, Sequences, SequencesExt

CONSTANTS
  LONG_BITS,   \* width of long and unsigned long
  MaxSize,     \* largest buffer size given to vsnprintf
  Inputs(_)    \* Inputs(v): the <<fmt, args>> pairs checked with the value v

VARIABLES val, fmt, args, size

pvars == <<val, fmt, args, size>>

DIGITS_LOWER == <<"0","1","2","3","4","5","6","7","8","9","a","b","c","d","e","f">>
DIGITS_UPPER == <<"0","1","2","3","4","5","6","7","8","9","A","B","C","D","E","F">>

\* The bits of a va_arg value read as unsigned long and as long.
ULong(v) == v % 2^LONG_BITS
Long(v)  == IF ULong(v) >= 2^(LONG_BITS - 1) THEN ULong(v) - 2^LONG_BITS ELSE ULong(v)

\* vsnprintf's default for a NULL %s argument.
NULL == "NULL"
NullText == <<"(", "n", "u", "l", "l", ")">>

-----------------------------------------------------------------------------
(* Number conversion.                                                      *)

\* (Mutant: tmp is copied to buf in the order it was filled, least
\* significant digit first.)
RECURSIVE DigitLoopUnreversed(_, _, _)
DigitLoopUnreversed(value, base, digits) ==
  IF value = 0 THEN << >>
  ELSE <<digits[(value % base) + 1]>> \o DigitLoopUnreversed(value \div base, base, digits)

\* The while loop of uint_to_str: the digits of value, most significant
\* first (the code collects them least significant first in tmp and
\* copies tmp back reversed).
RECURSIVE DigitLoop(_, _, _)
DigitLoop(value, base, digits) ==
  IF value = 0 THEN << >>
  ELSE Append(DigitLoop(value \div base, base, digits), digits[(value % base) + 1])

\* (Mutant: the value 0 is not special-cased and converts to nothing.)
uint_to_strNoZero(value, base, uppercase) ==
  DigitLoop(value, base, IF uppercase THEN DIGITS_UPPER ELSE DIGITS_LOWER)

\* uint_to_str(buf, value, base, uppercase).
uint_to_str(value, base, uppercase) ==
  IF value = 0 THEN <<"0">>
  ELSE DigitLoop(value, base, IF uppercase THEN DIGITS_UPPER ELSE DIGITS_LOWER)

\* int_to_str(buf, value, base, uppercase): a minus sign for a negative
\* value in base 10, whose magnitude -value is taken in unsigned long
\* (for LONG_MIN the negation overflows; the build's neg instruction wraps
\* and the conversion to unsigned long then yields 2^(LONG_BITS-1)).
int_to_str(value, base, uppercase) ==
  LET negative == value < 0 /\ base = 10
      uval     == IF negative THEN ULong(-value) ELSE ULong(value)
  IN (IF negative THEN <<"-">> ELSE << >>) \o uint_to_str(uval, base, uppercase)

-----------------------------------------------------------------------------
(* vsnprintf.                                                              *)

\* Append text to out a character at a time while str < end, where out
\* may hold at most room characters.
Put(out, text, room) ==
  out \o SubSeq(text, 1, IF Len(text) <= room - Len(out) THEN Len(text) ELSE room - Len(out))

\* The text of one conversion c, the number of va_arg reads it makes, and
\* the format left after it ('l' looks at one more character).
Conversion(g, a) ==
  LET c  == Head(g)
      c2 == IF Len(g) > 1 THEN g[2] ELSE "NUL"
  IN
  CASE c = "s" -> [text |-> IF Head(a) = NULL THEN NullText ELSE Head(a), used |-> 1, rest |-> Tail(g)]
    [] c \in {"d", "i"} -> [text |-> int_to_str(Long(Head(a)), 10, FALSE), used |-> 1, rest |-> Tail(g)]
    [] c = "u" -> [text |-> uint_to_str(ULong(Head(a)), 10, FALSE), used |-> 1, rest |-> Tail(g)]
    [] c = "x" -> [text |-> uint_to_str(ULong(Head(a)), 16, FALSE), used |-> 1, rest |-> Tail(g)]
    [] c = "X" -> [text |-> uint_to_str(ULong(Head(a)), 16, TRUE), used |-> 1, rest |-> Tail(g)]
    [] c = "p" -> [text |-> <<"0", "x">> \o uint_to_str(ULong(Head(a)), 16, FALSE), used |-> 1, rest |-> Tail(g)]
    [] c = "c" -> [text |-> <<Head(a)>>, used |-> 1, rest |-> Tail(g)]
    [] c = "l" /\ c2 \in {"u", "d", "x"} ->
         [text |-> CASE c2 = "d" -> int_to_str(Long(Head(a)), 10, FALSE)
                     [] c2 = "x" -> uint_to_str(ULong(Head(a)), 16, FALSE)
                     [] c2 = "u" -> uint_to_str(ULong(Head(a)), 10, FALSE),
          used |-> 1, rest |-> Tail(Tail(g))]
    [] c = "l" -> [text |-> << >>, used |-> 0, rest |-> IF Len(g) > 1 THEN Tail(Tail(g)) ELSE << >>]
    [] c = "%" -> [text |-> <<"%">>, used |-> 0, rest |-> Tail(g)]
    [] OTHER   -> [text |-> <<"%", c>>, used |-> 0, rest |-> Tail(g)]

\* The main loop of vsnprintf: copy ordinary characters and expand
\* conversions while *fmt and str < end; a '%' at the very end of the
\* format prints itself.
RECURSIVE Format(_, _, _, _)
Format(f, a, out, room) ==
  IF f = << >> \/ Len(out) >= room THEN out
  ELSE IF Head(f) # "%" THEN Format(Tail(f), a, Append(out, Head(f)), room)
  ELSE IF Tail(f) = << >> THEN Put(out, <<"%">>, room)
  ELSE LET cv == Conversion(Tail(f), a)
       IN Format(cv.rest, IF cv.used = 1 THEN Tail(a) ELSE a, Put(out, cv.text, room), room)

\* (Mutant: end is buf + size, leaving no room for the NUL.)
vsnprintfNoNul(f, a, n) ==
  IF n = 0 THEN << >> ELSE Format(f, a, << >>, n)

\* vsnprintf(buf, size, fmt, args): the characters written before the
\* terminating NUL (their number is the return value); size 0 writes
\* nothing.
vsnprintf(f, a, n) ==
  IF n = 0 THEN << >> ELSE Format(f, a, << >>, n - 1)

\* printk formats into a 1024-byte stack buffer and writes what vsnprintf
\* returned to the console.
PRINTK_BUFFER == 1024
printk(f, a) == vsnprintf(f, a, PRINTK_BUFFER)

-----------------------------------------------------------------------------
(* The input under check.                                                  *)

PInit ==
  /\ val = -(2^(LONG_BITS - 1))
  /\ \E in \in Inputs(val) : fmt = in[1] /\ args = in[2]
  /\ size \in 0 .. MaxSize

\* The values of a long in turn, signed and unsigned, each with every
\* format of the repository built from it and every buffer size up to
\* MaxSize.
PickInput ==
  /\ val' = IF val = 2^LONG_BITS - 1 THEN -(2^(LONG_BITS - 1)) ELSE val + 1
  /\ \E in \in Inputs(val') : fmt' = in[1] /\ args' = in[2]
  /\ size' \in 0 .. MaxSize

PSpec == PInit /\ [][PickInput]_pvars

-----------------------------------------------------------------------------
(* Reference definitions: positional notation, and the C printf of the     *)
(* conversions %[width][l](d|i|u|x|X|c|s|p) and %%.                        *)

\* The n digits of v in base, read off by division by powers of base.
RefDigits(v, base, uppercase) ==
  LET n == CHOOSE k \in 1 .. LONG_BITS + 1 : base^k > v /\ (k = 1 \/ base^(k - 1) <= v)
      ds == IF uppercase THEN DIGITS_UPPER ELSE DIGITS_LOWER
  IN [i \in 1 .. n |-> ds[((v \div base^(n - i)) % base) + 1]]

RefSigned(v) == IF v < 0 THEN <<"-">> \o RefDigits(-v, 10, FALSE) ELSE RefDigits(v, 10, FALSE)

WidthDigits == <<"1","2","3","4","5","6","7","8","9">>

\* Right-justify text in a field of w characters.
Pad(text, w) == [i \in 1 .. (w - Len(text)) |-> " "] \o text

RECURSIVE RefPrintf(_, _)
RefPrintf(f, a) ==
  IF f = << >> THEN << >>
  ELSE IF Head(f) # "%" THEN <<Head(f)>> \o RefPrintf(Tail(f), a)
  ELSE LET g    == Tail(f)
           hasW == \E i \in DOMAIN WidthDigits : Head(g) = WidthDigits[i]
           w    == IF hasW THEN CHOOSE i \in DOMAIN WidthDigits : Head(g) = WidthDigits[i] ELSE 0
           g1   == IF hasW THEN Tail(g) ELSE g
           g2   == IF Head(g1) = "l" THEN Tail(g1) ELSE g1
           c    == Head(g2)
           body == CASE c \in {"d", "i"} -> RefSigned(Long(Head(a)))
                     [] c = "u" -> RefDigits(ULong(Head(a)), 10, FALSE)
                     [] c = "x" -> RefDigits(ULong(Head(a)), 16, FALSE)
                     [] c = "X" -> RefDigits(ULong(Head(a)), 16, TRUE)
                     [] c = "p" -> <<"0", "x">> \o RefDigits(ULong(Head(a)), 16, FALSE)
                     [] c = "c" -> <<Head(a)>>
                     [] c = "s" -> IF Head(a) = NULL THEN NullText ELSE Head(a)
                     [] c = "%" -> <<"%">>
       IN Pad(body, w) \o RefPrintf(Tail(g2), IF c = "%" THEN a ELSE Tail(a))

-----------------------------------------------------------------------------
(* Properties.                                                             *)

\* uint_to_str and int_to_str, which every numeric conversion of printk
\* goes through, write exactly the positional digits of the value in
\* decimal and both hexadecimal cases, a zero and LONG_MIN included.
NumbersFaithful ==
  /\ uint_to_str(ULong(val), 10, FALSE) = RefDigits(ULong(val), 10, FALSE)
  /\ uint_to_str(ULong(val), 16, FALSE) = RefDigits(ULong(val), 16, FALSE)
  /\ uint_to_str(ULong(val), 16, TRUE) = RefDigits(ULong(val), 16, TRUE)
  /\ int_to_str(Long(val), 10, FALSE) = RefSigned(Long(val))

\* However small the buffer, vsnprintf writes exactly the first size - 1
\* characters of what it writes into a large one and nothing past them:
\* every copy loop of every conversion stops at end, and the NUL fits.
TruncationIsPrefix ==
  LET full == vsnprintf(fmt, args, PRINTK_BUFFER) IN
  vsnprintf(fmt, args, size) =
    SubSeq(full, 1, IF size = 0 THEN 0 ELSE IF Len(full) <= size - 1 THEN Len(full) ELSE size - 1)

\* What printk prints for each format string the repository passes it,
\* with arguments of the types the format names, is what the C printf
\* conventions the format is written in give (spec section 1 calls the
\* formatter printf-style).
PrintkFaithful == printk(fmt, args) = RefPrintf(fmt, args)

=============================================================================
