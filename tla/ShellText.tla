------------------------------ MODULE ShellText ------------------------------
(***************************************************************************)
(* The text helpers of the debug shell (shell.c): shell_print_int and     *)
(* shell_print_hex, which print every number the commands show;          *)
(* shell_atoi and parse_hex, which read the numbers of hexdump and poke;  *)
(* and shell_parse_args, which splits a command line into argv in place.  *)
(* Strings are sequences of one-letter strings as in Printk, whose word   *)
(* width and input this module shares: a long is LONG_BITS wide and an    *)
(* int half as wide (64 and 32 in the build).                             *)
(***************************************************************************)
EXTENDS Printk

CONSTANT SHELL_MAX_ARGS   \* 16 in shell.c

INT_BITS == LONG_BITS \div 2

\* The bits of a value kept in an int.  Signed overflow in shell_atoi's
\* result * 10 + digit is undefined; the build's imul and add wrap.
CInt(v) == LET u == v % 2^INT_BITS IN IF u >= 2^(INT_BITS - 1) THEN u - 2^INT_BITS ELSE u

NUL == "NUL"
Blank == {" ", "\t", "\n", "\r"}
Quote == {"\"", "'"}

shell_isspace(c) == c \in Blank
shell_isdigit(c) == c \in Range(SubSeq(DIGITS_LOWER, 1, 10))

\* The value of a digit character in base 16 (either case), or -1.
HexValue(c) ==
  IF \E i \in 1 .. 16 : DIGITS_LOWER[i] = c \/ DIGITS_UPPER[i] = c
  THEN (CHOOSE i \in 1 .. 16 : DIGITS_LOWER[i] = c \/ DIGITS_UPPER[i] = c) - 1
  ELSE -1

-----------------------------------------------------------------------------
(* Printing numbers.                                                       *)

\* The loops of shell_print_int and shell_print_hex: the digits of u are
\* collected least significant first in buf and printed from the top.
RECURSIVE PrintLoop(_, _)
PrintLoop(u, base) ==
  IF u = 0 THEN << >> ELSE Append(PrintLoop(u \div base, base), DIGITS_LOWER[(u % base) + 1])

\* shell_print_int(long value): the magnitude is -value taken in unsigned
\* long, then a '-' and the digits.
shell_print_int(value) ==
  LET uval == IF value < 0 THEN ULong(-value) ELSE value
  IN (IF value < 0 THEN <<"-">> ELSE << >>)
     \o (IF uval = 0 THEN <<"0">> ELSE PrintLoop(uval, 10))

\* (Mutant: the value 0 loses its special case and prints as "0x".)
shell_print_hexNoZero(value) == <<"0", "x">> \o PrintLoop(value, 16)

\* shell_print_hex(unsigned long value): "0x0", or "0x" and the digits
\* taken by value & 0xF and value >>= 4.
shell_print_hex(value) ==
  IF value = 0 THEN <<"0", "x", "0">> ELSE <<"0", "x">> \o PrintLoop(value, 16)

-----------------------------------------------------------------------------
(* Reading numbers.                                                        *)

RECURSIVE SkipBlank(_)
SkipBlank(s) == IF s # << >> /\ shell_isspace(Head(s)) THEN SkipBlank(Tail(s)) ELSE s

RECURSIVE AtoiLoop(_, _)
AtoiLoop(s, result) ==
  IF s # << >> /\ shell_isdigit(Head(s))
  THEN AtoiLoop(Tail(s), CInt(result * 10 + HexValue(Head(s))))
  ELSE result

\* shell_atoi(s): blanks, an optional sign, then decimal digits up to the
\* first other character, in int arithmetic.
shell_atoi(s) ==
  LET t    == SkipBlank(s)
      sign == IF t # << >> /\ Head(t) = "-" THEN -1 ELSE 1
      u    == IF t # << >> /\ Head(t) \in {"-", "+"} THEN Tail(t) ELSE t
  IN CInt(sign * AtoiLoop(u, 0))

\* The loop of parse_hex: result = (result << 4) | digit in unsigned long
\* until a character that is no hex digit.
RECURSIVE HexLoop(_, _)
HexLoop(s, result) ==
  IF s = << >> \/ HexValue(Head(s)) = -1 THEN result
  ELSE HexLoop(Tail(s), ULong(result * 16 + HexValue(Head(s))))

\* parse_hex(s): an optional 0x or 0X prefix, then hex digits.
parse_hex(s) ==
  IF Len(s) >= 2 /\ s[1] = "0" /\ s[2] \in {"x", "X"}
  THEN HexLoop(SubSeq(s, 3, Len(s)), 0) ELSE HexLoop(s, 0)

-----------------------------------------------------------------------------
(* Splitting a line.                                                       *)

\* The first index from i on whose character is (or is not) in S, or one
\* past the end: where a scanning loop of the code stops.
FirstIn(b, i, S) == CHOOSE j \in i .. Len(b) + 1 : (j > Len(b) \/ b[j] \in S) /\ \A k \in i .. j - 1 : b[k] \notin S
FirstOut(b, i, S) == CHOOSE j \in i .. Len(b) + 1 : (j > Len(b) \/ b[j] \notin S) /\ \A k \in i .. j - 1 : b[k] \in S

\* Write NUL over positions i .. j - 1 of b.
Clear(b, i, j) == [k \in DOMAIN b |-> IF k \in i .. j - 1 THEN NUL ELSE b[k]]

\* argv[k]: the characters from its start to the first NUL.
ArgString(b, i) == SubSeq(b, i, FirstIn(b, i, {NUL}) - 1)

\* (Mutant: the skip loop passes blanks without writing NUL over them.)
RECURSIVE ParseLoopNoNul(_, _, _, _)
ParseLoopNoNul(b, p, argv, max) ==
  IF p > Len(b) \/ Len(argv) >= max THEN <<b, argv>>
  ELSE LET q == FirstOut(b, p, Blank) IN
       IF q > Len(b) THEN <<b, argv>>
       ELSE IF b[q] \in Quote
       THEN LET e == FirstIn(b, q + 1, {b[q]}) IN
            IF e > Len(b) THEN ParseLoopNoNul(b, e, Append(argv, q + 1), max)
            ELSE ParseLoopNoNul([b EXCEPT ![e] = NUL], e + 1, Append(argv, q + 1), max)
       ELSE ParseLoopNoNul(b, FirstIn(b, q, Blank), Append(argv, q), max)

\* The while loop of shell_parse_args over the buffer b from index p,
\* collecting the start index of each argument: leading blanks become
\* NUL; a quoted argument starts after its quote and its closing quote
\* becomes NUL; any other runs to the next blank, which the next round's
\* skip turns into NUL.
RECURSIVE ParseLoop(_, _, _, _)
ParseLoop(b, p, argv, max) ==
  IF p > Len(b) \/ Len(argv) >= max THEN <<b, argv>>
  ELSE LET q  == FirstOut(b, p, Blank)
           b1 == Clear(b, p, q)
       IN IF q > Len(b) THEN <<b1, argv>>
          ELSE IF b[q] \in Quote
          THEN LET e == FirstIn(b, q + 1, {b[q]}) IN
               IF e > Len(b) THEN ParseLoop(b1, e, Append(argv, q + 1), max)
               ELSE ParseLoop([b1 EXCEPT ![e] = NUL], e + 1, Append(argv, q + 1), max)
          ELSE ParseLoop(b1, FirstIn(b, q, Blank), Append(argv, q), max)

\* shell_parse_args(line, argv, max_args): the arguments as strings.
shell_parse_args(line, max) ==
  LET r == ParseLoop(line, 1, << >>, max)
  IN [k \in DOMAIN r[2] |-> ArgString(r[1], r[2][k])]

-----------------------------------------------------------------------------
(* Reference definitions: words split at blanks or enclosed in quotes.    *)

\* The longest prefix of s with no character of S.
RECURSIVE WordOf(_, _)
WordOf(s, S) == IF s = << >> \/ Head(s) \in S THEN << >> ELSE <<Head(s)>> \o WordOf(Tail(s), S)

\* The words of s, each with the text of s from its start and whether it
\* was quoted (a quote without its closing partner runs to the end).
RECURSIVE RefTokens(_)
RefTokens(s) ==
  IF s = << >> THEN << >>
  ELSE IF Head(s) \in Blank THEN RefTokens(Tail(s))
  ELSE IF Head(s) \in Quote
       THEN LET w == WordOf(Tail(s), {Head(s)}) IN
            <<[word |-> w, from |-> s, quoted |-> TRUE]>> \o RefTokens(SubSeq(s, Len(w) + 3, Len(s)))
       ELSE LET w == WordOf(s, Blank) IN
            <<[word |-> w, from |-> s, quoted |-> FALSE]>> \o RefTokens(SubSeq(s, Len(w) + 1, Len(s)))

\* The first max words, except that an unquoted word in the last slot
\* keeps the rest of the line, trailing blanks and later words included:
\* the blank after it is never cleared.
RefArgs(line, max) ==
  LET t == RefTokens(line)
      n == IF Len(t) < max THEN Len(t) ELSE max
  IN [k \in 1 .. n |-> IF k = max /\ ~t[k].quoted THEN t[k].from ELSE t[k].word]

\* The line numbered n in bijective base 4 over a letter, a blank and the
\* two quotes: the 256 values of val cover every line of up to three
\* characters and most lines of four.
LineAlphabet == <<"a", " ", "\"", "'">>
RECURSIVE LineOf(_)
LineOf(n) == IF n = 0 THEN << >> ELSE Append(LineOf((n - 1) \div 4), LineAlphabet[((n - 1) % 4) + 1])

-----------------------------------------------------------------------------
(* Properties.                                                             *)

\* Every number the shell prints is its positional notation, LONG_MIN and
\* zero included, and what poke and hexdump read back with parse_hex and
\* shell_atoi is the number printed, in either case of hex prefix; a
\* decimal wider than an int comes back truncated to the int's width.
ShellNumbersFaithful ==
  LET u == ULong(val)
      v == Long(val)
  IN /\ shell_print_int(v) = RefSigned(v)
     /\ shell_print_hex(u) = <<"0", "x">> \o RefDigits(u, 16, FALSE)
     /\ parse_hex(shell_print_hex(u)) = u
     /\ parse_hex(<<"0", "X">> \o RefDigits(u, 16, TRUE)) = u
     /\ shell_atoi(<<" ">> \o shell_print_int(v)) = CInt(v)

\* shell_parse_args, which ends each argument by writing NUL into the
\* line as it goes, hands the commands the line's words: blank-separated
\* or quoted, empty quotes included, with the last of SHELL_MAX_ARGS
\* arguments keeping the rest of the line.
ArgsAreTokens ==
  shell_parse_args(LineOf(ULong(val)), SHELL_MAX_ARGS) = RefArgs(LineOf(ULong(val)), SHELL_MAX_ARGS)

=============================================================================
