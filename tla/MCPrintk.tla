------------------------------- MODULE MCPrintk -------------------------------
(* Format strings of the repository, shortened to their conversions and  *)
(* a few literal characters, with arguments built from the value v.      *)
EXTENDS Printk, ShellText, MemOps, TLC

\* "  Free:  %lu pages" and the other %lu lines of show_mem and mem_init.
FmtLu   == <<"F", ":", "%", "l", "u">>
\* "%lx" of the page-fault and hexdump messages.
FmtLx   == <<"@", "%", "l", "x">>
\* "IRQ %d received" and "Exception %d".  Their callers pass an int (the
\* vector number, from 0 up), which vsnprintf reads with va_arg(args, long);
\* the build writes the int to a 32-bit register, which zero-extends it, so
\* the long read is the int's value for the non-negative ints that occur.
FmtD    == <<"Q", "%", "d", "!">>
IntArg(v) == v \in 0 .. 2^(INT_BITS - 1) - 1
\* "  Zone %s:".
FmtS    == <<"Z", "%", "s", ":">>
\* "      Order %2d: %lu blocks (%lu pages)" of show_mem (buddy.c:508).
FmtShowMem == <<"O", "%", "2", "d", ":", "%", "l", "u", "(", "%", "l", "u", ")">>

MCInputs(v) ==
  { <<FmtLu, <<v>>>>, <<FmtLx, <<v>>>>,
    <<FmtS, <<NULL>>>>, <<FmtS, <<<<"N", "o">>>>>> }
  \cup (IF IntArg(v) THEN {<<FmtD, <<v>>>>} ELSE {})

MCInputsShowMem(v) == { <<FmtShowMem, <<2, v, 4 * v>>>> }

=============================================================================
