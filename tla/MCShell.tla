------------------------------- MODULE MCShell -------------------------------
(* A one-character line, a two-entry ring and three stored commands, so *)
(* the ring wraps; the printable bytes include the ones that also end   *)
(* escape sequences.                                                    *)
EXTENDS Shell, TLC

MCPrintable == {" ", "[", "A", "B"}

=============================================================================
