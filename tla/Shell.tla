------------------------------- MODULE Shell -------------------------------
(***************************************************************************)
(* The line editor and command history of the debug shell (shell.c):     *)
(* shell_handle_char, one action per class of input byte, with            *)
(* shell_history_add, shell_history_get and the part of shell_execute     *)
(* that touches them.  A line is the sequence of its characters, drawn    *)
(* from a small set of printable bytes; the commands the line may name    *)
(* are not modelled, and no line of the alphabet names one.               *)
(***************************************************************************)
EXTENDS Integers, Sequences

CONSTANTS
  SHELL_BUFFER_SIZE,    \* 256 in shell.c
  SHELL_HISTORY_SIZE,   \* 10 in shell.c
  Printable,            \* printable bytes the user types (0x20 .. 0x7E)
  MaxCommands           \* bound on shell_history_count for TLC

\* The escape_buf array of shell_handle_char.
ESCAPE_BUF_SIZE == 8

\* Control bytes with their own branch of shell_handle_char; '\n' and BS
\* take the same branches as '\r' and DEL.  Tab, Ctrl+D and Ctrl+L change
\* no state of the shell and are left out.
ESC == "ESC"
CR  == "CR"
DEL == "DEL"
ETX == "ETX"

ASSUME {" ", "[", "A", "B"} \subseteq Printable /\ {ESC, CR, DEL, ETX} \cap Printable = {}

VARIABLES
  shell_buffer,          \* the characters before shell_buffer_pos
  escape_state,
  escape_pos,
  shell_history,         \* shell_history[i]: line in slot i of the ring
  shell_history_count,
  shell_history_index,
  added                  \* history: every line shell_history_add stored

shvars == <<shell_buffer, escape_state, escape_pos, shell_history,
            shell_history_count, shell_history_index, added>>

Slots == 0 .. SHELL_HISTORY_SIZE - 1
NULL  == -1

-----------------------------------------------------------------------------
(* The string helpers of shell.c on lines as sequences.  Characters carry  *)
(* no codes here, so shell_strcmp tells equal from different and no more:  *)
(* its callers only compare the result with 0.                            *)

shell_strlen(s) == Len(s)

RECURSIVE shell_strcmp(_, _)
shell_strcmp(s1, s2) ==
  IF s1 # << >> /\ s2 # << >> /\ Head(s1) = Head(s2) THEN shell_strcmp(Tail(s1), Tail(s2))
  ELSE IF s1 = << >> /\ s2 = << >> THEN 0 ELSE 1

\* shell_strncpy(dest, src, n): the first n characters of src, the rest of
\* dest NUL-padded.
shell_strncpy(src, n) == IF Len(src) <= n THEN src ELSE SubSeq(src, 1, n)

-----------------------------------------------------------------------------
(* History.                                                                *)

\* The lowest count a live entry has: older ones have been overwritten.
HistoryStart ==
  IF shell_history_count > SHELL_HISTORY_SIZE
  THEN shell_history_count - SHELL_HISTORY_SIZE ELSE 0

\* shell_history_add(cmd): skip an empty line; a repeat of the newest entry
\* only moves the cursor; otherwise store into slot count % SIZE, truncated
\* to SHELL_BUFFER_SIZE - 1 characters.
shell_history_add(cmd) ==
  IF shell_strlen(cmd) = 0 THEN UNCHANGED <<shell_history, shell_history_count, shell_history_index, added>>
  ELSE IF shell_history_count > 0
          /\ shell_strcmp(shell_history[(shell_history_count - 1) % SHELL_HISTORY_SIZE], cmd) = 0
  THEN /\ shell_history_index' = shell_history_count
       /\ UNCHANGED <<shell_history, shell_history_count, added>>
  ELSE /\ shell_history' = [shell_history EXCEPT ![shell_history_count % SHELL_HISTORY_SIZE] =
                              shell_strncpy(cmd, SHELL_BUFFER_SIZE - 1)]
       /\ shell_history_count' = shell_history_count + 1
       /\ shell_history_index' = shell_history_count + 1
       /\ added' = Append(added, cmd)

\* (Mutant: the window check of shell_history_get is lost.)
HistoryGetNoWindow(offset) ==
  LET index == shell_history_index + offset IN
  IF index < 0 \/ index >= shell_history_count THEN NULL ELSE index

\* shell_history_get(offset): the count of the entry it returns, or NULL;
\* the caller moves shell_history_index there.
HistoryGet(offset) ==
  LET index == shell_history_index + offset IN
  IF index < 0 \/ index >= shell_history_count \/ index < HistoryStart THEN NULL ELSE index

\* cmd_history's listing: the number (count + 1) and the line of every
\* entry from the window start to the newest.
cmd_history ==
  LET start == IF shell_history_count > SHELL_HISTORY_SIZE
               THEN shell_history_count - SHELL_HISTORY_SIZE ELSE 0
  IN [k \in 1 .. shell_history_count - start |->
        <<start + k, shell_history[(start + k - 1) % SHELL_HISTORY_SIZE]>>]

-----------------------------------------------------------------------------
(* shell_handle_char.                                                      *)

RECURSIVE SkipSpace(_)
SkipSpace(s) == IF s # << >> /\ Head(s) = " " THEN SkipSpace(Tail(s)) ELSE s

EscapeDone == escape_state' = 0 /\ escape_pos' = 0

\* ESC in normal state.
escape_start ==
  /\ escape_state = 0
  /\ escape_state' = 1 /\ escape_pos' = 0
  /\ UNCHANGED <<shell_buffer, shell_history, shell_history_count, shell_history_index, added>>

\* '[' after ESC: stored in escape_buf, a CSI sequence begins.
escape_bracket ==
  /\ escape_state = 1
  /\ escape_state' = 2 /\ escape_pos' = escape_pos + 1
  /\ UNCHANGED <<shell_buffer, shell_history, shell_history_count, shell_history_index, added>>

\* Any other byte after ESC: stored, then the sequence is abandoned.
escape_abort(c) ==
  /\ escape_state = 1 /\ c # "["
  /\ EscapeDone
  /\ UNCHANGED <<shell_buffer, shell_history, shell_history_count, shell_history_index, added>>

\* Up arrow: recall the previous entry, if shell_history_get has one.
arrow_up ==
  LET i == HistoryGet(-1) IN
  /\ escape_state = 2
  /\ EscapeDone
  /\ IF i = NULL THEN UNCHANGED <<shell_buffer, shell_history_index>>
     ELSE /\ shell_history_index' = i
          /\ shell_buffer' = shell_history[i % SHELL_HISTORY_SIZE]
  /\ UNCHANGED <<shell_history, shell_history_count, added>>

\* Down arrow: recall the next entry, or clear the line past the newest
\* (leaving shell_history_index where it was).
arrow_down ==
  LET i == HistoryGet(1) IN
  /\ escape_state = 2
  /\ EscapeDone
  /\ IF i = NULL THEN shell_buffer' = << >> /\ UNCHANGED shell_history_index
     ELSE /\ shell_history_index' = i
          /\ shell_buffer' = shell_history[i % SHELL_HISTORY_SIZE]
  /\ UNCHANGED <<shell_history, shell_history_count, added>>

\* Any other final byte (Right, Left, Delete, ...): ignored.
escape_final(c) ==
  /\ escape_state = 2 /\ c \notin {"A", "B"}
  /\ EscapeDone
  /\ UNCHANGED <<shell_buffer, shell_history, shell_history_count, shell_history_index, added>>

\* Enter: shell_execute adds the line without its leading blanks to the
\* history unless it is blank; then the line is cleared and the cursor
\* goes past the newest entry.
enter ==
  LET line == SkipSpace(shell_buffer) IN
  /\ escape_state = 0
  /\ shell_history_count < MaxCommands
  /\ shell_buffer' = << >>
  /\ IF line = << >> THEN UNCHANGED <<shell_history, shell_history_count, added>>
     ELSE shell_history_add(line)
  /\ shell_history_index' = shell_history_count'
  /\ UNCHANGED <<escape_state, escape_pos>>

\* Backspace: drop the last character, if any.
backspace ==
  /\ escape_state = 0
  /\ shell_buffer # << >>
  /\ shell_buffer' = SubSeq(shell_buffer, 1, Len(shell_buffer) - 1)
  /\ UNCHANGED <<escape_state, escape_pos, shell_history, shell_history_count, shell_history_index, added>>

\* Ctrl+C: discard the line.
ctrl_c ==
  /\ escape_state = 0
  /\ shell_buffer' = << >>
  /\ UNCHANGED <<escape_state, escape_pos, shell_history, shell_history_count, shell_history_index, added>>

\* (Mutant: the room check forgets the terminating NUL.)
printableNoNul(c) ==
  /\ escape_state = 0
  /\ Len(shell_buffer) <= SHELL_BUFFER_SIZE - 1
  /\ shell_buffer' = Append(shell_buffer, c)
  /\ UNCHANGED <<escape_state, escape_pos, shell_history, shell_history_count, shell_history_index, added>>

\* A printable byte is appended while the buffer has room for it and the
\* terminating NUL.
printable(c) ==
  /\ escape_state = 0
  /\ Len(shell_buffer) < SHELL_BUFFER_SIZE - 1
  /\ shell_buffer' = Append(shell_buffer, c)
  /\ UNCHANGED <<escape_state, escape_pos, shell_history, shell_history_count, shell_history_index, added>>

\* shell_init's reset of the line and history.
ShInit ==
  /\ shell_buffer = << >>
  /\ escape_state = 0 /\ escape_pos = 0
  /\ shell_history = [i \in Slots |-> << >>]
  /\ shell_history_count = 0 /\ shell_history_index = 0
  /\ added = << >>

\* One byte read by the main loop.
shell_handle_char(c) ==
  \/ c = ESC /\ escape_start
  \/ c = "[" /\ escape_bracket
  \/ escape_abort(c)
  \/ c = "A" /\ arrow_up
  \/ c = "B" /\ arrow_down
  \/ escape_final(c)
  \/ c = CR /\ enter
  \/ c = DEL /\ backspace
  \/ c = ETX /\ ctrl_c
  \/ c \in Printable /\ printable(c)

ShNext == \E c \in Printable \cup {ESC, CR, DEL, ETX} : shell_handle_char(c)

ShSpec == ShInit /\ [][ShNext]_shvars

-----------------------------------------------------------------------------
(* Properties.                                                             *)

Line == UNION {[1 .. n -> Printable] : n \in 0 .. SHELL_BUFFER_SIZE - 1}

ShTypeOK ==
  /\ shell_buffer \in Line
  /\ escape_state \in 0 .. 2 /\ escape_pos \in Nat
  /\ shell_history \in [Slots -> Line]
  /\ shell_history_count \in 0 .. MaxCommands
  /\ shell_history_index \in 0 .. MaxCommands
  /\ added \in Seq(Line)

\* Neither buffer of shell_handle_char is ever written out of bounds: the
\* line, a recalled history entry included, leaves room for its NUL, and
\* the next escape byte lands inside escape_buf, however long the user
\* keeps typing escape sequences.
BuffersInBounds ==
  /\ Len(shell_buffer) <= SHELL_BUFFER_SIZE - 1
  /\ escape_state > 0 => escape_pos < ESCAPE_BUF_SIZE

\* The ring holds exactly the newest SHELL_HISTORY_SIZE lines that were
\* added, each in the slot of its count, and the arrow keys never move
\* shell_history_index to an overwritten entry: what Up and Down recall is
\* always the line that was entered at that position; the history command
\* lists exactly those lines, numbered from the first line ever entered.
HistoryWindowLive ==
  /\ shell_history_count = Len(added)
  /\ \A i \in HistoryStart .. shell_history_count - 1 :
       shell_history[i % SHELL_HISTORY_SIZE] = added[i + 1]
  /\ shell_history_index \in HistoryStart .. shell_history_count
  /\ cmd_history = [k \in 1 .. shell_history_count - HistoryStart |->
                      <<HistoryStart + k, added[HistoryStart + k]>>]

=============================================================================
