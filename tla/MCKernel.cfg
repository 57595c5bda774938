\* One CPU booting with the timer, the keyboard and an unknown vector as
\* interrupts, a general protection fault and a page fault as exceptions,
\* and getpid, exit, write, an unimplemented and an out-of-range number as
\* system calls; at most three of them, and three timer ticks.
SPECIFICATION KSpec
CONSTANTS
  IRQs = {0, 1, 5}
  Exceptions = {13, 14}
  SyscallNrs = {1, 39, 60, 200, 300}
  MaxJiffies = 3
  MaxEvents = 3
  NULL = NULL
INVARIANTS
  KTypeOK
PROPERTIES
  PanicIsFinal
  BootCompletes
CHECK_DEADLOCK FALSE
