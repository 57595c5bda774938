CONSTANTS
  LONG_BITS = 8
  MaxSize = 6
  SHELL_MAX_ARGS = 2
  Inputs <- MCInputs
SPECIFICATION PSpec
INVARIANTS
  NumbersFaithful
  TruncationIsPrefix
  PrintkFaithful
  ShellNumbersFaithful
  ArgsAreTokens
  MemmoveFaithful
  MemcmpOrders
