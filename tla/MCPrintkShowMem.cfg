CONSTANTS
  LONG_BITS = 8
  MaxSize = 0
  SHELL_MAX_ARGS = 2
  Inputs <- MCInputsShowMem
SPECIFICATION PSpec
INVARIANTS
  PrintkFaithful
