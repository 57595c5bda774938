CONSTANTS
  h1 = h1
  h2 = h2
  e1 = e1
  e2 = e2
  e3 = e3
  UNDEF = UNDEF
  LIST_POISON1 = LIST_POISON1
  LIST_POISON2 = LIST_POISON2
  Heads <- MCHeads
  Entries <- MCEntries
SPECIFICATION LSpec
SYMMETRY ListSymmetry
INVARIANTS
  LTypeOK
  ListsLinked
  QueriesAgree
PROPERTIES
  Refinement
