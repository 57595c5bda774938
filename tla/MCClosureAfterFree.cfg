CONSTANTS
  MAX_ORDER = 3
  MemMapSize = 4
  Ranges <- MCRangesWhole
  Contexts <- MCContextsOne
  c1 = c1
  NULL = NULL

SPECIFICATION Spec

INVARIANT CoalescingClosure
