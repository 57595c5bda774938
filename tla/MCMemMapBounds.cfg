CONSTANTS
  MAX_ORDER = 3
  MemMapSize = 6
  Ranges <- MCRangesShort
  Contexts <- MCContextsOne
  c1 = c1
  NULL = NULL

SPECIFICATION Spec

INVARIANT BuddyReadsInMemMap
