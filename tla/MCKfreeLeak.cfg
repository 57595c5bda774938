SPECIFICATION KSpec
CONSTANTS
  c1 = c1
  c2 = c2
  NULL = NULL
  MAX_ORDER = 3
  MemMapSize = 4
  PAGE_SIZE = 4
  SIZE_BITS = 6
  Ranges <- MCRangesWhole
  Contexts <- MCContextsOne
  Sizes <- MCSizesMulti
  CallocArgs <- MCCallocMulti
  KGfp <- MCGfp
INVARIANTS
  PagesPartitioned
