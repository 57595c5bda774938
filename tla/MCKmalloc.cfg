SPECIFICATION KSpec
CONSTANTS
  c1 = c1
  c2 = c2
  NULL = NULL
  MAX_ORDER = 3
  MemMapSize = 4
  PAGE_SIZE = 4
  SIZE_BITS = 6
  Ranges <- MCRangesWhole
  Contexts <- MCContexts
  Sizes <- MCSizesPage
  CallocArgs <- MCCallocPage
  KGfp <- MCGfp
SYMMETRY ContextSymmetry
INVARIANTS
  PagesPartitioned
  Conservation
  FreeListDescriptorsAgree
PROPERTIES
  FailureOnlyWhenNoFit
  Refinement
