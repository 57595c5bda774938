CONSTANTS
  MAX_ORDER = 4
  MemMapSize = 8
  Ranges <- MCRangesSplit
  Contexts <- MCContextsOne
  c1 = c1
  NULL = NULL

SPECIFICATION Spec

INVARIANT TypeOK
INVARIANT Conservation
INVARIANT FreeListDescriptorsAgree
PROPERTY FailureOnlyWhenNoFit
PROPERTY Refinement
INVARIANT SeedIsMaximalDecomposition
INVARIANT ExpandTilesBlock
