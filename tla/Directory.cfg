SPECIFICATION FairSpec
CONSTANTS
  Trees <- MCTrees
  Extents <- MCExtents
  EXT4_IND_BLOCK = 1
  DindFirst = 2
  Paths <- MCPaths
  Handles = {h1, h2}
  ChunkSize = 2
  ToAcp <- MCToAcp
  ToUtf8 <- MCToUtf8
  NULL = NULL
INVARIANTS
  UndefinedHasCause
  TablesHold
  ListingIsComplete
  FileIsRight
  DefinedUnlessFailed
PROPERTY CallsReturn
CHECK_DEADLOCK FALSE
