SPECIFICATION Spec
CONSTANTS
  NULL = NULL
  Trees <- MCTrees
  MaxBlocks = 4
  Top = 60
  LeafSizes = {1, 2}
  PerIndex = 2
  AddrWidth = 100
  HoleFree = FALSE
  ReadsFail = FALSE
INVARIANTS
  MappedMeansCovered
