SPECIFICATION Spec
CONSTANTS
  UNSET = UNSET
  ELSEWHERE = ELSEWHERE
  BlockSize = 2
  Sizes = {0, 1, 2, 3, 4, 7}
  DindFirst = 1
  DindEnd = 3
  Builds = {"release"}
INVARIANTS
  OkMeansRightBlocks
