SPECIFICATION FairSpec
CONSTANTS
  UNSET = UNSET
  ELSEWHERE = ELSEWHERE
  BlockSize = 2
  Sizes = {0, 1, 2, 3, 4, 7}
  DindFirst = 1
  DindEnd = 3
  Builds = {"debug", "release"}
INVARIANTS
  CallLeavesNothingBehind
  WritesHitOpenHandle
  
  ReadsOwnSectors
  AbortWithinOneBlock
PROPERTIES
  CallReturns
  ImplementsDownload
\* The debug build can hang: CallReturns says when.
CHECK_DEADLOCK FALSE
