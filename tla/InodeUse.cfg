SPECIFICATION Spec
CONSTANTS
  main = main
  copy_thread = copy_thread
  b1 = b1
  b2 = b2
  b3 = b3
  NULL = NULL
  Main <- main
  Copier <- copy_thread
  Threads <- MCThreads
  Buffers <- MCBuffers
  GroupCount = 3
  InodesPerGroup = 2
  MaxQueueLen = 2
SYMMETRY BufferSymmetry
INVARIANTS
  QueueMatchesCache
  NoLeak
  NoDanglingInode
  CopierOnlyHits
PROPERTIES
  CacheFrozenDuringCopy
CHECK_DEADLOCK FALSE
