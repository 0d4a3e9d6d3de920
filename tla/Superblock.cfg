SPECIFICATION Spec
CONSTANTS
  FileSystems <- MCFileSystems
  SectorSizes = {512, 4096}
  Asked <- MCAsked
  MaxQueueLen = 2
  Word = 32768
INVARIANTS
  DescriptorsInsideBuffer
  DescriptorsAreRight
  EveryInodeHasDescriptor
  InodeIsRight
CHECK_DEADLOCK FALSE
