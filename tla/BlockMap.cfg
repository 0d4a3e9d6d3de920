SPECIFICATION Spec
CONSTANTS
  AddrPerBlock = 3
  FileBlocks = {1, 12, 13, 14, 15, 16, 17, 18, 19, 20, 21, 22, 23, 24, 25, 27}
  WrapBlocks = 100
  ReadsFail = TRUE
INVARIANTS
  MapsRight
  MapsAll
  HoldsWhatItNeeds
