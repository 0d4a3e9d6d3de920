SPECIFICATION FairSpec
CONSTANTS
  Disks <- MCDisks
  SectorWrap <- MCSectorWrap
  Unreadable = {"mbr", "ebr", "superblock", "descriptors"}
INVARIANTS
  TypeOK
  NumbersGrow
  RightPlaces
  FindsEverything
  ReadTableIsUsable
PROPERTY SearchEnds
CHECK_DEADLOCK FALSE
