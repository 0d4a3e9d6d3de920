SPECIFICATION Spec
CONSTANTS
  Systems <- MCSystems
  Names <- MCNames
  NULL = NULL
INVARIANTS
  PathsReadInsideMap
  MapFits
  NumbersLeadToPartitions
  ListingIsComplete
CHECK_DEADLOCK FALSE
