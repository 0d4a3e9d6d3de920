SPECIFICATION Spec
CONSTANTS
  Systems <- MCSystems
  Names <- MCNames
  NULL = NULL
INVARIANT PathsLeadToPartitions
CHECK_DEADLOCK FALSE
