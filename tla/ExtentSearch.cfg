SPECIFICATION SearchSpec
CONSTANTS
  MaxEntries = 5
  MaxBlock = 5
  Headers <- MCHeaders
  Blocks <- MCBlocks
INVARIANTS
  FindsEntry
PROPERTIES
  Terminates
CHECK_DEADLOCK FALSE
