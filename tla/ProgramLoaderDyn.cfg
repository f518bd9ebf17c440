CONSTANTS
  SIZE = 5
  BYTES = {0, 1}
  RELA_BYTES = 2
SPECIFICATION LoadSpec
INVARIANTS
  ImageComplete
CHECK_DEADLOCK FALSE
