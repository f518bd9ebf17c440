CONSTANTS
  PAGES = 5
  PAGE_SIZE = 4
  STACK_PAGES = 1
  PUSHED = 1
  Programs <- MCPrograms
  Addresses = {4, 5, 8}
  Lengths = {0, 1, 5, 17}
  Perms <- MCPerms
  MAX_DIRTY = 3
  SIZE = 5
  BYTES = {0, 1}
  RELA_BYTES = 2
  WORD = 1
  INT = 1
  SHORT = 1
  U64 = 24
  RLIMIT_NOFILE = 2
  MAX_CPU_SET_SIZE = 3
  SIGNALS = 4
  RANDOM <- MCRandom
  Args = {0, 1, 2, 3, 6, 23}
  NonZero = {1, 6}
  MAX_VEC = 3
  Arranged <- MCMemories
SPECIFICATION MCSpec
INVARIANTS
  LayoutSound
  OnlyHeldAccessible
  LoadedAsWritten
  
  FootprintBounded
PROPERTIES
  FreshIsZero
  HeldUndisturbed
  CallsConfined
CHECK_DEADLOCK FALSE
