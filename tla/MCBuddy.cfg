CONSTANTS
  LEAF_PAGES = 6
  BITS = 6
  B_PAGES = 3
SPECIFICATION MCSpec
INVARIANTS
  QueriesExact
  LeafAsBranch
PROPERTY
  ImplementsAllocator
