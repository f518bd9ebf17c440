----------------------------- MODULE BuddyLeaf ------------------------------
(***************************************************************************)
(* A leaf of the buddy tree, `BuddyLeaf<PAGES>` (memory/buddy/leaf.rs):    *)
(* one bit per page in a word of BITS bits.  The word is the set of its    *)
(* bits that are 1.                                                        *)
(***************************************************************************)
EXTENDS PageRuns

CONSTANTS
  LEAF_PAGES,             \* PAGES
  BITS                    \* u64::BITS

ASSUME LeafAssumption == LEAF_PAGES \in Nat \ {0} /\ BITS \in Nat /\ LEAF_PAGES <= BITS

VARIABLES
  leaf_set,               \* the word
  leaf_ret                \* what the last operation returned

leaf_vars == <<leaf_set, leaf_ret>>

LeafInit == leaf_set = {} /\ leaf_ret = None

\* ones(pages) << idx
Mask(idx, pages) == Run(idx, pages)

OutOfRange(idx, pages) == pages = 0 \/ idx + pages > LEAF_PAGES

\* The first start at which no bit under the mask is set
leaf_allocate(pages) ==
  LET starts == {s \in 0..(LEAF_PAGES - pages) : leaf_set \cap Mask(s, pages) = {}}
      start == CHOOSE s \in starts : \A t \in starts : s <= t
  IN IF pages = 0 \/ pages > LEAF_PAGES \/ starts = {}
     THEN leaf_ret' = None /\ UNCHANGED leaf_set
     ELSE leaf_ret' = {start} /\ leaf_set' = leaf_set \cup Mask(start, pages)

leaf_allocate_fixed(idx, pages, replace) ==
  IF \/ OutOfRange(idx, pages)
     \/ ~replace /\ leaf_set \cap Mask(idx, pages) # {}
  THEN leaf_ret' = None /\ UNCHANGED leaf_set
  ELSE /\ leaf_ret' = {idx}
       /\ leaf_set' = IF idx = 0 /\ pages = LEAF_PAGES /\ replace
                      THEN 0..(BITS - 1)
                      ELSE leaf_set \cup Mask(idx, pages)

leaf_deallocate(idx, pages) ==
  /\ idx + pages <= LEAF_PAGES         \* checked by Memory::deallocate_pages
  /\ leaf_ret' = None
  /\ leaf_set' = IF OutOfRange(idx, pages) THEN leaf_set
                 ELSE IF idx = 0 /\ pages = LEAF_PAGES THEN {}
                 ELSE leaf_set \ Mask(idx, pages)

LeafNext ==
  \/ \E pages \in 0..(LEAF_PAGES + 1) : leaf_allocate(pages)
  \/ \E idx \in 0..LEAF_PAGES, pages \in 0..(LEAF_PAGES + 1) :
       \/ \E replace \in BOOLEAN : leaf_allocate_fixed(idx, pages, replace)
       \/ leaf_deallocate(idx, pages)

LeafSpec == LeafInit /\ [][LeafNext]_leaf_vars

-----------------------------------------------------------------------------
(* The queries *)

ShiftRight(word, by) == {b - by : b \in {x \in word : x >= by}}
TrailingZeros(word) == IF word = {} THEN BITS ELSE CHOOSE b \in word : \A c \in word : b <= c
LeadingZeros(word) == IF word = {} THEN BITS
                      ELSE (BITS - 1) - (CHOOSE b \in word : \A c \in word : c <= b)

\* Mutant: the zeros above the last page are counted
FreeFrom_NoMin(shift) == TrailingZeros(ShiftRight(leaf_set, shift))

\* The zeros above each shift, no more than there are pages left
FreeFrom(shift) ==
  LET zeros == TrailingZeros(ShiftRight(leaf_set, shift))
  IN IF zeros < LEAF_PAGES - shift THEN zeros ELSE LEAF_PAGES - shift

leaf_longest_free_sequence ==
  IF leaf_set = {} THEN LEAF_PAGES
  ELSE LET counts == {FreeFrom(shift) : shift \in 0..(LEAF_PAGES - 1)}
       IN CHOOSE c \in counts : \A d \in counts : d <= c

leaf_count_free_start ==
  IF LEAF_PAGES < TrailingZeros(leaf_set) THEN LEAF_PAGES ELSE TrailingZeros(leaf_set)

leaf_count_free_end ==
  LET leading_unused_bits == BITS - LEAF_PAGES
  IN IF LeadingZeros(leaf_set) < leading_unused_bits THEN 0
     ELSE LeadingZeros(leaf_set) - leading_unused_bits

-----------------------------------------------------------------------------
(* Correctness *)

LeafPages == leaf_set \cap 0..(LEAF_PAGES - 1)

\* The word has BITS bits and an operation returns one page of the leaf or
\* nothing (struct BuddyLeaf)
LeafTypeOK ==
  /\ leaf_set \subseteq 0..(BITS - 1)
  /\ leaf_ret \in {None} \cup {{i} : i \in 0..(LEAF_PAGES - 1)}

\* What the leaf reports by counting zeros in its word are the runs of free
\* pages a branch above it relies on
LeafQueriesExact ==
  /\ leaf_longest_free_sequence = LongestFree(LeafPages, LEAF_PAGES)
  /\ leaf_count_free_start = FreeStart(LeafPages, LEAF_PAGES)
  /\ leaf_count_free_end = FreeEnd(LeafPages, LEAF_PAGES)

LeafAllocator == INSTANCE PageAllocator
  WITH PAGES <- LEAF_PAGES, allocated <- LeafPages, ret <- leaf_ret

LeafCallsMatch ==
  /\ \A pages \in 0..(LEAF_PAGES + 1) : leaf_allocate(pages) => LeafAllocator!Allocate(pages)
  /\ \A idx \in 0..LEAF_PAGES, pages \in 0..(LEAF_PAGES + 1) :
       /\ \A replace \in BOOLEAN :
            leaf_allocate_fixed(idx, pages, replace)
              => LeafAllocator!AllocateFixed(idx, pages, replace)
       /\ leaf_deallocate(idx, pages) => LeafAllocator!Deallocate(idx, pages)

\* Masks and shortcuts on the word behave as the allocator of the pages they
\* stand for: every call does and returns what the allocator's does
LeafImplementsAllocator == LeafAllocator!Spec /\ [][LeafCallsMatch]_leaf_vars
=============================================================================
