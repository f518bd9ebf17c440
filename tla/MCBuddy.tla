------------------------------- MODULE MCBuddy -------------------------------
(***************************************************************************)
(* A branch and a leaf of as many pages, both given every call: a tree of  *)
(* the allocator is built of either (the layouts of memory/buddy.rs).      *)
(***************************************************************************)
EXTENDS BuddyLeaf, BuddyBranch

\* A leaf of as many pages that fills its word
SameSize == LEAF_PAGES = PAGES /\ BITS = PAGES

MCInit == Init /\ LeafInit

MCNext ==
  \/ \E pages \in 0..(PAGES + 1) : allocate(pages) /\ leaf_allocate(pages)
  \/ \E idx \in 0..PAGES, pages \in 0..(PAGES + 1) :
       \/ \E replace \in BOOLEAN : /\ allocate_fixed(idx, pages, replace)
                                   /\ leaf_allocate_fixed(idx, pages, replace)
       \/ deallocate(idx, pages) /\ leaf_deallocate(idx, pages)

MCSpec == MCInit /\ [][MCNext]_<<vars, leaf_vars>>

\* After the same calls a leaf (leaf.rs), which searches its word, and a branch
\* (branch.rs), which goes by the numbers it remembers, have allocated the same
\* pages, returned the same and report the same free runs
LeafAsBranch ==
  /\ leaf_set = Pages
  /\ leaf_ret = ret
  /\ leaf_longest_free_sequence = longest_free_sequence
  /\ leaf_count_free_start = count_free_start
  /\ leaf_count_free_end = count_free_end
==============================================================================
