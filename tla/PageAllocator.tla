--------------------------- MODULE PageAllocator ----------------------------
(***************************************************************************)
(* What the trait `Buddy` promises (memory/buddy.rs): an allocator of      *)
(* PAGES pages that hands out the first run of free pages that is long     *)
(* enough, allocates a fixed range entirely or not at all, and frees what  *)
(* it is told to free.  The leaves and the branches of the tree implement  *)
(* it.                                                                     *)
(***************************************************************************)
EXTENDS PageRuns

CONSTANT PAGES            \* Buddy::PAGES

VARIABLES
  allocated,              \* the pages that are allocated
  ret                     \* what the last operation returned

Init == allocated = {} /\ ret = None

Allocate(pages) ==
  LET r == Allocated(allocated, PAGES, pages)
  IN allocated' = r.set /\ ret' = r.ret

AllocateFixed(idx, pages, replace) ==
  LET r == AllocatedFixed(allocated, PAGES, idx, pages, replace)
  IN allocated' = r.set /\ ret' = r.ret

\* Its caller, Memory::deallocate_pages, checks the range first
Deallocate(idx, pages) ==
  /\ idx + pages <= PAGES
  /\ allocated' = Deallocated(allocated, PAGES, idx, pages)
  /\ ret' = None

Next ==
  \/ \E pages \in 0..(PAGES + 1) : Allocate(pages)
  \/ \E idx \in 0..PAGES, pages \in 0..(PAGES + 1) :
       \/ \E replace \in BOOLEAN : AllocateFixed(idx, pages, replace)
       \/ Deallocate(idx, pages)

Spec == Init /\ [][Next]_<<allocated, ret>>
=============================================================================
