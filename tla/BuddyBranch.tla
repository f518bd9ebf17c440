---------------------------- MODULE BuddyBranch -----------------------------
(***************************************************************************)
(* A branch of the buddy tree, `BuddyBranch2<B>` (memory/buddy/branch.rs): *)
(* two buddies of B_PAGES pages each and the numbers it remembers about    *)
(* them, which decide where it allocates without looking into them.  The   *)
(* two are any implementation of the trait `Buddy`: they act as            *)
(* PageAllocator says, so that a tree of any height is this module used    *)
(* once per level.                                                         *)
(***************************************************************************)
EXTENDS PageRuns

CONSTANT B_PAGES          \* B::PAGES

ASSUME BPagesAssumption == B_PAGES \in Nat \ {0}

PAGES == 2 * B_PAGES      \* Self::PAGES

VARIABLES
  left, right,            \* pages allocated in the two buddies
  free_info,              \* FreeInfo, per buddy
  ret                     \* what the last operation returned

vars == <<left, right, free_info, ret>>

\* The three numbers a FreeInfo has of one buddy, as that buddy reports them
Counts(S) == [longest |-> LongestFree(S, B_PAGES),
              start   |-> FreeStart(S, B_PAGES),
              end     |-> FreeEnd(S, B_PAGES)]

Max2(a, b) == IF a < b THEN b ELSE a
Min2(a, b) == IF a < b THEN a ELSE b
Monus(a, b) == Max2(a - b, 0)                        \* saturating_sub

Init ==
  /\ left = {} /\ right = {}
  /\ free_info = [left  |-> [longest |-> B_PAGES, start |-> B_PAGES, end |-> B_PAGES],
                  right |-> [longest |-> B_PAGES, start |-> B_PAGES, end |-> B_PAGES]]
  /\ ret = None

refresh == free_info' = [left |-> Counts(left'), right |-> Counts(right')]

Return(r) == ret' = r
ReturnNone == Return(None) /\ UNCHANGED <<left, right, free_info>>

(***************************************************************************)
(* allocate                                                                *)
(***************************************************************************)
AllocateLeft(pages) ==
  LET r == Allocated(left, B_PAGES, pages)
  IN IF r.ret = None
     THEN ReturnNone
     ELSE left' = r.set /\ UNCHANGED right /\ refresh /\ Return(r.ret)

\* The end of the left buddy and the start of the right one
AllocateAcross(pages) ==
  LET idx == B_PAGES - free_info.left.end
      l == AllocatedFixed(left, B_PAGES, idx, free_info.left.end, TRUE)
      right_pages == Monus(pages, free_info.left.end)
      r == AllocatedFixed(right, B_PAGES, 0, right_pages, TRUE)
  IN IF l.ret = None
     THEN ReturnNone
     ELSE IF right_pages > 0 /\ r.ret = None
     THEN /\ left' = Deallocated(l.set, B_PAGES, idx, free_info.left.end)
          /\ UNCHANGED <<right, free_info>> /\ Return(None)
     ELSE /\ left' = l.set
          /\ right' = IF right_pages > 0 THEN r.set ELSE right
          /\ refresh /\ Return({idx})

AllocateRight(pages) ==
  LET r == Allocated(right, B_PAGES, pages)
  IN IF r.ret = None
     THEN ReturnNone
     ELSE /\ right' = r.set /\ UNCHANGED left /\ refresh
          /\ Return({i + B_PAGES : i \in r.ret})

FitsAcross(pages) ==
  pages <= free_info.left.end + free_info.right.start /\ free_info.left.end > 0

allocate(pages) ==
  IF pages \notin 1..PAGES THEN ReturnNone
  ELSE IF pages <= free_info.left.longest THEN AllocateLeft(pages)
  ELSE IF FitsAcross(pages) THEN AllocateAcross(pages)
  ELSE IF pages <= free_info.right.longest THEN AllocateRight(pages)
  ELSE ReturnNone

(***************************************************************************)
(* allocate_fixed: the part in the left buddy, then the part in the right; *)
(* if that fails the left part is given back and free_info is not touched. *)
(***************************************************************************)
\* Mutant: the left part is kept when the right part fails
allocate_fixed_NoBackOut(idx, pages, replace) ==
  LET left_pages == Min2(Monus(B_PAGES, idx), pages)
      right_pages == pages - left_pages
      l == AllocatedFixed(left, B_PAGES, idx, left_pages, replace)
      r == AllocatedFixed(right, B_PAGES, Monus(idx, B_PAGES), right_pages, replace)
  IN IF \/ pages = 0 \/ pages > Monus(PAGES, idx)
        \/ left_pages > 0 /\ l.ret = None
     THEN ReturnNone
     ELSE /\ left' = IF left_pages > 0 THEN l.set ELSE left
          /\ right' = IF right_pages > 0 THEN r.set ELSE right
          /\ refresh
          /\ Return(IF right_pages > 0 /\ r.ret = None THEN None ELSE {idx})

allocate_fixed(idx, pages, replace) ==
  LET left_pages == Min2(Monus(B_PAGES, idx), pages)
      right_pages == pages - left_pages
      l == AllocatedFixed(left, B_PAGES, idx, left_pages, replace)
      r == AllocatedFixed(right, B_PAGES, Monus(idx, B_PAGES), right_pages, replace)
  IN IF \/ pages = 0 \/ pages > Monus(PAGES, idx)
        \/ left_pages > 0 /\ l.ret = None
     THEN ReturnNone
     ELSE IF right_pages > 0 /\ r.ret = None
     THEN /\ left' = IF left_pages > 0
                     THEN Deallocated(l.set, B_PAGES, idx, left_pages)
                     ELSE left
          /\ UNCHANGED <<right, free_info>> /\ Return(None)
     ELSE /\ left' = IF left_pages > 0 THEN l.set ELSE left
          /\ right' = IF right_pages > 0 THEN r.set ELSE right
          /\ refresh /\ Return({idx})

\* Mutant: the counts are not refreshed
deallocate_NoRefresh(idx, pages) ==
  LET overhang == Monus(idx + pages, B_PAGES)
  IN /\ idx + pages <= PAGES
     /\ IF idx >= B_PAGES
        THEN /\ right' = Deallocated(right, B_PAGES, idx - B_PAGES, pages)
             /\ UNCHANGED left
        ELSE /\ right' = Deallocated(right, B_PAGES, 0, overhang)
             /\ left' = Deallocated(left, B_PAGES, idx, pages - overhang)
     /\ UNCHANGED free_info /\ Return(None)

deallocate(idx, pages) ==
  LET overhang == Monus(idx + pages, B_PAGES)
  IN /\ idx + pages <= PAGES           \* checked by Memory::deallocate_pages
     /\ IF idx >= B_PAGES
        THEN /\ right' = Deallocated(right, B_PAGES, idx - B_PAGES, pages)
             /\ UNCHANGED left
        ELSE /\ right' = Deallocated(right, B_PAGES, 0, overhang)
             /\ left' = Deallocated(left, B_PAGES, idx, pages - overhang)
     /\ refresh /\ Return(None)

Next ==
  \/ \E pages \in 0..(PAGES + 1) : allocate(pages)
  \/ \E idx \in 0..PAGES, pages \in 0..(PAGES + 1) :
       \/ \E replace \in BOOLEAN : allocate_fixed(idx, pages, replace)
       \/ deallocate(idx, pages)

Spec == Init /\ [][Next]_vars

-----------------------------------------------------------------------------
(* The queries, which the branch above calls in its own refresh *)

longest_free_sequence ==
  Max2(Max2(free_info.left.end + free_info.right.start, free_info.left.longest),
       free_info.right.longest)

count_free_start ==
  IF free_info.left.start < B_PAGES
  THEN free_info.left.start
  ELSE free_info.right.start + B_PAGES

count_free_end ==
  IF free_info.right.end < B_PAGES
  THEN free_info.right.end
  ELSE free_info.left.end + B_PAGES

-----------------------------------------------------------------------------
(* Correctness *)

\* The pages allocated in the two buddies, as pages of the branch
Shifted(S) == {p + B_PAGES : p \in S}
Joined(L, R) == L \cup Shifted(R)
Pages == Joined(left, right)

\* The buddies hold pages of their own and an operation returns one page of
\* the branch or nothing (struct BuddyBranch2)
TypeOK ==
  /\ left \subseteq 0..(B_PAGES - 1)
  /\ right \subseteq 0..(B_PAGES - 1)
  /\ ret \in {None} \cup {{i} : i \in 0..(PAGES - 1)}

\* The remembered numbers are those of the two buddies as they are now, also
\* after an operation that failed half-way and returned without a refresh
InfoExact == free_info = [left |-> Counts(left), right |-> Counts(right)]

BranchInv == TypeOK /\ InfoExact

\* What the branch reports to the branch above it is what it would find by
\* looking at its pages
QueriesExact ==
  /\ longest_free_sequence = LongestFree(Pages, PAGES)
  /\ count_free_start = FreeStart(Pages, PAGES)
  /\ count_free_end = FreeEnd(Pages, PAGES)

Allocator == INSTANCE PageAllocator WITH allocated <- Pages

CallsMatch ==
  /\ \A pages \in 0..(PAGES + 1) : allocate(pages) => Allocator!Allocate(pages)
  /\ \A idx \in 0..PAGES, pages \in 0..(PAGES + 1) :
       /\ \A replace \in BOOLEAN :
            allocate_fixed(idx, pages, replace)
              => Allocator!AllocateFixed(idx, pages, replace)
       /\ deallocate(idx, pages) => Allocator!Deallocate(idx, pages)

\* Two buddies and their FreeInfo behave as one allocator of twice the size:
\* first fit across the seam, fixed ranges entirely or not at all, nothing
\* lost when one half of an allocation fails; every call does and returns what
\* the allocator's does
ImplementsAllocator == Allocator!Spec /\ [][CallsMatch]_vars
=============================================================================
