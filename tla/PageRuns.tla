------------------------------ MODULE PageRuns ------------------------------
(***************************************************************************)
(* Runs of free pages in an area of n pages of which the set S is          *)
(* allocated: what the queries of the trait `Buddy` (memory/buddy.rs)      *)
(* count and what its operations look for.  A page is its index.           *)
(***************************************************************************)
EXTENDS Integers

\* The k pages from page i on
Run(i, k) == i..(i + k - 1)

\* These k pages lie in the area and are all free
Free(S, n, i, k) == i + k <= n /\ Run(i, k) \cap S = {}

Fits(S, n, k) == \E i \in 0..n : Free(S, n, i, k)

IsFirst(S, n, k, i) == Free(S, n, i, k) /\ \A j \in 0..(i - 1) : ~Free(S, n, j, k)
IsLongest(S, n, l) == Fits(S, n, l) /\ \A k \in (l + 1)..n : ~Fits(S, n, k)
IsFreeStart(S, n, f) == Free(S, n, 0, f) /\ (f < n => f \in S)
IsFreeEnd(S, n, f) == Free(S, n, n - f, f) /\ (f < n => (n - f) - 1 \in S)

FirstFit(S, n, k) == CHOOSE i \in 0..n : IsFirst(S, n, k, i)
LongestFree(S, n) == CHOOSE l \in 0..n : IsLongest(S, n, l)
FreeStart(S, n) == CHOOSE f \in 0..n : IsFreeStart(S, n, f)
FreeEnd(S, n) == CHOOSE f \in 0..n : IsFreeEnd(S, n, f)

(***************************************************************************)
(* What the three operations of the trait return and leave.  An Option is  *)
(* a set of at most one element; `allocate_fixed` returns Some(()), here   *)
(* the index it was asked for.                                             *)
(***************************************************************************)
None == {}

Allocated(S, n, k) ==
  IF k \in 1..n /\ Fits(S, n, k)
  THEN [set |-> S \cup Run(FirstFit(S, n, k), k), ret |-> {FirstFit(S, n, k)}]
  ELSE [set |-> S, ret |-> None]

AllocatedFixed(S, n, i, k, replace) ==
  IF k > 0 /\ i + k <= n /\ (replace \/ Run(i, k) \cap S = {})
  THEN [set |-> S \cup Run(i, k), ret |-> {i}]
  ELSE [set |-> S, ret |-> None]

\* A range that is empty or leaves the area changes nothing
Deallocated(S, n, i, k) == IF k > 0 /\ i + k <= n THEN S \ Run(i, k) ELSE S
=============================================================================
