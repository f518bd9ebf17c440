----------------------------- MODULE BuddyProofs ------------------------------
(***************************************************************************)
(* Proofs about the buddy tree.                                            *)
(*                                                                         *)
(* Leaves of any number of pages, in words of any width: every operation   *)
(* on the word is the operation of PageAllocator on the pages it stands    *)
(* for.                                                                    *)
(*                                                                         *)
(* Branches over buddies of any size.  The inductive invariant is          *)
(* BranchInv: the pages are pages of the buddies and the remembered counts *)
(* are exact.  What the branch then decides from six numbers is right      *)
(* because a free run of the branch lies in the left buddy, in the right   *)
(* buddy, or is made of the end of the one and the start of the other      *)
(* (SeamFree).                                                             *)
(***************************************************************************)
EXTENDS MCBuddy, WellFoundedInduction, TLAPS

-----------------------------------------------------------------------------
(* The numbers of PageRuns exist and are determined by what they mean: for *)
(* every set of pages S and every area of n pages.                         *)

\* A non-empty set of numbers has a least one
LEMMA Least ==
  ASSUME NEW T \in SUBSET Nat, T # {}
  PROVE  \E x \in T : \A y \in T : x <= y
<1> DEFINE Less == {ss \in Nat \X Nat : ss[1] < ss[2]}
<1>1. IsWellFoundedOn(Less, Nat)
  BY NatLessThanWellFounded DEF OpToRel
<1>2. \A y, x \in Nat : <<y, x>> \in Less <=> y < x
  OBVIOUS
<1> HIDE DEF Less
<1>3. PICK x \in T : \A y \in T : ~(<<y, x>> \in Less)
  BY <1>1, WFMin
<1>4. T \subseteq Nat
  OBVIOUS
<1>5. \A y \in T : ~(y < x)
  BY <1>2, <1>3, <1>4
<1>6. \A y \in T : x <= y
  BY <1>4, <1>5
<1> QED
  BY <1>6

\* A non-empty set of numbers up to n has a greatest one
LEMMA Greatest ==
  ASSUME NEW n \in Nat, NEW T \in SUBSET (0..n), T # {}
  PROVE  \E x \in T : \A y \in T : y <= x
<1> DEFINE D == {n - t : t \in T}
<1>1. D \in SUBSET Nat /\ D # {}
  <2>1. \A t \in T : t \in 0..n
    OBVIOUS
  <2>2. \A t \in T : n - t \in Nat
    BY <2>1
  <2> QED
    BY <2>2
<1>2. PICK d \in D : \A e \in D : d <= e
  BY <1>1, Least
<1>3. PICK x \in T : d = n - x
  BY <1>2
<1>4. \A y \in T : n - x <= n - y
  BY <1>2, <1>3
<1>5. \A y \in T : y <= x
  <2> TAKE y \in T
  <2>1. x \in 0..n /\ y \in 0..n /\ n - x <= n - y
    BY <1>4
  <2> QED
    BY <2>1
<1> QED
  BY <1>5

\* Part of a free run is free
LEMMA FreeShorter ==
  ASSUME NEW S, NEW n \in Nat, NEW i \in Nat, NEW l \in Nat, NEW k \in Nat,
         k <= l, Free(S, n, i, l)
  PROVE  Free(S, n, i, k)
BY DEF Free, Run

\* If any run of k pages is free then allocate has a first one to take
LEMMA FirstFitFound ==
  ASSUME NEW S, NEW n \in Nat, NEW k \in Nat, Fits(S, n, k)
  PROVE  /\ FirstFit(S, n, k) \in 0..n
         /\ IsFirst(S, n, k, FirstFit(S, n, k))
<1> DEFINE T == {i \in 0..n : Free(S, n, i, k)}
<1>1. T \in SUBSET Nat /\ T # {}
  BY DEF Fits
<1>2. PICK i \in T : \A j \in T : i <= j
  BY <1>1, Least
<1>3. i \in 0..n /\ Free(S, n, i, k)
  BY <1>2
<1>4. ASSUME NEW j \in 0..(i - 1) PROVE ~Free(S, n, j, k)
  <2>1. j \in 0..n /\ ~(i <= j)
    BY <1>3
  <2> QED
    BY <1>2, <2>1
<1>5. \E x \in 0..n : IsFirst(S, n, k, x)
  BY <1>3, <1>4 DEF IsFirst
<1> QED
  BY <1>5 DEF FirstFit

\* A first run is the only first run
LEMMA FirstFitUnique ==
  ASSUME NEW S, NEW n \in Nat, NEW k \in Nat, NEW i \in 0..n, IsFirst(S, n, k, i)
  PROVE  Fits(S, n, k) /\ FirstFit(S, n, k) = i
<1>1. Fits(S, n, k)
  BY DEF IsFirst, Fits
<1> DEFINE f == FirstFit(S, n, k)
<1>2. f \in 0..n /\ IsFirst(S, n, k, f)
  BY <1>1, FirstFitFound
<1> HIDE DEF f
<1>3. ~(f < i) /\ ~(i < f)
  <2>1. f < i => f \in 0..(i - 1)
    BY <1>2
  <2>2. i < f => i \in 0..(f - 1)
    BY <1>2
  <2> QED
    BY <1>2, <2>1, <2>2 DEF IsFirst
<1>4. f = i
  BY <1>2, <1>3
<1> QED
  BY <1>1, <1>4 DEF f

\* The longest free run exists and is the only one of its length
LEMMA LongestFound ==
  ASSUME NEW S, NEW n \in Nat
  PROVE  /\ LongestFree(S, n) \in 0..n
         /\ IsLongest(S, n, LongestFree(S, n))
         /\ \A l \in 0..n : IsLongest(S, n, l) => l = LongestFree(S, n)
<1> DEFINE T == {l \in 0..n : Fits(S, n, l)}
<1>1. Free(S, n, 0, 0)
  BY DEF Free, Run
<1>2. T \in SUBSET (0..n) /\ T # {}
  <2>1. 0 \in T
    BY <1>1 DEF Fits
  <2> QED
    BY <2>1
<1>3. PICK l \in T : \A k \in T : k <= l
  BY <1>2, Greatest
<1>4. l \in 0..n /\ Fits(S, n, l)
  BY <1>3
<1>5. ASSUME NEW k \in (l + 1)..n PROVE ~Fits(S, n, k)
  <2>1. k \in 0..n /\ ~(k <= l)
    BY <1>4
  <2> QED
    BY <1>3, <2>1
<1>6. \E x \in 0..n : IsLongest(S, n, x)
  BY <1>4, <1>5 DEF IsLongest
<1> DEFINE f == LongestFree(S, n)
<1>7. f \in 0..n /\ IsLongest(S, n, f)
  BY <1>6 DEF LongestFree
<1> HIDE DEF f
<1>8. ASSUME NEW m \in 0..n, IsLongest(S, n, m) PROVE m = f
  <2>1. f < m => m \in (f + 1)..n
    BY <1>7
  <2>2. m < f => f \in (m + 1)..n
    BY <1>7
  <2>3. ~(f < m) /\ ~(m < f)
    BY <1>7, <1>8, <2>1, <2>2 DEF IsLongest
  <2> QED
    BY <1>7, <2>3
<1> QED
  BY <1>7, <1>8 DEF f

\* The number of free pages at the start exists and is unique
LEMMA FreeStartFound ==
  ASSUME NEW S, NEW n \in Nat
  PROVE  /\ FreeStart(S, n) \in 0..n
         /\ IsFreeStart(S, n, FreeStart(S, n))
         /\ \A f \in 0..n : IsFreeStart(S, n, f) => f = FreeStart(S, n)
<1> DEFINE T == {l \in 0..n : Free(S, n, 0, l)}
<1>1. T \in SUBSET (0..n) /\ T # {}
  <2>1. 0 \in T
    BY DEF Free, Run
  <2> QED
    BY <2>1
<1>2. PICK l \in T : \A k \in T : k <= l
  BY <1>1, Greatest
<1>3. l \in 0..n /\ Free(S, n, 0, l)
  BY <1>2
<1>4. l < n => l \in S
  <2> SUFFICES ASSUME l < n, l \notin S PROVE FALSE
    OBVIOUS
  <2>1. Free(S, n, 0, l + 1)
    BY <1>3 DEF Free, Run
  <2>2. l + 1 \in 0..n /\ ~(l + 1 <= l)
    BY <1>3
  <2> QED
    BY <1>2, <2>1, <2>2
<1>5. \E x \in 0..n : IsFreeStart(S, n, x)
  BY <1>3, <1>4 DEF IsFreeStart
<1> DEFINE f == FreeStart(S, n)
<1>6. f \in 0..n /\ IsFreeStart(S, n, f)
  BY <1>5 DEF FreeStart
<1> HIDE DEF f
<1>7. ASSUME NEW m \in 0..n, IsFreeStart(S, n, m) PROVE m = f
  <2>1. ~(f < m)
    BY <1>6, <1>7 DEF IsFreeStart, Free, Run
  <2>2. ~(m < f)
    BY <1>6, <1>7 DEF IsFreeStart, Free, Run
  <2> QED
    BY <1>6, <2>1, <2>2
<1> QED
  BY <1>6, <1>7 DEF f

\* The number of free pages at the end exists and is unique
LEMMA FreeEndFound ==
  ASSUME NEW S, NEW n \in Nat
  PROVE  /\ FreeEnd(S, n) \in 0..n
         /\ IsFreeEnd(S, n, FreeEnd(S, n))
         /\ \A f \in 0..n : IsFreeEnd(S, n, f) => f = FreeEnd(S, n)
<1> DEFINE T == {l \in 0..n : Free(S, n, n - l, l)}
<1>1. T \in SUBSET (0..n) /\ T # {}
  <2>1. 0 \in T
    BY DEF Free, Run
  <2> QED
    BY <2>1
<1>2. PICK l \in T : \A k \in T : k <= l
  BY <1>1, Greatest
<1>3. l \in 0..n /\ Free(S, n, n - l, l)
  BY <1>2
<1>4. l < n => (n - l) - 1 \in S
  <2> SUFFICES ASSUME l < n, (n - l) - 1 \notin S PROVE FALSE
    OBVIOUS
  <2>1. Free(S, n, n - (l + 1), l + 1)
    BY <1>3 DEF Free, Run
  <2>2. l + 1 \in 0..n /\ ~(l + 1 <= l)
    BY <1>3
  <2> QED
    BY <1>2, <2>1, <2>2
<1>5. \E x \in 0..n : IsFreeEnd(S, n, x)
  BY <1>3, <1>4 DEF IsFreeEnd
<1> DEFINE f == FreeEnd(S, n)
<1>6. f \in 0..n /\ IsFreeEnd(S, n, f)
  BY <1>5 DEF FreeEnd
<1> HIDE DEF f
<1>7. ASSUME NEW m \in 0..n, IsFreeEnd(S, n, m) PROVE m = f
  <2>1. ~(f < m)
    BY <1>6, <1>7 DEF IsFreeEnd, Free, Run
  <2>2. ~(m < f)
    BY <1>6, <1>7 DEF IsFreeEnd, Free, Run
  <2> QED
    BY <1>6, <2>1, <2>2
<1> QED
  BY <1>6, <1>7 DEF f

-----------------------------------------------------------------------------
(* Leaves: BuddyLeaf *)

AllLeafPages == 0..(LEAF_PAGES - 1)

\* A range of the leaf is free in the word exactly if it is free among the
\* pages
LEMMA MaskFree ==
  ASSUME NEW i \in Nat, NEW k \in Nat, i + k <= LEAF_PAGES
  PROVE  /\ Run(i, k) \subseteq AllLeafPages
         /\ leaf_set \cap Mask(i, k) = {} <=> Free(LeafPages, LEAF_PAGES, i, k)
<1>1. LEAF_PAGES \in Nat
  BY LeafAssumption
<1>2. Run(i, k) \subseteq AllLeafPages
  BY <1>1 DEF Run, AllLeafPages
<1> QED
  BY <1>2 DEF Mask, LeafPages, Free, AllLeafPages

\* allocate is the allocator's first fit
LEMMA LeafAllocateStep ==
  ASSUME LeafTypeOK, NEW pages \in 0..(LEAF_PAGES + 1), leaf_allocate(pages)
  PROVE  LeafTypeOK' /\ LeafAllocator!Allocate(pages)
<1> DEFINE starts == {s \in 0..(LEAF_PAGES - pages) : leaf_set \cap Mask(s, pages) = {}}
           start == CHOOSE s \in starts : \A t \in starts : s <= t
           A == Allocated(LeafPages, LEAF_PAGES, pages)
<1>1. LEAF_PAGES \in Nat /\ BITS \in Nat /\ LEAF_PAGES <= BITS /\ pages \in Nat
  BY LeafAssumption
<1>2. ASSUME pages \in 1..LEAF_PAGES, NEW i \in Nat
      PROVE  i \in starts <=> Free(LeafPages, LEAF_PAGES, i, pages)
  <2>1. CASE i + pages <= LEAF_PAGES
    <3>1. i \in 0..(LEAF_PAGES - pages)
      BY <1>1, <2>1
    <3>2. leaf_set \cap Mask(i, pages) = {} <=> Free(LeafPages, LEAF_PAGES, i, pages)
      BY <1>1, <2>1, MaskFree
    <3> QED
      BY <3>1, <3>2
  <2>2. CASE ~(i + pages <= LEAF_PAGES)
    <3>1. i \notin 0..(LEAF_PAGES - pages)
      BY <1>1, <2>2
    <3> QED
      BY <2>2, <3>1 DEF Free
  <2> QED
    BY <2>1, <2>2
<1>3. starts \subseteq Nat
  BY <1>1
<1> SUFFICES LeafTypeOK' /\ LeafPages' = A.set /\ leaf_ret' = A.ret
  BY DEF LeafAllocator!Allocate, LeafAllocator!Allocated, LeafAllocator!Fits, LeafAllocator!Free,
         LeafAllocator!Run, LeafAllocator!FirstFit, LeafAllocator!IsFirst, LeafAllocator!None,
         Allocated, Fits, Free, Run, FirstFit, IsFirst, None
<1>4. CASE ~(pages \in 1..LEAF_PAGES) \/ starts = {}
  <2>1. pages = 0 \/ pages > LEAF_PAGES \/ starts = {}
    BY <1>1, <1>4
  <2>2. leaf_ret' = None /\ leaf_set' = leaf_set
    BY <2>1 DEF leaf_allocate
  <2>3. ~(pages \in 1..LEAF_PAGES /\ Fits(LeafPages, LEAF_PAGES, pages))
    <3>1. \A i \in 0..LEAF_PAGES : i \in Nat
      BY <1>1
    <3> QED
      BY <1>2, <1>4, <3>1 DEF Fits
  <2>4. A.set = LeafPages /\ A.ret = None
    BY <2>3 DEF Allocated
  <2> QED
    BY <2>2, <2>4 DEF LeafTypeOK, LeafPages
<1>5. CASE pages \in 1..LEAF_PAGES /\ starts # {}
  <2>1. pages # 0 /\ ~(pages > LEAF_PAGES)
    BY <1>1, <1>5
  <2>2. leaf_ret' = {start} /\ leaf_set' = leaf_set \cup Mask(start, pages)
    BY <1>5, <2>1 DEF leaf_allocate
  <2>3. \E s \in starts : \A t \in starts : s <= t
    BY <1>3, <1>5, Least
  <2>4. start \in starts /\ \A t \in starts : start <= t
    BY <2>3
  <2>5. start \in 0..(LEAF_PAGES - pages)
    BY <2>4
  <2> HIDE DEF start
  <2>6. start \in Nat /\ start \in 0..LEAF_PAGES /\ start \in AllLeafPages /\ start + pages <= LEAF_PAGES
    BY <1>1, <1>5, <2>5 DEF AllLeafPages
  <2>7. IsFirst(LeafPages, LEAF_PAGES, pages, start)
    <3>1. Free(LeafPages, LEAF_PAGES, start, pages)
      BY <1>2, <1>5, <2>4, <2>6
    <3>2. ASSUME NEW j \in 0..(start - 1) PROVE ~Free(LeafPages, LEAF_PAGES, j, pages)
      <4>1. j \in Nat /\ ~(start <= j)
        BY <2>6
      <4> QED
        BY <1>2, <1>5, <2>4, <4>1
    <3> QED
      BY <3>1, <3>2 DEF IsFirst
  <2>8. Fits(LeafPages, LEAF_PAGES, pages) /\ FirstFit(LeafPages, LEAF_PAGES, pages) = start
    BY <1>1, <2>6, <2>7, FirstFitUnique
  <2>9. A.set = LeafPages \cup Run(start, pages) /\ A.ret = {start}
    BY <1>5, <2>8 DEF Allocated
  <2>10. Run(start, pages) \subseteq AllLeafPages
    BY <1>1, <2>6, MaskFree
  <2>11. LeafPages' = LeafPages \cup Run(start, pages)
    BY <2>2, <2>10 DEF LeafPages, Mask, AllLeafPages
  <2>12. AllLeafPages \subseteq 0..(BITS - 1)
    BY <1>1 DEF AllLeafPages
  <2>13. LeafTypeOK'
    BY <2>2, <2>6, <2>10, <2>12 DEF LeafTypeOK, Mask, AllLeafPages
  <2> QED
    BY <2>2, <2>9, <2>11, <2>13
<1> QED
  BY <1>4, <1>5

\* allocate_fixed takes all of the range or nothing, with or without the
\* shortcut
LEMMA LeafFixedStep ==
  ASSUME LeafTypeOK, NEW idx \in 0..LEAF_PAGES, NEW pages \in 0..(LEAF_PAGES + 1),
         NEW replace \in BOOLEAN, leaf_allocate_fixed(idx, pages, replace)
  PROVE  LeafTypeOK' /\ LeafAllocator!AllocateFixed(idx, pages, replace)
<1> DEFINE A == AllocatedFixed(LeafPages, LEAF_PAGES, idx, pages, replace)
<1>1. LEAF_PAGES \in Nat /\ BITS \in Nat /\ LEAF_PAGES <= BITS /\ pages \in Nat /\ idx \in Nat
  BY LeafAssumption
<1>2. OutOfRange(idx, pages) <=> ~(pages > 0 /\ idx + pages <= LEAF_PAGES)
  BY <1>1 DEF OutOfRange
<1> SUFFICES LeafTypeOK' /\ LeafPages' = A.set /\ leaf_ret' = A.ret
  BY DEF LeafAllocator!AllocateFixed, LeafAllocator!AllocatedFixed, LeafAllocator!Run, LeafAllocator!None,
         AllocatedFixed, Run, None
<1>3. CASE OutOfRange(idx, pages)
  <2>1. leaf_ret' = None /\ leaf_set' = leaf_set
    BY <1>3 DEF leaf_allocate_fixed
  <2>2. A.set = LeafPages /\ A.ret = None
    BY <1>2, <1>3 DEF AllocatedFixed
  <2> QED
    BY <2>1, <2>2 DEF LeafTypeOK, LeafPages
<1>4. CASE ~OutOfRange(idx, pages)
  <2>1. pages > 0 /\ idx + pages <= LEAF_PAGES
    BY <1>2, <1>4
  <2>2. Run(idx, pages) \subseteq AllLeafPages /\ AllLeafPages \subseteq 0..(BITS - 1)
    BY <1>1, <2>1, MaskFree DEF AllLeafPages
  <2>3. leaf_set \cap Mask(idx, pages) = {} <=> Run(idx, pages) \cap LeafPages = {}
    BY <1>1, <2>1, MaskFree DEF Free
  <2>4. CASE ~replace /\ leaf_set \cap Mask(idx, pages) # {}
    <3>1. leaf_ret' = None /\ leaf_set' = leaf_set
      BY <2>4 DEF leaf_allocate_fixed
    <3>2. A.set = LeafPages /\ A.ret = None
      BY <2>3, <2>4 DEF AllocatedFixed
    <3> QED
      BY <3>1, <3>2 DEF LeafTypeOK, LeafPages
  <2>5. CASE ~(~replace /\ leaf_set \cap Mask(idx, pages) # {})
    <3>1. /\ leaf_ret' = {idx}
          /\ leaf_set' = IF idx = 0 /\ pages = LEAF_PAGES /\ replace
                    THEN 0..(BITS - 1) ELSE leaf_set \cup Mask(idx, pages)
      BY <1>4, <2>5 DEF leaf_allocate_fixed
    <3>2. A.set = LeafPages \cup Run(idx, pages) /\ A.ret = {idx}
      BY <2>1, <2>3, <2>5 DEF AllocatedFixed
    <3>3. idx \in 0..(LEAF_PAGES - 1)
      BY <1>1, <2>1
    <3>4. leaf_set' \subseteq 0..(BITS - 1)
      BY <2>2, <3>1 DEF LeafTypeOK, Mask
    <3>5. LeafPages' = LeafPages \cup Run(idx, pages)
      <4>1. CASE idx = 0 /\ pages = LEAF_PAGES /\ replace
        <5>1. Run(idx, pages) = AllLeafPages
          BY <1>1, <4>1 DEF Run, AllLeafPages
        <5>2. leaf_set' = 0..(BITS - 1)
          BY <3>1, <4>1
        <5> QED
          BY <2>2, <5>1, <5>2 DEF LeafPages, AllLeafPages
      <4>2. CASE ~(idx = 0 /\ pages = LEAF_PAGES /\ replace)
        <5>1. leaf_set' = leaf_set \cup Run(idx, pages)
          BY <3>1, <4>2 DEF Mask
        <5> QED
          BY <2>2, <5>1 DEF LeafPages, AllLeafPages
      <4> QED
        BY <4>1, <4>2
    <3> QED
      BY <3>1, <3>2, <3>3, <3>4, <3>5 DEF LeafTypeOK
  <2> QED
    BY <2>4, <2>5
<1> QED
  BY <1>3, <1>4

\* deallocate frees the range, with or without the shortcut
LEMMA LeafDeallocateStep ==
  ASSUME LeafTypeOK, NEW idx \in 0..LEAF_PAGES, NEW pages \in 0..(LEAF_PAGES + 1),
         leaf_deallocate(idx, pages)
  PROVE  LeafTypeOK' /\ LeafAllocator!Deallocate(idx, pages)
<1>1. /\ LEAF_PAGES \in Nat /\ BITS \in Nat /\ pages \in Nat /\ idx \in Nat
      /\ idx + pages <= LEAF_PAGES /\ leaf_ret' = None
  BY LeafAssumption DEF leaf_deallocate
<1>2. OutOfRange(idx, pages) <=> pages = 0
  BY <1>1 DEF OutOfRange
<1>3. leaf_set' = IF pages = 0 THEN leaf_set
             ELSE IF idx = 0 /\ pages = LEAF_PAGES THEN {}
             ELSE leaf_set \ Run(idx, pages)
  BY <1>2 DEF leaf_deallocate, Mask
<1>4. LeafPages' = Deallocated(LeafPages, LEAF_PAGES, idx, pages)
  <2>1. CASE pages = 0
    BY <1>3, <2>1 DEF LeafPages, Deallocated
  <2>2. CASE pages # 0
    <3>1. Deallocated(LeafPages, LEAF_PAGES, idx, pages) = LeafPages \ Run(idx, pages)
      BY <1>1, <2>2 DEF Deallocated
    <3>2. idx = 0 /\ pages = LEAF_PAGES => Run(idx, pages) = 0..(LEAF_PAGES - 1)
      BY <1>1 DEF Run
    <3> QED
      BY <1>3, <2>2, <3>1, <3>2 DEF LeafPages
  <2> QED
    BY <2>1, <2>2
<1>5. LeafTypeOK'
  BY <1>1, <1>3 DEF LeafTypeOK
<1> QED
  BY <1>1, <1>4, <1>5
     DEF LeafAllocator!Deallocate, LeafAllocator!Deallocated, LeafAllocator!Run, LeafAllocator!None,
         Deallocated, Run, None

-----------------------------------------------------------------------------
(* The queries, in a leaf whose word has no bits but its pages *)

\* The run of zeros above a shift is the free run that begins there
LEMMA FreeFromIs ==
  ASSUME LeafTypeOK, LEAF_PAGES = BITS, NEW shift \in 0..(LEAF_PAGES - 1)
  PROVE  /\ FreeFrom(shift) \in 0..(LEAF_PAGES - shift)
         /\ Free(leaf_set, LEAF_PAGES, shift, FreeFrom(shift))
         /\ FreeFrom(shift) < LEAF_PAGES - shift => shift + FreeFrom(shift) \in leaf_set
<1> DEFINE above == {x \in leaf_set : x >= shift}
           word == ShiftRight(leaf_set, shift)
           z == TrailingZeros(word)
<1>1. LEAF_PAGES \in Nat /\ shift \in Nat /\ shift < LEAF_PAGES
  BY LeafAssumption
<1>2. \A b \in leaf_set : b \in Nat /\ b < LEAF_PAGES
  BY <1>1 DEF LeafTypeOK
<1>3. \A b : b \in word <=> \E x \in leaf_set : x >= shift /\ b = x - shift
  BY DEF ShiftRight
<1>4. CASE above = {}
  <2>1. word = {}
    BY <1>3, <1>4
  <2>2. z = LEAF_PAGES
    BY <2>1 DEF TrailingZeros
  <2> HIDE DEF z, word
  <2>3. FreeFrom(shift) = LEAF_PAGES - shift
    BY <1>1, <2>2 DEF FreeFrom, z, word
  <2>4. Free(leaf_set, LEAF_PAGES, shift, LEAF_PAGES - shift)
    BY <1>1, <1>4 DEF Free, Run
  <2> QED
    BY <1>1, <2>3, <2>4
<1>5. CASE above # {}
  <2>1. word \in SUBSET Nat /\ word # {}
    BY <1>1, <1>2, <1>3, <1>5
  <2>2. \E b \in word : \A c \in word : b <= c
    BY <2>1, Least
  <2>3. z \in word /\ \A c \in word : z <= c
    BY <2>1, <2>2 DEF TrailingZeros
  <2> HIDE DEF z
  <2>4. PICK x \in leaf_set : x >= shift /\ z = x - shift
    BY <1>3, <2>3
  <2>5. z \in Nat /\ z < LEAF_PAGES - shift /\ shift + z = x
    BY <1>1, <1>2, <2>4
  <2>6. FreeFrom(shift) = z
    BY <2>5 DEF FreeFrom, z
  <2>7. \A y \in leaf_set : y >= shift => y - shift \in word
    BY <1>3
  <2>8. \A y \in leaf_set : y >= shift => z <= y - shift
    BY <2>3, <2>7
  <2>9. Free(leaf_set, LEAF_PAGES, shift, z)
    BY <1>1, <1>2, <2>5, <2>8 DEF Free, Run
  <2> QED
    BY <1>1, <2>4, <2>5, <2>6, <2>9
<1> QED
  BY <1>4, <1>5

\* The largest of these runs is the longest run
LEMMA LeafLongestIs ==
  ASSUME LeafTypeOK, LEAF_PAGES = BITS
  PROVE  leaf_longest_free_sequence = LongestFree(leaf_set, LEAF_PAGES)
<1>1. LEAF_PAGES \in Nat /\ LEAF_PAGES > 0
  BY LeafAssumption
<1>2. \A l \in 0..LEAF_PAGES : IsLongest(leaf_set, LEAF_PAGES, l) => l = LongestFree(leaf_set, LEAF_PAGES)
  BY <1>1, LongestFound
<1>3. CASE leaf_set = {}
  <2>1. Free(leaf_set, LEAF_PAGES, 0, LEAF_PAGES) /\ 0 \in 0..LEAF_PAGES /\ LEAF_PAGES \in 0..LEAF_PAGES
    BY <1>1, <1>3 DEF Free
  <2>2. (LEAF_PAGES + 1)..LEAF_PAGES = {}
    BY <1>1
  <2>3. IsLongest(leaf_set, LEAF_PAGES, LEAF_PAGES)
    BY <2>1, <2>2 DEF IsLongest, Fits
  <2> QED
    BY <1>2, <1>3, <2>1, <2>3 DEF leaf_longest_free_sequence
<1>4. CASE leaf_set # {}
  <2> DEFINE counts == {FreeFrom(shift) : shift \in 0..(LEAF_PAGES - 1)}
             m == CHOOSE c \in counts : \A d \in counts : d <= c
  <2>1. \A s \in 0..(LEAF_PAGES - 1) :
          /\ FreeFrom(s) \in 0..(LEAF_PAGES - s)
          /\ Free(leaf_set, LEAF_PAGES, s, FreeFrom(s))
          /\ FreeFrom(s) < LEAF_PAGES - s => s + FreeFrom(s) \in leaf_set
    BY FreeFromIs
  <2>2. counts \in SUBSET (0..LEAF_PAGES) /\ counts # {}
    <3>1. \A s \in 0..(LEAF_PAGES - 1) : FreeFrom(s) \in 0..LEAF_PAGES
      BY <1>1, <2>1
    <3>2. 0 \in 0..(LEAF_PAGES - 1)
      BY <1>1
    <3> QED
      BY <3>1, <3>2
  <2>3. \E c \in counts : \A d \in counts : d <= c
    BY <1>1, <2>2, Greatest
  <2>4. m \in counts /\ \A d \in counts : d <= m
    BY <2>3
  <2>5. leaf_longest_free_sequence = m
    BY <1>4 DEF leaf_longest_free_sequence
  <2> HIDE DEF m
  <2>6. PICK s \in 0..(LEAF_PAGES - 1) : m = FreeFrom(s)
    BY <2>4
  <2>7. m \in 0..LEAF_PAGES /\ Fits(leaf_set, LEAF_PAGES, m)
    <3>1. s \in 0..LEAF_PAGES /\ Free(leaf_set, LEAF_PAGES, s, m)
      BY <1>1, <2>1, <2>6
    <3> QED
      BY <2>2, <2>4, <3>1 DEF Fits
  <2>8. \A t \in 0..(LEAF_PAGES - 1) : FreeFrom(t) <= m
    BY <2>4
  <2> HIDE DEF counts
  <2>9. ASSUME NEW k \in (m + 1)..LEAF_PAGES, NEW i \in 0..LEAF_PAGES, Free(leaf_set, LEAF_PAGES, i, k)
        PROVE  FALSE
    <3>1. k \in Nat /\ k > m /\ m \in Nat /\ i \in Nat /\ i + k <= LEAF_PAGES
      BY <1>1, <2>7, <2>9 DEF Free
    <3>2. i \in 0..(LEAF_PAGES - 1)
      BY <1>1, <3>1
    <3> DEFINE f == FreeFrom(i)
    <3>3. f \in Nat /\ f <= m /\ (f < LEAF_PAGES - i => i + f \in leaf_set)
      BY <1>1, <2>1, <2>8, <3>2
    <3> HIDE DEF f
    <3>4. f < LEAF_PAGES - i /\ i + f \in Run(i, k)
      BY <1>1, <3>1, <3>3 DEF Run
    <3> QED
      BY <2>9, <3>3, <3>4 DEF Free
  <2>10. IsLongest(leaf_set, LEAF_PAGES, m)
    BY <2>7, <2>9 DEF IsLongest, Fits
  <2> QED
    BY <1>2, <2>5, <2>7, <2>10
<1> QED
  BY <1>3, <1>4

\* The zeros at the two ends of the word are the free pages at the two ends
LEMMA LeafEndsAre ==
  ASSUME LeafTypeOK, LEAF_PAGES = BITS
  PROVE  /\ leaf_count_free_start = FreeStart(leaf_set, LEAF_PAGES)
         /\ leaf_count_free_end = FreeEnd(leaf_set, LEAF_PAGES)
<1>1. LEAF_PAGES \in Nat /\ LEAF_PAGES \in 0..LEAF_PAGES /\ BITS - LEAF_PAGES = 0 /\ LEAF_PAGES - LEAF_PAGES = 0
  BY LeafAssumption
<1>2. \A b \in leaf_set : b \in Nat /\ b < LEAF_PAGES
  BY <1>1 DEF LeafTypeOK
<1>3. /\ \A f \in 0..LEAF_PAGES : IsFreeStart(leaf_set, LEAF_PAGES, f) => f = FreeStart(leaf_set, LEAF_PAGES)
      /\ \A f \in 0..LEAF_PAGES : IsFreeEnd(leaf_set, LEAF_PAGES, f) => f = FreeEnd(leaf_set, LEAF_PAGES)
  BY <1>1, FreeStartFound, FreeEndFound
<1>4. CASE leaf_set = {}
  <2>1. IsFreeStart(leaf_set, LEAF_PAGES, LEAF_PAGES) /\ IsFreeEnd(leaf_set, LEAF_PAGES, LEAF_PAGES)
    BY <1>1, <1>4 DEF IsFreeStart, IsFreeEnd, Free
  <2>2. TrailingZeros(leaf_set) = LEAF_PAGES /\ LeadingZeros(leaf_set) = LEAF_PAGES
    BY <1>4 DEF TrailingZeros, LeadingZeros
  <2>3. leaf_count_free_start = LEAF_PAGES /\ leaf_count_free_end = LEAF_PAGES
    BY <1>1, <2>2 DEF leaf_count_free_start, leaf_count_free_end
  <2> QED
    BY <1>1, <1>3, <2>1, <2>3
<1>5. CASE leaf_set # {}
  <2> DEFINE low == CHOOSE b \in leaf_set : \A c \in leaf_set : b <= c
             high == CHOOSE b \in leaf_set : \A c \in leaf_set : c <= b
             e == (LEAF_PAGES - 1) - high
  <2>1. low \in leaf_set /\ \A c \in leaf_set : low <= c
    <3>1. leaf_set \in SUBSET Nat
      BY <1>2
    <3>2. \E b \in leaf_set : \A c \in leaf_set : b <= c
      BY <1>5, <3>1, Least
    <3> QED
      BY <3>2
  <2>2. high \in leaf_set /\ \A c \in leaf_set : c <= high
    <3>1. leaf_set \in SUBSET (0..LEAF_PAGES)
      BY <1>1, <1>2
    <3>2. \E b \in leaf_set : \A c \in leaf_set : c <= b
      BY <1>1, <1>5, <3>1, Greatest
    <3> QED
      BY <3>2
  <2>3. TrailingZeros(leaf_set) = low /\ LeadingZeros(leaf_set) = e
    BY <1>5 DEF TrailingZeros, LeadingZeros
  <2> HIDE DEF low, high
  <2>4. low \in Nat /\ low < LEAF_PAGES /\ high \in Nat /\ high < LEAF_PAGES
    BY <1>2, <2>1, <2>2
  <2>5. /\ low \in 0..LEAF_PAGES /\ e \in 0..LEAF_PAGES /\ e \in Nat
        /\ (LEAF_PAGES - e) - 1 = high /\ LEAF_PAGES - e = high + 1
    BY <1>1, <2>4
  <2> HIDE DEF e
  <2>6. leaf_count_free_start = low
    BY <1>1, <2>3, <2>4 DEF leaf_count_free_start
  <2>7. leaf_count_free_end = e
    BY <1>1, <2>3, <2>5 DEF leaf_count_free_end
  <2>8. IsFreeStart(leaf_set, LEAF_PAGES, low)
    BY <1>1, <1>2, <2>1, <2>4 DEF IsFreeStart, Free, Run
  <2>9. IsFreeEnd(leaf_set, LEAF_PAGES, e)
    BY <1>1, <1>2, <2>2, <2>4, <2>5 DEF IsFreeEnd, Free, Run
  <2> QED
    BY <1>3, <2>5, <2>6, <2>7, <2>8, <2>9
<1> QED
  BY <1>4, <1>5

-----------------------------------------------------------------------------
(* The theorems *)

\* Every operation keeps the type and is an operation of the allocator
LEMMA LeafStepRefines ==
  ASSUME LeafTypeOK, [LeafNext]_leaf_vars
  PROVE  LeafTypeOK' /\ [LeafAllocator!Next]_<<LeafPages, leaf_ret>>
<1>1. CASE \E pages \in 0..(LEAF_PAGES + 1) : leaf_allocate(pages)
  BY <1>1, LeafAllocateStep DEF LeafAllocator!Next
<1>2. CASE \E idx \in 0..LEAF_PAGES, pages \in 0..(LEAF_PAGES + 1) :
             \E replace \in BOOLEAN : leaf_allocate_fixed(idx, pages, replace)
  BY <1>2, LeafFixedStep DEF LeafAllocator!Next
<1>3. CASE \E idx \in 0..LEAF_PAGES, pages \in 0..(LEAF_PAGES + 1) : leaf_deallocate(idx, pages)
  BY <1>3, LeafDeallocateStep DEF LeafAllocator!Next
<1>4. CASE UNCHANGED leaf_vars
  BY <1>4 DEF leaf_vars, LeafTypeOK, LeafPages
<1> QED
  BY <1>1, <1>2, <1>3, <1>4 DEF LeafNext

\* A leaf's word keeps its width and its results are pages of the leaf
THEOREM LeafTypeCorrect == LeafSpec => []LeafTypeOK
<1>1. LeafInit => LeafTypeOK
  BY DEF LeafInit, LeafTypeOK
<1>2. LeafTypeOK /\ [LeafNext]_leaf_vars => LeafTypeOK'
  BY LeafStepRefines
<1> QED
  BY <1>1, <1>2, PTL DEF LeafSpec

\* Each call of the leaf is the same call of the allocator
LEMMA LeafCallRefines ==
  ASSUME LeafTypeOK
  PROVE  LeafCallsMatch
<1>1. \A pages \in 0..(LEAF_PAGES + 1) : leaf_allocate(pages) => LeafAllocator!Allocate(pages)
  BY LeafAllocateStep
<1>2. \A idx \in 0..LEAF_PAGES, pages \in 0..(LEAF_PAGES + 1) : \A replace \in BOOLEAN :
        leaf_allocate_fixed(idx, pages, replace) => LeafAllocator!AllocateFixed(idx, pages, replace)
  BY LeafFixedStep
<1>3. \A idx \in 0..LEAF_PAGES, pages \in 0..(LEAF_PAGES + 1) :
        leaf_deallocate(idx, pages) => LeafAllocator!Deallocate(idx, pages)
  BY LeafDeallocateStep
<1> QED
  BY <1>1, <1>2, <1>3 DEF LeafCallsMatch

\* A leaf, its masks and shortcuts, is the allocator of its pages, also when
\* the word has more bits than the leaf has pages
THEOREM LeafIsAllocator == LeafSpec => LeafImplementsAllocator
<1>1. LeafInit => LeafAllocator!Init
  BY DEF LeafInit, LeafAllocator!Init, LeafPages, None, LeafAllocator!None
<1>2. LeafTypeOK /\ [LeafNext]_leaf_vars => [LeafAllocator!Next]_<<LeafPages, leaf_ret>>
  BY LeafStepRefines
<1>3. LeafTypeOK /\ [LeafNext]_leaf_vars => [LeafCallsMatch]_leaf_vars
  BY LeafCallRefines
<1> QED
  BY <1>1, <1>2, <1>3, LeafTypeCorrect, PTL DEF LeafSpec, LeafImplementsAllocator, LeafAllocator!Spec

\* A leaf that fills its word, as every leaf under a branch does, reports
\* exactly the runs a branch relies on
THEOREM LeafReportsExact ==
  LEAF_PAGES = BITS => (LeafSpec => []LeafQueriesExact)
<1> SUFFICES ASSUME LEAF_PAGES = BITS PROVE LeafSpec => []LeafQueriesExact
  OBVIOUS
<1>1. ASSUME LeafTypeOK PROVE LeafQueriesExact
  <2>1. LeafPages = leaf_set
    BY <1>1 DEF LeafTypeOK, LeafPages
  <2> QED
    BY <1>1, <2>1, LeafLongestIs, LeafEndsAre DEF LeafQueriesExact
<1> QED
  BY <1>1, LeafTypeCorrect, PTL

-----------------------------------------------------------------------------
(* Branches: BuddyBranch *)

BuddyPages == 0..(B_PAGES - 1)

\* Where a run of the branch lies decides which buddy it must be free in
LEMMA SeamFree ==
  ASSUME NEW L \in SUBSET BuddyPages, NEW R \in SUBSET BuddyPages,
         NEW i \in Nat, NEW k \in Nat
  PROVE  /\ i + k <= B_PAGES =>
              (Free(Joined(L, R), PAGES, i, k) <=> Free(L, B_PAGES, i, k))
         /\ i >= B_PAGES =>
              (Free(Joined(L, R), PAGES, i, k) <=> Free(R, B_PAGES, i - B_PAGES, k))
         /\ i < B_PAGES /\ B_PAGES < i + k =>
              (Free(Joined(L, R), PAGES, i, k)
                 <=> /\ Free(L, B_PAGES, i, B_PAGES - i)
                     /\ Free(R, B_PAGES, 0, (i + k) - B_PAGES))
<1> DEFINE J == Joined(L, R)
<1>0. B_PAGES \in Nat /\ PAGES = B_PAGES + B_PAGES /\ B_PAGES > 0
  BY BPagesAssumption DEF PAGES
<1>1. \A p \in Int : p < B_PAGES => (p \in J <=> p \in L)
  BY <1>0 DEF Joined, Shifted, BuddyPages
<1>2. \A p \in Int : p >= B_PAGES => (p \in J <=> p - B_PAGES \in R)
  BY <1>0 DEF Joined, Shifted, BuddyPages
<1> HIDE DEF J
<1> DEFINE Clear(S, a, b) == \A p \in Int : a <= p /\ p < b => p \notin S
<1>3. ASSUME NEW S, NEW n \in Nat, NEW a \in Int, NEW b \in Int
      PROVE  Free(S, n, a, b) <=> a + b <= n /\ Clear(S, a, a + b)
  BY DEF Free, Run
<1>4. ASSUME i + k <= B_PAGES PROVE Clear(J, i, i + k) <=> Clear(L, i, i + k)
  BY <1>0, <1>1, <1>4
<1>5. ASSUME i >= B_PAGES
      PROVE  Clear(J, i, i + k) <=> Clear(R, i - B_PAGES, (i - B_PAGES) + k)
  <2>1. ASSUME Clear(J, i, i + k), NEW q \in Int, i - B_PAGES <= q, q < (i - B_PAGES) + k
        PROVE  q \notin R
    <3>1. q + B_PAGES \in Int /\ q + B_PAGES >= B_PAGES /\ (q + B_PAGES) - B_PAGES = q
          /\ i <= q + B_PAGES /\ q + B_PAGES < i + k
      BY <1>0, <1>5, <2>1
    <3> QED
      BY <1>2, <2>1, <3>1
  <2>2. ASSUME Clear(R, i - B_PAGES, (i - B_PAGES) + k), NEW p \in Int, i <= p, p < i + k
        PROVE  p \notin J
    <3>1. p - B_PAGES \in Int /\ p >= B_PAGES
          /\ i - B_PAGES <= p - B_PAGES /\ p - B_PAGES < (i - B_PAGES) + k
      BY <1>0, <1>5, <2>2
    <3> QED
      BY <1>2, <2>2, <3>1
  <2> QED
    BY <2>1, <2>2
<1>6. ASSUME i < B_PAGES, B_PAGES < i + k
      PROVE  Clear(J, i, i + k) <=> Clear(L, i, B_PAGES) /\ Clear(R, 0, (i + k) - B_PAGES)
  <2>1. ASSUME Clear(J, i, i + k)
        PROVE  Clear(L, i, B_PAGES) /\ Clear(R, 0, (i + k) - B_PAGES)
    <3>1. Clear(L, i, B_PAGES)
      BY <1>0, <1>1, <1>6, <2>1
    <3>2. ASSUME NEW q \in Int, 0 <= q, q < (i + k) - B_PAGES PROVE q \notin R
      <4>1. q + B_PAGES \in Int /\ q + B_PAGES >= B_PAGES /\ (q + B_PAGES) - B_PAGES = q
            /\ i <= q + B_PAGES /\ q + B_PAGES < i + k
        BY <1>0, <1>6, <3>2
      <4> QED
        BY <1>2, <2>1, <4>1
    <3> QED
      BY <3>1, <3>2
  <2>2. ASSUME Clear(L, i, B_PAGES), Clear(R, 0, (i + k) - B_PAGES),
               NEW p \in Int, i <= p, p < i + k
        PROVE  p \notin J
    <3>1. CASE p < B_PAGES
      BY <1>1, <2>2, <3>1
    <3>2. CASE p >= B_PAGES
      <4>1. p - B_PAGES \in Int /\ 0 <= p - B_PAGES /\ p - B_PAGES < (i + k) - B_PAGES
        BY <1>0, <2>2, <3>2
      <4> QED
        BY <1>2, <2>2, <3>2, <4>1
    <3> QED
      BY <1>0, <3>1, <3>2
  <2> QED
    BY <2>1, <2>2
<1> HIDE DEF Clear
<1>7. Free(J, PAGES, i, k) <=> i + k <= PAGES /\ Clear(J, i, i + k)
  BY <1>0, <1>3
<1>8. ASSUME i + k <= B_PAGES PROVE Free(J, PAGES, i, k) <=> Free(L, B_PAGES, i, k)
  <2>1. Free(L, B_PAGES, i, k) <=> Clear(L, i, i + k)
    BY <1>0, <1>3, <1>8
  <2>2. i + k <= PAGES
    BY <1>0, <1>8
  <2> QED
    BY <1>4, <1>7, <1>8, <2>1, <2>2
<1>9. ASSUME i >= B_PAGES PROVE Free(J, PAGES, i, k) <=> Free(R, B_PAGES, i - B_PAGES, k)
  <2>1. Free(R, B_PAGES, i - B_PAGES, k)
          <=> (i - B_PAGES) + k <= B_PAGES /\ Clear(R, i - B_PAGES, (i - B_PAGES) + k)
    BY <1>0, <1>3
  <2>2. (i - B_PAGES) + k <= B_PAGES <=> i + k <= PAGES
    BY <1>0
  <2> QED
    BY <1>5, <1>7, <1>9, <2>1, <2>2
<1>10. ASSUME i < B_PAGES, B_PAGES < i + k
       PROVE  Free(J, PAGES, i, k) <=> /\ Free(L, B_PAGES, i, B_PAGES - i)
                                       /\ Free(R, B_PAGES, 0, (i + k) - B_PAGES)
  <2>1. i + (B_PAGES - i) = B_PAGES /\ 0 + ((i + k) - B_PAGES) = (i + k) - B_PAGES
    BY <1>0
  <2>2. Free(L, B_PAGES, i, B_PAGES - i) <=> Clear(L, i, B_PAGES)
    <3>1. Free(L, B_PAGES, i, B_PAGES - i)
            <=> i + (B_PAGES - i) <= B_PAGES /\ Clear(L, i, i + (B_PAGES - i))
      BY <1>0, <1>3
    <3> QED
      BY <1>0, <2>1, <3>1
  <2>3. Free(R, B_PAGES, 0, (i + k) - B_PAGES)
          <=> (i + k) - B_PAGES <= B_PAGES /\ Clear(R, 0, (i + k) - B_PAGES)
    <3>1. Free(R, B_PAGES, 0, (i + k) - B_PAGES)
            <=> 0 + ((i + k) - B_PAGES) <= B_PAGES
                /\ Clear(R, 0, 0 + ((i + k) - B_PAGES))
      BY <1>0, <1>3
    <3> QED
      BY <2>1, <3>1
  <2>4. (i + k) - B_PAGES <= B_PAGES <=> i + k <= PAGES
    BY <1>0
  <2> QED
    BY <1>6, <1>7, <1>10, <2>2, <2>3, <2>4
<1> QED
  BY <1>8, <1>9, <1>10 DEF J

-----------------------------------------------------------------------------
(* What the counts of one buddy say about its runs *)

\* A buddy has room for k pages exactly if its longest run has
LEMMA LongestDecides ==
  ASSUME NEW S, NEW k \in Nat
  PROVE  Fits(S, B_PAGES, k) <=> k <= LongestFree(S, B_PAGES)
<1> DEFINE l == LongestFree(S, B_PAGES)
<1>1. B_PAGES \in Nat
  BY BPagesAssumption
<1>2. l \in 0..B_PAGES /\ IsLongest(S, B_PAGES, l)
  BY <1>1, LongestFound
<1> HIDE DEF l
<1>3. ASSUME k <= l PROVE Fits(S, B_PAGES, k)
  <2>1. PICK i \in 0..B_PAGES : Free(S, B_PAGES, i, l)
    BY <1>2 DEF IsLongest, Fits
  <2>2. i \in Nat /\ l \in Nat
    BY <1>1, <1>2, <2>1
  <2>3. Free(S, B_PAGES, i, k)
    BY <1>1, <1>3, <2>1, <2>2, FreeShorter
  <2> QED
    BY <2>3 DEF Fits
<1>4. ASSUME Fits(S, B_PAGES, k), ~(k <= l) PROVE FALSE
  <2>1. k <= B_PAGES
    BY <1>1, <1>4 DEF Fits, Free
  <2>2. k \in (l + 1)..B_PAGES
    BY <1>1, <1>2, <1>4, <2>1
  <2> QED
    BY <1>2, <1>4, <2>2 DEF IsLongest
<1> QED
  BY <1>3, <1>4 DEF l

\* A run that reaches the end of a buddy is no longer than its free end
LEMMA EndBounds ==
  ASSUME NEW S, NEW j \in 0..(B_PAGES - 1), Free(S, B_PAGES, j, B_PAGES - j)
  PROVE  B_PAGES - j <= FreeEnd(S, B_PAGES)
<1> DEFINE f == FreeEnd(S, B_PAGES)
<1>1. B_PAGES \in Nat
  BY BPagesAssumption
<1>2. f \in 0..B_PAGES /\ IsFreeEnd(S, B_PAGES, f)
  BY <1>1, FreeEndFound
<1> HIDE DEF f
<1>3. ASSUME f < B_PAGES - j PROVE FALSE
  <2>1. f < B_PAGES /\ (B_PAGES - f) - 1 \in j..(B_PAGES - 1)
    BY <1>1, <1>2, <1>3
  <2>2. (B_PAGES - f) - 1 \in S
    BY <1>2, <2>1 DEF IsFreeEnd
  <2>3. Run(j, B_PAGES - j) = j..(B_PAGES - 1)
    BY <1>1 DEF Run
  <2> QED
    BY <2>1, <2>2, <2>3 DEF Free
<1> QED
  BY <1>1, <1>2, <1>3 DEF f

\* A run from the start of a buddy is no longer than its free start
LEMMA StartBounds ==
  ASSUME NEW S, NEW k \in Nat, Free(S, B_PAGES, 0, k)
  PROVE  k <= FreeStart(S, B_PAGES)
<1> DEFINE f == FreeStart(S, B_PAGES)
<1>1. B_PAGES \in Nat
  BY BPagesAssumption
<1>2. f \in 0..B_PAGES /\ IsFreeStart(S, B_PAGES, f)
  BY <1>1, FreeStartFound
<1> HIDE DEF f
<1>3. ASSUME f < k PROVE FALSE
  <2>1. k <= B_PAGES /\ Run(0, k) \cap S = {}
    BY DEF Free
  <2>2. f < B_PAGES /\ f \in Run(0, k)
    BY <1>1, <1>2, <1>3, <2>1 DEF Run
  <2> QED
    BY <1>2, <2>1, <2>2 DEF IsFreeStart
<1> QED
  BY <1>1, <1>2, <1>3 DEF f

\* The free end is itself a free run
LEMMA EndFits ==
  ASSUME NEW S
  PROVE  /\ FreeEnd(S, B_PAGES) \in 0..B_PAGES
         /\ Free(S, B_PAGES, B_PAGES - FreeEnd(S, B_PAGES), FreeEnd(S, B_PAGES))
         /\ FreeEnd(S, B_PAGES) <= LongestFree(S, B_PAGES)
<1> DEFINE f == FreeEnd(S, B_PAGES)
<1>1. B_PAGES \in Nat
  BY BPagesAssumption
<1>2. f \in 0..B_PAGES /\ IsFreeEnd(S, B_PAGES, f)
  BY <1>1, FreeEndFound
<1> HIDE DEF f
<1>3. f \in Nat /\ B_PAGES - f \in 0..B_PAGES
  BY <1>1, <1>2
<1>4. Free(S, B_PAGES, B_PAGES - f, f)
  BY <1>2 DEF IsFreeEnd
<1>5. Fits(S, B_PAGES, f)
  BY <1>3, <1>4 DEF Fits
<1> QED
  BY <1>2, <1>3, <1>4, <1>5, LongestDecides DEF f

\* The free start is itself a free run
LEMMA StartFits ==
  ASSUME NEW S, NEW k \in Nat, k <= FreeStart(S, B_PAGES)
  PROVE  /\ FreeStart(S, B_PAGES) \in 0..B_PAGES
         /\ Free(S, B_PAGES, 0, k)
<1> DEFINE f == FreeStart(S, B_PAGES)
<1>1. B_PAGES \in Nat
  BY BPagesAssumption
<1>2. f \in 0..B_PAGES /\ IsFreeStart(S, B_PAGES, f)
  BY <1>1, FreeStartFound
<1>3. Free(S, B_PAGES, 0, f)
  BY <1>2 DEF IsFreeStart
<1> HIDE DEF f
<1>4. f \in Nat /\ k <= f
  BY <1>1, <1>2 DEF f
<1>5. Free(S, B_PAGES, 0, k)
  BY <1>1, <1>3, <1>4, FreeShorter
<1> QED
  BY <1>2, <1>5 DEF f

-----------------------------------------------------------------------------
(* Where the first run of the branch is, decided from the counts *)

\* A free run that begins in the left buddy and does not fit there is made
\* of the left buddy's end and the right buddy's start
LEMMA BeginsLeft ==
  ASSUME NEW L \in SUBSET BuddyPages, NEW R \in SUBSET BuddyPages,
         NEW k \in Nat, ~(k <= LongestFree(L, B_PAGES)),
         NEW j \in 0..(B_PAGES - 1), Free(Joined(L, R), PAGES, j, k)
  PROVE  /\ B_PAGES - j <= FreeEnd(L, B_PAGES)
         /\ (j + k) - B_PAGES <= FreeStart(R, B_PAGES)
<1>1. B_PAGES \in Nat /\ j \in Nat
  BY BPagesAssumption
<1>2. ASSUME j + k <= B_PAGES PROVE FALSE
  <2>1. Free(L, B_PAGES, j, k)
    BY <1>1, <1>2, SeamFree
  <2>2. j \in 0..B_PAGES
    BY <1>1
  <2>3. Fits(L, B_PAGES, k)
    BY <2>1, <2>2 DEF Fits
  <2> QED
    BY <2>3, LongestDecides
<1>3. j < B_PAGES /\ B_PAGES < j + k
  BY <1>1, <1>2
<1>4. Free(L, B_PAGES, j, B_PAGES - j) /\ Free(R, B_PAGES, 0, (j + k) - B_PAGES)
  BY <1>1, <1>3, SeamFree
<1>5. (j + k) - B_PAGES \in Nat
  BY <1>1, <1>3
<1> QED
  BY <1>4, <1>5, EndBounds, StartBounds

\* The left buddy's first run is the branch's first run
LEMMA LeftFirst ==
  ASSUME NEW L \in SUBSET BuddyPages, NEW R \in SUBSET BuddyPages,
         NEW k \in Nat, k > 0, Fits(L, B_PAGES, k)
  PROVE  /\ FirstFit(L, B_PAGES, k) \in 0..(B_PAGES - 1)
         /\ IsFirst(Joined(L, R), PAGES, k, FirstFit(L, B_PAGES, k))
<1> DEFINE i == FirstFit(L, B_PAGES, k)
<1>1. B_PAGES \in Nat
  BY BPagesAssumption
<1>2. i \in 0..B_PAGES /\ IsFirst(L, B_PAGES, k, i)
  BY <1>1, FirstFitFound
<1> HIDE DEF i
<1>3. i \in Nat /\ i + k <= B_PAGES /\ Free(L, B_PAGES, i, k)
  BY <1>1, <1>2 DEF IsFirst, Free
<1>4. Free(Joined(L, R), PAGES, i, k)
  BY <1>3, SeamFree
<1>5. ASSUME NEW j \in 0..(i - 1) PROVE ~Free(Joined(L, R), PAGES, j, k)
  <2>1. j \in Nat /\ j + k <= B_PAGES
    BY <1>1, <1>3
  <2>2. ~Free(L, B_PAGES, j, k)
    BY <1>2 DEF IsFirst
  <2> QED
    BY <2>1, <2>2, SeamFree
<1>6. i \in 0..(B_PAGES - 1)
  BY <1>1, <1>3
<1> QED
  BY <1>4, <1>5, <1>6 DEF i, IsFirst

\* If the left buddy has no room but the two ends at the seam have, the run
\* that begins with the left buddy's free end is the first
LEMMA AcrossFirst ==
  ASSUME NEW L \in SUBSET BuddyPages, NEW R \in SUBSET BuddyPages,
         NEW k \in Nat, ~(k <= LongestFree(L, B_PAGES)),
         k <= FreeEnd(L, B_PAGES) + FreeStart(R, B_PAGES), FreeEnd(L, B_PAGES) > 0
  PROVE  /\ B_PAGES - FreeEnd(L, B_PAGES) \in 0..(B_PAGES - 1)
         /\ k > FreeEnd(L, B_PAGES)
         /\ k - FreeEnd(L, B_PAGES) <= B_PAGES
         /\ IsFirst(Joined(L, R), PAGES, k, B_PAGES - FreeEnd(L, B_PAGES))
<1> DEFINE e == FreeEnd(L, B_PAGES)
           s == FreeStart(R, B_PAGES)
           l == LongestFree(L, B_PAGES)
           i == B_PAGES - e
<1>1. B_PAGES \in Nat
  BY BPagesAssumption
<1>2. e \in 0..B_PAGES /\ Free(L, B_PAGES, i, e) /\ e <= l
  BY EndFits
<1>3. s \in 0..B_PAGES /\ l \in 0..B_PAGES
  BY <1>1, FreeStartFound, LongestFound
<1>a. ~(k <= l) /\ k <= e + s /\ e > 0
  OBVIOUS
<1>b. \A j \in 0..(B_PAGES - 1) : Free(Joined(L, R), PAGES, j, k) => B_PAGES - j <= e
  BY BeginsLeft
<1>c. \A m \in Nat : m <= s => Free(R, B_PAGES, 0, m)
  BY StartFits
<1> HIDE DEF e, s, l
<1>4. e \in Nat /\ i \in Nat /\ i < B_PAGES /\ B_PAGES < i + k /\ B_PAGES - i = e
      /\ (i + k) - B_PAGES = k - e /\ k - e \in Nat /\ k - e <= s
  BY <1>1, <1>2, <1>3, <1>a
<1>5. Free(R, B_PAGES, 0, k - e)
  BY <1>4, <1>c
<1>6. Free(Joined(L, R), PAGES, i, k)
  <2>1. Free(L, B_PAGES, i, B_PAGES - i) /\ Free(R, B_PAGES, 0, (i + k) - B_PAGES)
    BY <1>2, <1>4, <1>5
  <2> QED
    BY <1>4, <2>1, SeamFree
<1>7. ASSUME NEW j \in 0..(i - 1) PROVE ~Free(Joined(L, R), PAGES, j, k)
  <2>1. j \in 0..(B_PAGES - 1) /\ ~(B_PAGES - j <= e)
    BY <1>1, <1>2, <1>4
  <2> QED
    BY <2>1, <1>b
<1>8. i \in 0..(B_PAGES - 1) /\ k > e /\ k - e <= B_PAGES
  BY <1>1, <1>2, <1>3, <1>4
<1> QED
  BY <1>6, <1>7, <1>8 DEF e, IsFirst

\* If neither has room, a run of the branch begins in the right buddy
LEMMA RightOnly ==
  ASSUME NEW L \in SUBSET BuddyPages, NEW R \in SUBSET BuddyPages,
         NEW k \in Nat, ~(k <= LongestFree(L, B_PAGES)),
         ~(/\ k <= FreeEnd(L, B_PAGES) + FreeStart(R, B_PAGES)
           /\ FreeEnd(L, B_PAGES) > 0),
         NEW j \in 0..(B_PAGES - 1)
  PROVE  ~Free(Joined(L, R), PAGES, j, k)
<1> DEFINE e == FreeEnd(L, B_PAGES)
           s == FreeStart(R, B_PAGES)
<1>1. B_PAGES \in Nat /\ j \in Nat /\ j <= B_PAGES - 1
  BY BPagesAssumption
<1>2. e \in 0..B_PAGES /\ s \in 0..B_PAGES
  BY <1>1, FreeEndFound, FreeStartFound
<1>3. ~(k <= e + s /\ e > 0)
  OBVIOUS
<1>4. Free(Joined(L, R), PAGES, j, k) => B_PAGES - j <= e /\ (j + k) - B_PAGES <= s
  BY BeginsLeft
<1> HIDE DEF e, s
<1>5. ~(B_PAGES - j <= e /\ (j + k) - B_PAGES <= s)
  BY <1>1, <1>2, <1>3
<1> QED
  BY <1>4, <1>5

\* Then the right buddy's first run, shifted, is the branch's first run, and
\* if it has none neither has the branch
LEMMA RightFirst ==
  ASSUME NEW L \in SUBSET BuddyPages, NEW R \in SUBSET BuddyPages,
         NEW k \in Nat, k > 0,
         \A j \in 0..(B_PAGES - 1) : ~Free(Joined(L, R), PAGES, j, k)
  PROVE  /\ Fits(R, B_PAGES, k) =>
              /\ FirstFit(R, B_PAGES, k) \in 0..(B_PAGES - 1)
              /\ IsFirst(Joined(L, R), PAGES, k, FirstFit(R, B_PAGES, k) + B_PAGES)
         /\ ~Fits(R, B_PAGES, k) => ~Fits(Joined(L, R), PAGES, k)
<1>1. B_PAGES \in Nat /\ PAGES = B_PAGES + B_PAGES
  BY BPagesAssumption DEF PAGES
<1>2. ASSUME NEW j \in Nat, j >= B_PAGES
      PROVE  Free(Joined(L, R), PAGES, j, k) <=> Free(R, B_PAGES, j - B_PAGES, k)
  BY <1>2, SeamFree
<1>3. ASSUME Fits(R, B_PAGES, k)
      PROVE  /\ FirstFit(R, B_PAGES, k) \in 0..(B_PAGES - 1)
             /\ IsFirst(Joined(L, R), PAGES, k, FirstFit(R, B_PAGES, k) + B_PAGES)
  <2> DEFINE i == FirstFit(R, B_PAGES, k)
  <2>1. i \in 0..B_PAGES /\ IsFirst(R, B_PAGES, k, i)
    BY <1>1, <1>3, FirstFitFound
  <2> HIDE DEF i
  <2>2. Free(R, B_PAGES, i, k) /\ i + k <= B_PAGES
    BY <2>1 DEF IsFirst, Free
  <2>3. i + B_PAGES \in Nat /\ i + B_PAGES >= B_PAGES /\ (i + B_PAGES) - B_PAGES = i
    BY <1>1, <2>1
  <2>4. Free(Joined(L, R), PAGES, i + B_PAGES, k)
    BY <1>2, <2>2, <2>3
  <2>5. ASSUME NEW j \in 0..((i + B_PAGES) - 1) PROVE ~Free(Joined(L, R), PAGES, j, k)
    <3>1. CASE j < B_PAGES
      <4>1. j \in 0..(B_PAGES - 1)
        BY <1>1, <2>1, <3>1
      <4> QED
        BY <4>1
    <3>2. CASE j >= B_PAGES
      <4>1. j \in Nat /\ j - B_PAGES \in 0..(i - 1)
        BY <1>1, <2>1, <3>2
      <4>2. ~Free(R, B_PAGES, j - B_PAGES, k)
        BY <2>1, <4>1 DEF IsFirst
      <4> QED
        BY <1>2, <3>2, <4>1, <4>2
    <3>3. j < B_PAGES \/ j >= B_PAGES
      BY <1>1, <2>1
    <3> QED
      BY <3>1, <3>2, <3>3
  <2>6. i \in 0..(B_PAGES - 1)
    BY <1>1, <2>1, <2>2
  <2> QED
    BY <2>4, <2>5, <2>6 DEF i, IsFirst
<1>4. ASSUME ~Fits(R, B_PAGES, k), NEW j \in 0..PAGES, Free(Joined(L, R), PAGES, j, k)
      PROVE  FALSE
  <2>1. j \in Nat /\ j >= B_PAGES
    <3>1. j < B_PAGES => j \in 0..(B_PAGES - 1)
      BY <1>1
    <3>2. j \in Nat /\ (j < B_PAGES \/ j >= B_PAGES)
      BY <1>1
    <3> QED
      BY <1>4, <3>1, <3>2
  <2>2. Free(R, B_PAGES, j - B_PAGES, k) /\ j - B_PAGES \in 0..B_PAGES
    BY <1>1, <1>2, <1>4, <2>1
  <2> QED
    BY <1>4, <2>2 DEF Fits
<1> QED
  BY <1>3, <1>4 DEF Fits

-----------------------------------------------------------------------------
(* What the branch reports, computed from the counts *)

\* The longest run of the branch
LEMMA LongestJoined ==
  ASSUME NEW L \in SUBSET BuddyPages, NEW R \in SUBSET BuddyPages
  PROVE  LongestFree(Joined(L, R), PAGES)
           = Max2(Max2(FreeEnd(L, B_PAGES) + FreeStart(R, B_PAGES),
                       LongestFree(L, B_PAGES)),
                  LongestFree(R, B_PAGES))
<1> DEFINE e == FreeEnd(L, B_PAGES)
           s == FreeStart(R, B_PAGES)
           ll == LongestFree(L, B_PAGES)
           rl == LongestFree(R, B_PAGES)
           m == Max2(Max2(e + s, ll), rl)
           J == Joined(L, R)
<1>1. B_PAGES \in Nat /\ PAGES = B_PAGES + B_PAGES /\ PAGES \in Nat
  BY BPagesAssumption DEF PAGES
<1>2. /\ e \in 0..B_PAGES /\ s \in 0..B_PAGES
      /\ ll \in 0..B_PAGES /\ rl \in 0..B_PAGES /\ e <= ll
  BY <1>1, EndFits, FreeStartFound, LongestFound
<1>3. /\ \A k \in Nat : k <= ll => Fits(L, B_PAGES, k)
      /\ \A k \in Nat : k <= rl <=> Fits(R, B_PAGES, k)
  BY LongestDecides
<1>4. ASSUME NEW k \in Nat, k > 0, k <= ll PROVE Fits(J, PAGES, k)
  <2>1. Fits(L, B_PAGES, k)
    BY <1>3, <1>4
  <2>2. PICK i \in 0..(B_PAGES - 1) : IsFirst(J, PAGES, k, i)
    BY <1>4, <2>1, LeftFirst
  <2>3. i \in 0..PAGES
    BY <1>1
  <2> QED
    BY <2>2, <2>3 DEF IsFirst, Fits
<1>5. ASSUME NEW k \in Nat, k > 0, ~(k <= ll), k <= e + s, e > 0
      PROVE  Fits(J, PAGES, k)
  <2>1. PICK i \in 0..(B_PAGES - 1) : IsFirst(J, PAGES, k, i)
    BY <1>5, AcrossFirst
  <2>2. i \in 0..PAGES
    BY <1>1
  <2> QED
    BY <2>1, <2>2 DEF IsFirst, Fits
<1>6. ASSUME NEW k \in Nat, ~(k <= ll), ~(k <= e + s /\ e > 0)
      PROVE  \A j \in 0..(B_PAGES - 1) : ~Free(J, PAGES, j, k)
  BY <1>6, RightOnly
<1>7. ASSUME NEW k \in Nat, k > 0, ~(k <= ll), ~(k <= e + s /\ e > 0), k <= rl
      PROVE  Fits(J, PAGES, k)
  <2>1. Fits(R, B_PAGES, k)
    BY <1>3, <1>7
  <2>2. PICK i \in 0..(B_PAGES - 1) : IsFirst(J, PAGES, k, i + B_PAGES)
    BY <1>6, <1>7, <2>1, RightFirst
  <2>3. i + B_PAGES \in 0..PAGES
    BY <1>1
  <2> QED
    BY <2>2, <2>3 DEF IsFirst, Fits
<1>8. ASSUME NEW k \in Nat, k > 0, ~(k <= ll), ~(k <= e + s /\ e > 0), ~(k <= rl)
      PROVE  ~Fits(J, PAGES, k)
  <2>1. ~Fits(R, B_PAGES, k)
    BY <1>3, <1>8
  <2> QED
    BY <1>6, <1>8, <2>1, RightFirst
<1>9. Free(J, PAGES, 0, 0)
  BY <1>1 DEF Free, Run
<1>s. e = 0 => s <= rl
  <2>1. s \in Nat /\ Free(R, B_PAGES, 0, s)
    BY <1>1, <1>2, StartFits
  <2>2. 0 \in 0..B_PAGES
    BY <1>1
  <2>3. Fits(R, B_PAGES, s)
    BY <2>1, <2>2 DEF Fits
  <2> QED
    BY <1>3, <2>1, <2>3
<1> HIDE DEF e, s, ll, rl, J
<1>10. m \in 0..PAGES /\ (\A k \in Nat : k <= m <=> k <= e + s \/ k <= ll \/ k <= rl)
  BY <1>1, <1>2 DEF Max2
<1> HIDE DEF m
<1>11. Fits(J, PAGES, m)
  <2>1. CASE m = 0
    <3>1. 0 \in 0..PAGES
      BY <1>1
    <3> QED
      BY <1>9, <2>1, <3>1 DEF Fits
  <2>2. CASE m # 0
    <3>1. m \in Nat /\ m > 0 /\ (m <= e + s \/ m <= ll \/ m <= rl)
      BY <1>1, <1>10, <2>2
    <3>2. m <= e + s => e > 0 \/ m <= rl
      BY <1>2, <1>s, <3>1
    <3> QED
      BY <1>4, <1>5, <1>7, <3>1, <3>2
  <2> QED
    BY <2>1, <2>2
<1>12. ASSUME NEW k \in (m + 1)..PAGES PROVE ~Fits(J, PAGES, k)
  <2>1. k \in Nat /\ k > 0 /\ ~(k <= m)
    BY <1>1, <1>10
  <2>2. ~(k <= e + s) /\ ~(k <= ll) /\ ~(k <= rl)
    BY <1>10, <2>1
  <2> QED
    BY <1>8, <2>1, <2>2
<1>13. IsLongest(J, PAGES, m)
  BY <1>11, <1>12 DEF IsLongest
<1>14. LongestFree(J, PAGES) = m
  BY <1>1, <1>10, <1>13, LongestFound
<1> QED
  BY <1>14 DEF J, m, e, s, ll, rl

\* The free pages at the start of the branch
LEMMA StartJoined ==
  ASSUME NEW L \in SUBSET BuddyPages, NEW R \in SUBSET BuddyPages
  PROVE  FreeStart(Joined(L, R), PAGES)
           = IF FreeStart(L, B_PAGES) < B_PAGES
             THEN FreeStart(L, B_PAGES)
             ELSE FreeStart(R, B_PAGES) + B_PAGES
<1> DEFINE ls == FreeStart(L, B_PAGES)
           rs == FreeStart(R, B_PAGES)
           J == Joined(L, R)
<1>1. B_PAGES \in Nat /\ B_PAGES > 0 /\ PAGES = B_PAGES + B_PAGES /\ PAGES \in Nat
  BY BPagesAssumption DEF PAGES
<1>2. /\ ls \in 0..B_PAGES /\ IsFreeStart(L, B_PAGES, ls)
      /\ rs \in 0..B_PAGES /\ IsFreeStart(R, B_PAGES, rs)
  BY <1>1, FreeStartFound
<1>3. \A v \in 0..PAGES : IsFreeStart(J, PAGES, v) => v = FreeStart(J, PAGES)
  BY <1>1, FreeStartFound
<1>4. /\ \A p \in L : p \in J
      /\ \A p \in R : p + B_PAGES \in J
  BY DEF Joined, Shifted
<1>5. /\ \A k \in Nat : k <= B_PAGES => (Free(J, PAGES, 0, k) <=> Free(L, B_PAGES, 0, k))
      /\ \A k \in Nat : B_PAGES < k =>
           (Free(J, PAGES, 0, k) <=> /\ Free(L, B_PAGES, 0, B_PAGES)
                                     /\ Free(R, B_PAGES, 0, k - B_PAGES))
  BY <1>1, SeamFree
<1> HIDE DEF ls, rs, J
<1>6. CASE ls < B_PAGES
  <2>1. Free(J, PAGES, 0, ls) /\ ls \in J
    BY <1>1, <1>2, <1>4, <1>5, <1>6 DEF IsFreeStart
  <2>2. ls \in 0..PAGES /\ IsFreeStart(J, PAGES, ls)
    BY <1>1, <1>2, <2>1 DEF IsFreeStart
  <2> QED
    BY <1>3, <1>6, <2>2 DEF ls, J
<1>7. CASE ~(ls < B_PAGES)
  <2> DEFINE v == rs + B_PAGES
  <2>1. ls = B_PAGES /\ v \in 0..PAGES /\ v \in Nat /\ v - B_PAGES = rs
    BY <1>1, <1>2, <1>7
  <2>2. Free(L, B_PAGES, 0, B_PAGES) /\ Free(R, B_PAGES, 0, rs)
    BY <1>2, <2>1 DEF IsFreeStart
  <2>3. Free(J, PAGES, 0, v)
    <3>1. CASE rs = 0
      <4>1. v = B_PAGES
        BY <1>1, <3>1
      <4> QED
        BY <1>1, <1>5, <2>2, <4>1
    <3>2. CASE rs # 0
      <4>1. B_PAGES < v
        BY <1>1, <1>2, <3>2
      <4> QED
        BY <1>5, <2>1, <2>2, <4>1
    <3> QED
      BY <3>1, <3>2
  <2>4. v < PAGES => v \in J
    <3>1. v < PAGES => rs < B_PAGES
      BY <1>1, <1>2
    <3> QED
      BY <1>2, <1>4, <3>1 DEF IsFreeStart
  <2>5. IsFreeStart(J, PAGES, v)
    BY <2>3, <2>4 DEF IsFreeStart
  <2> QED
    BY <1>3, <1>7, <2>1, <2>5 DEF ls, rs, J
<1> QED
  BY <1>6, <1>7

\* The free pages at the end of the branch
LEMMA EndJoined ==
  ASSUME NEW L \in SUBSET BuddyPages, NEW R \in SUBSET BuddyPages
  PROVE  FreeEnd(Joined(L, R), PAGES)
           = IF FreeEnd(R, B_PAGES) < B_PAGES
             THEN FreeEnd(R, B_PAGES)
             ELSE FreeEnd(L, B_PAGES) + B_PAGES
<1> DEFINE le == FreeEnd(L, B_PAGES)
           re == FreeEnd(R, B_PAGES)
           J == Joined(L, R)
<1>1. B_PAGES \in Nat /\ B_PAGES > 0 /\ PAGES = B_PAGES + B_PAGES /\ PAGES \in Nat
  BY BPagesAssumption DEF PAGES
<1>2. /\ le \in 0..B_PAGES /\ IsFreeEnd(L, B_PAGES, le)
      /\ re \in 0..B_PAGES /\ IsFreeEnd(R, B_PAGES, re)
  BY <1>1, FreeEndFound
<1>3. \A v \in 0..PAGES : IsFreeEnd(J, PAGES, v) => v = FreeEnd(J, PAGES)
  BY <1>1, FreeEndFound
<1>4. /\ \A p \in L : p \in J
      /\ \A p \in R : p + B_PAGES \in J
  BY DEF Joined, Shifted
<1>5. /\ \A i, k \in Nat : i >= B_PAGES =>
           (Free(J, PAGES, i, k) <=> Free(R, B_PAGES, i - B_PAGES, k))
      /\ \A i, k \in Nat : i < B_PAGES /\ B_PAGES < i + k =>
           (Free(J, PAGES, i, k) <=> /\ Free(L, B_PAGES, i, B_PAGES - i)
                                     /\ Free(R, B_PAGES, 0, (i + k) - B_PAGES))
  BY SeamFree
<1> HIDE DEF le, re, J
<1>6. CASE re < B_PAGES
  <2>1. /\ re \in Nat /\ PAGES - re \in Nat /\ PAGES - re >= B_PAGES
        /\ (PAGES - re) - B_PAGES = B_PAGES - re
        /\ ((B_PAGES - re) - 1) + B_PAGES = (PAGES - re) - 1
    BY <1>1, <1>2, <1>6
  <2>2. Free(J, PAGES, PAGES - re, re)
    BY <1>2, <1>5, <2>1 DEF IsFreeEnd
  <2>3. (PAGES - re) - 1 \in J
    <3>1. (B_PAGES - re) - 1 \in R
      BY <1>2, <1>6 DEF IsFreeEnd
    <3>2. ((B_PAGES - re) - 1) + B_PAGES \in J
      BY <1>4, <3>1
    <3> QED
      BY <2>1, <3>2
  <2>4. re \in 0..PAGES /\ IsFreeEnd(J, PAGES, re)
    BY <1>1, <1>2, <2>2, <2>3 DEF IsFreeEnd
  <2> QED
    BY <1>3, <1>6, <2>4 DEF re, J
<1>7. CASE ~(re < B_PAGES)
  <2> DEFINE v == le + B_PAGES
             i == PAGES - v
  <2>1. /\ re = B_PAGES /\ B_PAGES - re = 0 /\ v \in 0..PAGES /\ v \in Nat
        /\ i \in Nat /\ i = B_PAGES - le /\ B_PAGES - i = le /\ (i + v) - B_PAGES = B_PAGES
    BY <1>1, <1>2, <1>7
  <2>2. Free(L, B_PAGES, i, le) /\ Free(R, B_PAGES, 0, B_PAGES)
    BY <1>2, <2>1 DEF IsFreeEnd
  <2> HIDE DEF v, i
  <2>3. Free(J, PAGES, i, v)
    <3>1. CASE le = 0
      <4>1. i >= B_PAGES /\ i - B_PAGES = 0 /\ v = B_PAGES
        BY <1>1, <2>1, <3>1 DEF v
      <4>2. Free(R, B_PAGES, i - B_PAGES, v)
        BY <2>2, <4>1
      <4> QED
        BY <1>5, <2>1, <4>1, <4>2
    <3>2. CASE le # 0
      <4>1. i < B_PAGES /\ B_PAGES < i + v
        BY <1>1, <1>2, <2>1, <3>2
      <4>2. Free(L, B_PAGES, i, B_PAGES - i) /\ Free(R, B_PAGES, 0, (i + v) - B_PAGES)
        BY <2>1, <2>2
      <4> QED
        BY <1>5, <2>1, <4>1, <4>2
    <3> QED
      BY <3>1, <3>2
  <2>4. v < PAGES => (PAGES - v) - 1 \in J
    <3>1. v < PAGES => le < B_PAGES
      BY <1>1, <1>2 DEF v
    <3>2. (PAGES - v) - 1 = (B_PAGES - le) - 1
      BY <1>1, <2>1 DEF i
    <3>3. le < B_PAGES => (B_PAGES - le) - 1 \in L
      BY <1>2 DEF IsFreeEnd
    <3> QED
      BY <1>4, <3>1, <3>2, <3>3
  <2>5. IsFreeEnd(J, PAGES, v)
    BY <2>3, <2>4 DEF IsFreeEnd, i
  <2> QED
    BY <1>3, <1>7, <2>1, <2>5 DEF le, re, J, v
<1> QED
  BY <1>6, <1>7

-----------------------------------------------------------------------------
(* The operations *)

\* What PageAllocator's allocation does, given where the first run is
LEMMA AllocatedSome ==
  ASSUME NEW S, NEW n \in Nat, NEW k \in 1..n, NEW i \in 0..n, IsFirst(S, n, k, i)
  PROVE  Allocated(S, n, k) = [set |-> S \cup Run(i, k), ret |-> {i}]
BY FirstFitUnique DEF Allocated

LEMMA AllocatedNone ==
  ASSUME NEW S, NEW n \in Nat, NEW k \in Nat, k \notin 1..n \/ ~Fits(S, n, k)
  PROVE  Allocated(S, n, k) = [set |-> S, ret |-> None]
BY DEF Allocated

\* Reading the six numbers of an exact FreeInfo
LEMMA ExactInfo ==
  ASSUME InfoExact
  PROVE  /\ free_info.left.longest = LongestFree(left, B_PAGES)
         /\ free_info.left.start = FreeStart(left, B_PAGES)
         /\ free_info.left.end = FreeEnd(left, B_PAGES)
         /\ free_info.right.longest = LongestFree(right, B_PAGES)
         /\ free_info.right.start = FreeStart(right, B_PAGES)
         /\ free_info.right.end = FreeEnd(right, B_PAGES)
BY DEF InfoExact, Counts

\* A refresh makes them exact
LEMMA RefreshExact ==
  ASSUME refresh
  PROVE  InfoExact'
BY DEF refresh, InfoExact

\* Pages added to the buddies are added to the branch
LEMMA PagesAdd ==
  ASSUME NEW i \in Nat, NEW k \in Nat, NEW j \in Nat, NEW m \in Nat,
         left' = left \cup Run(i, k), right' = right \cup Run(j, m)
  PROVE  Pages' = (Pages \cup Run(i, k)) \cup Run(j + B_PAGES, m)
<1>1. B_PAGES \in Nat
  BY BPagesAssumption
<1>2. ASSUME NEW p PROVE p \in Shifted(right') <=> p \in Shifted(right) \/ p \in Run(j + B_PAGES, m)
  <2>1. ASSUME NEW q \in Run(j, m) PROVE q + B_PAGES \in Run(j + B_PAGES, m)
    BY <1>1 DEF Run
  <2>2. ASSUME p \in Run(j + B_PAGES, m) PROVE p \in Shifted(right')
    <3>1. p - B_PAGES \in Run(j, m) /\ p = (p - B_PAGES) + B_PAGES
      BY <1>1, <2>2 DEF Run
    <3> QED
      BY <3>1 DEF Shifted
  <2> QED
    BY <2>1, <2>2 DEF Shifted
<1> QED
  BY <1>2 DEF Pages, Joined

\* Pages freed in the buddies are freed in the branch
LEMMA PagesRemove ==
  ASSUME left \in SUBSET BuddyPages, right \in SUBSET BuddyPages,
         NEW i \in Nat, NEW k \in Nat, NEW j \in Nat, NEW m \in Nat, i + k <= B_PAGES,
         left' = left \ Run(i, k), right' = right \ Run(j, m)
  PROVE  Pages' = (Pages \ Run(i, k)) \ Run(j + B_PAGES, m)
<1>1. B_PAGES \in Nat
  BY BPagesAssumption
<1>2. \A p \in BuddyPages : p \in Int /\ p < B_PAGES /\ p >= 0
  BY <1>1 DEF BuddyPages
<1>3. \A p \in left : p \notin Run(j + B_PAGES, m)
  BY <1>1, <1>2 DEF Run
<1>4. \A p \in right : p + B_PAGES \notin Run(i, k)
  BY <1>1, <1>2 DEF Run
<1>5. \A p \in right : p \in Run(j, m) <=> p + B_PAGES \in Run(j + B_PAGES, m)
  BY <1>1, <1>2 DEF Run
<1>6. ASSUME NEW q
      PROVE  q \in Shifted(right') <=> q \in Shifted(right) /\ q \notin Run(j + B_PAGES, m)
  BY <1>5 DEF Shifted
<1>7. \A q \in Shifted(right) : q \notin Run(i, k)
  BY <1>4 DEF Shifted
<1> QED
  BY <1>3, <1>6, <1>7 DEF Pages, Joined

\* A run of no pages is empty
LEMMA RunEmpty == \A i \in Nat : Run(i, 0) = {}
BY DEF Run

\* A run that fits in a buddy consists of its pages
LEMMA RunInBuddy ==
  ASSUME NEW i \in Nat, NEW k \in Nat, i + k <= B_PAGES
  PROVE  Run(i, k) \subseteq BuddyPages
BY BPagesAssumption DEF Run, BuddyPages

\* An operation that returns None and changes nothing keeps the invariant
LEMMA NothingKeeps ==
  ASSUME BranchInv, ret' = None, UNCHANGED <<left, right, free_info>>
  PROVE  BranchInv' /\ Pages' = Pages
BY DEF BranchInv, TypeOK, InfoExact, Pages

\* An operation that refreshes keeps the invariant
LEMMA RefreshKeeps ==
  ASSUME refresh, left' \in SUBSET BuddyPages, right' \in SUBSET BuddyPages,
         ret' \in {None} \cup {{i} : i \in 0..(PAGES - 1)}
  PROVE  BranchInv'
BY RefreshExact DEF BranchInv, TypeOK, BuddyPages

\* allocate is the allocator's first fit
LEMMA AllocateStep ==
  ASSUME BranchInv, NEW pages \in 0..(PAGES + 1), allocate(pages)
  PROVE  BranchInv' /\ Allocator!Allocate(pages)
<1> DEFINE A == Allocated(Pages, PAGES, pages)
<1> USE DEF BuddyPages
<1>1. /\ B_PAGES \in Nat /\ B_PAGES > 0
      /\ PAGES = B_PAGES + B_PAGES /\ PAGES \in Nat /\ pages \in Nat
  BY BPagesAssumption DEF PAGES
<1>2. /\ left \in SUBSET BuddyPages /\ right \in SUBSET BuddyPages
      /\ InfoExact /\ Pages = Joined(left, right)
  BY DEF BranchInv, TypeOK, Pages
<1> HIDE DEF BuddyPages
<1> SUFFICES BranchInv' /\ Pages' = A.set /\ ret' = A.ret
  BY DEF Allocator!Allocate, Allocator!Allocated, Allocator!Fits, Allocator!Free, Allocator!Run,
         Allocator!FirstFit, Allocator!IsFirst, Allocator!None,
         Allocated, Fits, Free, Run, FirstFit, IsFirst, None
<1>3. ASSUME ReturnNone, pages \notin 1..PAGES \/ ~Fits(Pages, PAGES, pages)
      PROVE  BranchInv' /\ Pages' = A.set /\ ret' = A.ret
  <2>1. A = [set |-> Pages, ret |-> None]
    BY <1>1, <1>3, AllocatedNone
  <2>2. BranchInv' /\ Pages' = Pages /\ ret' = None
    BY <1>3, NothingKeeps DEF ReturnNone, Return
  <2> QED
    BY <2>1, <2>2
<1>4. ASSUME NEW i \in 0..(PAGES - 1), pages \in 1..PAGES,
             IsFirst(Joined(left, right), PAGES, pages, i),
             refresh, ret' = {i},
             left' \in SUBSET BuddyPages, right' \in SUBSET BuddyPages,
             Pages' = Pages \cup Run(i, pages)
      PROVE  BranchInv' /\ Pages' = A.set /\ ret' = A.ret
  <2>1. i \in 0..PAGES
    BY <1>1
  <2>2. A = [set |-> Pages \cup Run(i, pages), ret |-> {i}]
    <3>1. Allocated(Joined(left, right), PAGES, pages)
            = [set |-> Joined(left, right) \cup Run(i, pages), ret |-> {i}]
      BY <1>1, <1>4, <2>1, AllocatedSome
    <3> QED
      BY <1>2, <3>1
  <2>3. BranchInv'
    BY <1>4, RefreshKeeps
  <2> QED
    BY <1>4, <2>2, <2>3
<1> HIDE DEF A
<1>5. CASE pages \notin 1..PAGES
  BY <1>3, <1>5 DEF allocate
<1>6. CASE pages \in 1..PAGES /\ pages <= free_info.left.longest
  <2> DEFINE i == FirstFit(left, B_PAGES, pages)
  <2>1. AllocateLeft(pages) /\ pages > 0
    BY <1>1, <1>6 DEF allocate
  <2>2. Fits(left, B_PAGES, pages)
    BY <1>1, <1>2, <1>6, ExactInfo, LongestDecides
  <2>3. pages \in 1..B_PAGES
    BY <1>1, <2>1, <2>2 DEF Fits, Free
  <2>4. i \in 0..(B_PAGES - 1) /\ IsFirst(Joined(left, right), PAGES, pages, i)
    BY <1>1, <1>2, <2>1, <2>2, LeftFirst
  <2>5. i + pages <= B_PAGES
    BY <1>1, <2>2, FirstFitFound DEF IsFirst, Free
  <2>6. /\ left' = left \cup Run(i, pages) /\ right' = right
        /\ refresh /\ ret' = {i}
    BY <2>1, <2>2, <2>3 DEF AllocateLeft, Allocated, Return, None
  <2> HIDE DEF i
  <2>7. i \in Nat /\ i \in 0..(PAGES - 1)
    BY <1>1, <2>4
  <2>8. left' \in SUBSET BuddyPages
    BY <1>1, <1>2, <2>5, <2>6, <2>7, RunInBuddy
  <2>9. Pages' = Pages \cup Run(i, pages)
    <3>1. right' = right \cup Run(0, 0) /\ 0 \in Nat /\ 0 + B_PAGES \in Nat
      BY <1>1, <2>6, RunEmpty
    <3>2. Pages' = (Pages \cup Run(i, pages)) \cup Run(0 + B_PAGES, 0)
      BY <1>1, <2>6, <2>7, <3>1, PagesAdd
    <3> QED
      BY <3>1, <3>2, RunEmpty
  <2> QED
    BY <1>2, <1>4, <1>6, <2>4, <2>6, <2>7, <2>8, <2>9
<1>7. CASE pages \in 1..PAGES /\ ~(pages <= free_info.left.longest) /\ FitsAcross(pages)
  <2> DEFINE e == FreeEnd(left, B_PAGES)
             i == B_PAGES - e
             m == pages - e
  <2>1. AllocateAcross(pages)
    BY <1>7 DEF allocate
  <2>2. /\ i \in 0..(B_PAGES - 1) /\ pages > e /\ m <= B_PAGES
        /\ IsFirst(Joined(left, right), PAGES, pages, i)
    BY <1>1, <1>2, <1>7, ExactInfo, AcrossFirst DEF FitsAcross
  <2>3. e \in 0..B_PAGES /\ e > 0 /\ free_info.left.end = e
    BY <1>1, <1>2, <1>7, ExactInfo, FreeEndFound DEF FitsAcross
  <2> HIDE DEF e
  <2>4. /\ Monus(pages, e) = m /\ m \in Nat /\ m > 0 /\ i + e = B_PAGES
        /\ e \in Nat /\ i \in Nat /\ 0 + m <= B_PAGES /\ i \in 0..(PAGES - 1)
    BY <1>1, <2>2, <2>3 DEF Monus, Max2
  <2>5. /\ AllocatedFixed(left, B_PAGES, i, e, TRUE)
             = [set |-> left \cup Run(i, e), ret |-> {i}]
        /\ AllocatedFixed(right, B_PAGES, 0, m, TRUE)
             = [set |-> right \cup Run(0, m), ret |-> {0}]
    BY <1>1, <2>3, <2>4 DEF AllocatedFixed
  <2> DEFINE l == AllocatedFixed(left, B_PAGES, B_PAGES - free_info.left.end,
                                 free_info.left.end, TRUE)
             r == AllocatedFixed(right, B_PAGES, 0, Monus(pages, free_info.left.end), TRUE)
  <2>9. /\ l.set = left \cup Run(i, e) /\ l.ret # None
        /\ r.set = right \cup Run(0, m) /\ r.ret # None
        /\ Monus(pages, free_info.left.end) > 0
        /\ B_PAGES - free_info.left.end = i
    <3>1. l = [set |-> left \cup Run(i, e), ret |-> {i}]
      BY <2>3, <2>5
    <3>2. r = [set |-> right \cup Run(0, m), ret |-> {0}]
      BY <2>3, <2>4, <2>5
    <3> HIDE DEF l, r
    <3>3. l.set = left \cup Run(i, e) /\ l.ret = {i}
      BY <3>1
    <3>4. r.set = right \cup Run(0, m) /\ r.ret = {0}
      BY <3>2
    <3> QED
      BY <2>3, <2>4, <3>3, <3>4 DEF None
  <2>10. 0 \in Nat
    OBVIOUS
  <2> HIDE DEF m, i
  <2>6. /\ left' = left \cup Run(i, e) /\ right' = right \cup Run(0, m)
        /\ refresh /\ ret' = {i}
    BY <2>1, <2>9 DEF AllocateAcross, Return
  <2>7. left' \in SUBSET BuddyPages /\ right' \in SUBSET BuddyPages
    BY <1>1, <1>2, <2>4, <2>6, RunInBuddy
  <2>8. Pages' = Pages \cup Run(i, pages)
    <3>1. Pages' = (Pages \cup Run(i, e)) \cup Run(0 + B_PAGES, m)
      BY <2>4, <2>6, <2>10, PagesAdd
    <3>2. Run(i, e) \cup Run(0 + B_PAGES, m) = Run(i, pages)
      BY <1>1, <2>2, <2>3, <2>4 DEF Run, i, m
    <3> QED
      BY <3>1, <3>2
  <2> QED
    BY <1>4, <1>7, <2>2, <2>4, <2>6, <2>7, <2>8
<1>8. CASE pages \in 1..PAGES /\ ~(pages <= free_info.left.longest) /\ ~FitsAcross(pages)
  <2>1. pages > 0
    BY <1>1, <1>8
  <2>2. \A j \in 0..(B_PAGES - 1) : ~Free(Joined(left, right), PAGES, j, pages)
    BY <1>1, <1>2, <1>8, ExactInfo, RightOnly DEF FitsAcross
  <2>3. Fits(right, B_PAGES, pages) <=> pages <= free_info.right.longest
    BY <1>1, <1>2, ExactInfo, LongestDecides
  <2>4. CASE pages <= free_info.right.longest
    <3> DEFINE i == FirstFit(right, B_PAGES, pages)
    <3>1. AllocateRight(pages) /\ Fits(right, B_PAGES, pages)
      BY <1>8, <2>3, <2>4 DEF allocate
    <3>2. pages \in 1..B_PAGES
      BY <1>1, <2>1, <3>1 DEF Fits, Free
    <3>3. i \in 0..(B_PAGES - 1) /\ IsFirst(Joined(left, right), PAGES, pages, i + B_PAGES)
      BY <1>1, <1>2, <2>1, <2>2, <3>1, RightFirst
    <3>4. i + pages <= B_PAGES
      BY <1>1, <3>1, FirstFitFound DEF IsFirst, Free
    <3>5. /\ right' = right \cup Run(i, pages) /\ left' = left
          /\ refresh /\ ret' = {i + B_PAGES}
      BY <3>1, <3>2 DEF AllocateRight, Allocated, Return, None
    <3> HIDE DEF i
    <3>6. i \in Nat /\ i + B_PAGES \in 0..(PAGES - 1)
      BY <1>1, <3>3
    <3>7. right' \in SUBSET BuddyPages
      BY <1>1, <1>2, <3>4, <3>5, <3>6, RunInBuddy
    <3>8. Pages' = Pages \cup Run(i + B_PAGES, pages)
      <4>1. left' = left \cup Run(0, 0) /\ 0 \in Nat
        BY <3>5, RunEmpty
      <4>2. Pages' = (Pages \cup Run(0, 0)) \cup Run(i + B_PAGES, pages)
        BY <1>1, <3>5, <3>6, <4>1, PagesAdd
      <4> QED
        BY <4>2, RunEmpty
    <3> QED
      BY <1>2, <1>4, <1>8, <3>3, <3>5, <3>6, <3>7, <3>8
  <2>5. CASE ~(pages <= free_info.right.longest)
    <3>1. ReturnNone
      BY <1>8, <2>5 DEF allocate
    <3>2. ~Fits(Pages, PAGES, pages)
      BY <1>1, <1>2, <2>1, <2>2, <2>3, <2>5, RightFirst
    <3> QED
      BY <1>3, <3>1, <3>2
  <2> QED
    BY <2>4, <2>5
<1> QED
  BY <1>5, <1>6, <1>7, <1>8

\* How allocate_fixed splits a range at the seam
LEMMA Split ==
  ASSUME NEW idx \in 0..PAGES, NEW pages \in Nat, pages > 0, idx + pages <= PAGES,
         NEW lp, lp = Min2(Monus(B_PAGES, idx), pages),
         NEW rp, rp = pages - lp,
         NEW ri, ri = Monus(idx, B_PAGES)
  PROVE  /\ lp \in Nat /\ rp \in Nat /\ ri \in Nat /\ idx \in Nat
         /\ lp > 0 => idx + lp <= B_PAGES
         /\ rp > 0 => ri + rp <= B_PAGES
         /\ Run(idx, pages) = Run(idx, lp) \cup Run(ri + B_PAGES, rp)
         /\ lp > 0 \/ rp > 0
<1>1. B_PAGES \in Nat /\ PAGES = B_PAGES + B_PAGES
  BY BPagesAssumption DEF PAGES
<1>2. idx \in Nat
  BY <1>1
<1>3. CASE idx >= B_PAGES
  <2>1. lp = 0 /\ rp = pages /\ ri = idx - B_PAGES
    BY <1>1, <1>2, <1>3 DEF Min2, Monus, Max2
  <2> QED
    BY <1>1, <1>2, <1>3, <2>1 DEF Run
<1>4. CASE idx < B_PAGES /\ idx + pages <= B_PAGES
  <2>1. lp = pages /\ rp = 0 /\ ri = 0
    BY <1>1, <1>2, <1>4 DEF Min2, Monus, Max2
  <2> QED
    BY <1>1, <1>2, <1>4, <2>1 DEF Run
<1>5. CASE idx < B_PAGES /\ idx + pages > B_PAGES
  <2>1. lp = B_PAGES - idx /\ rp = (idx + pages) - B_PAGES /\ ri = 0
    BY <1>1, <1>2, <1>5 DEF Min2, Monus, Max2
  <2> QED
    BY <1>1, <1>2, <1>5, <2>1 DEF Run
<1> QED
  BY <1>1, <1>2, <1>3, <1>4, <1>5

\* A range of the branch meets an allocation exactly if one of its parts does
LEMMA SplitMeets ==
  ASSUME left \in SUBSET BuddyPages, right \in SUBSET BuddyPages,
         NEW idx \in 0..PAGES, NEW pages \in Nat, pages > 0, idx + pages <= PAGES,
         NEW lp, lp = Min2(Monus(B_PAGES, idx), pages),
         NEW rp, rp = pages - lp,
         NEW ri, ri = Monus(idx, B_PAGES)
  PROVE  Run(idx, pages) \cap Pages = {}
           <=> Run(idx, lp) \cap left = {} /\ Run(ri, rp) \cap right = {}
<1>0. /\ lp \in Nat /\ rp \in Nat /\ ri \in Nat /\ idx \in Nat
      /\ lp > 0 => idx + lp <= B_PAGES
      /\ Run(idx, pages) = Run(idx, lp) \cup Run(ri + B_PAGES, rp)
  BY Split
<1>1. B_PAGES \in Nat
  BY BPagesAssumption
<1>2. \A p \in BuddyPages : p \in Int /\ p < B_PAGES /\ p >= 0
  BY <1>1 DEF BuddyPages
<1>3. \A p \in left : p \notin Run(ri + B_PAGES, rp)
  BY <1>0, <1>1, <1>2 DEF Run
<1>4. \A p \in right : p + B_PAGES \notin Run(idx, lp)
  BY <1>0, <1>1, <1>2 DEF Run
<1>5. \A p \in right : p \in Run(ri, rp) <=> p + B_PAGES \in Run(ri + B_PAGES, rp)
  BY <1>0, <1>1, <1>2 DEF Run
<1>6. ASSUME NEW q
      PROVE  q \in Pages <=> q \in left \/ \E p \in right : q = p + B_PAGES
  BY DEF Pages, Joined, Shifted
<1>7. ASSUME Run(idx, pages) \cap Pages = {}
      PROVE  Run(idx, lp) \cap left = {} /\ Run(ri, rp) \cap right = {}
  <2>1. ASSUME NEW p \in right, p \in Run(ri, rp) PROVE FALSE
    <3>1. p + B_PAGES \in Run(idx, pages) /\ p + B_PAGES \in Pages
      BY <1>0, <1>5, <1>6, <2>1
    <3> QED
      BY <1>7, <3>1
  <2>2. ASSUME NEW p \in left, p \in Run(idx, lp) PROVE FALSE
    <3>1. p \in Run(idx, pages) /\ p \in Pages
      BY <1>0, <1>6, <2>2
    <3> QED
      BY <1>7, <3>1
  <2> QED
    BY <2>1, <2>2
<1>8. ASSUME Run(idx, lp) \cap left = {}, Run(ri, rp) \cap right = {},
             NEW q \in Run(idx, pages), q \in Pages
      PROVE  FALSE
  BY <1>0, <1>3, <1>4, <1>5, <1>6, <1>8
<1> QED
  BY <1>7, <1>8

\* allocate_fixed takes all of the range or nothing
LEMMA FixedStep ==
  ASSUME BranchInv, NEW idx \in 0..PAGES, NEW pages \in 0..(PAGES + 1),
         NEW replace \in BOOLEAN, allocate_fixed(idx, pages, replace)
  PROVE  BranchInv' /\ Allocator!AllocateFixed(idx, pages, replace)
<1> DEFINE A == AllocatedFixed(Pages, PAGES, idx, pages, replace)
<1>1. /\ B_PAGES \in Nat /\ B_PAGES > 0
      /\ PAGES = B_PAGES + B_PAGES /\ PAGES \in Nat /\ pages \in Nat /\ idx \in Nat
  BY BPagesAssumption DEF PAGES
<1>2. /\ left \in SUBSET BuddyPages /\ right \in SUBSET BuddyPages
  BY DEF BranchInv, TypeOK, BuddyPages
<1> SUFFICES BranchInv' /\ Pages' = A.set /\ ret' = A.ret
  BY DEF Allocator!AllocateFixed, Allocator!AllocatedFixed, Allocator!Run, Allocator!None,
         AllocatedFixed, Run, None
<1>3. ASSUME ret' = None, UNCHANGED <<left, right, free_info>>,
             ~(/\ pages > 0 /\ idx + pages <= PAGES
               /\ replace \/ Run(idx, pages) \cap Pages = {})
      PROVE  BranchInv' /\ Pages' = A.set /\ ret' = A.ret
  <2>1. A.set = Pages /\ A.ret = None
    BY <1>3 DEF AllocatedFixed
  <2>2. BranchInv' /\ Pages' = Pages
    BY <1>3, NothingKeeps
  <2> QED
    BY <1>3, <2>1, <2>2
<1>4. (pages = 0 \/ pages > Monus(PAGES, idx)) <=> ~(pages > 0 /\ idx + pages <= PAGES)
  BY <1>1 DEF Monus, Max2
<1>5. CASE ~(pages > 0 /\ idx + pages <= PAGES)
  <2>1. ReturnNone
    BY <1>4, <1>5 DEF allocate_fixed
  <2> QED
    BY <1>3, <1>5, <2>1 DEF ReturnNone, Return
<1>6. CASE pages > 0 /\ idx + pages <= PAGES
  <2> DEFINE lp == Min2(Monus(B_PAGES, idx), pages)
             rp == pages - lp
             ri == Monus(idx, B_PAGES)
             l == AllocatedFixed(left, B_PAGES, idx, lp, replace)
             r == AllocatedFixed(right, B_PAGES, ri, rp, replace)
  <2>1. /\ lp \in Nat /\ rp \in Nat /\ ri \in Nat
        /\ lp > 0 => idx + lp <= B_PAGES
        /\ rp > 0 => ri + rp <= B_PAGES
        /\ Run(idx, pages) = Run(idx, lp) \cup Run(ri + B_PAGES, rp)
    BY <1>1, <1>6, Split
  <2>2. /\ l.ret = None <=> ~(lp > 0 /\ idx + lp <= B_PAGES /\ (replace \/ Run(idx, lp) \cap left = {}))
        /\ l.ret # None => l.set = left \cup Run(idx, lp)
    BY DEF AllocatedFixed, None
  <2>3. /\ r.ret = None <=> ~(rp > 0 /\ ri + rp <= B_PAGES /\ (replace \/ Run(ri, rp) \cap right = {}))
        /\ r.ret # None => r.set = right \cup Run(ri, rp)
    BY DEF AllocatedFixed, None
  <2>4. Run(idx, pages) \cap Pages = {}
           <=> Run(idx, lp) \cap left = {} /\ Run(ri, rp) \cap right = {}
    BY <1>1, <1>2, <1>6, SplitMeets
  <2>5. IF lp > 0 /\ l.ret = None
        THEN ReturnNone
        ELSE IF rp > 0 /\ r.ret = None
        THEN /\ left' = IF lp > 0 THEN Deallocated(l.set, B_PAGES, idx, lp) ELSE left
             /\ UNCHANGED <<right, free_info>> /\ ret' = None
        ELSE /\ left' = IF lp > 0 THEN l.set ELSE left
             /\ right' = IF rp > 0 THEN r.set ELSE right
             /\ refresh /\ ret' = {idx}
    BY <1>4, <1>6 DEF allocate_fixed, Return
  <2>6. /\ lp = 0 => Run(idx, lp) = {}
        /\ rp = 0 => Run(ri, rp) = {}
    BY <1>1, <2>1, RunEmpty
  <2>7. (lp > 0 \/ lp = 0) /\ (rp > 0 \/ rp = 0)
    BY <2>1
  <2> HIDE DEF lp, rp, ri, l, r
  <2>8. CASE lp > 0 /\ l.ret = None
    <3>1. ~(replace \/ Run(idx, pages) \cap Pages = {})
      BY <2>1, <2>2, <2>4, <2>8
    <3> QED
      BY <1>3, <2>5, <2>8, <3>1 DEF ReturnNone, Return
  <2>9. CASE ~(lp > 0 /\ l.ret = None) /\ rp > 0 /\ r.ret = None
    <3>1. ~(replace \/ Run(idx, pages) \cap Pages = {})
      BY <2>1, <2>3, <2>4, <2>9
    <3>2. /\ left' = IF lp > 0 THEN Deallocated(l.set, B_PAGES, idx, lp) ELSE left
          /\ UNCHANGED <<right, free_info>> /\ ret' = None
      BY <2>5, <2>9
    <3>3. left' = left
      <4>1. CASE lp > 0
        <5>1. l.set = left \cup Run(idx, lp) /\ Run(idx, lp) \cap left = {}
          BY <2>2, <2>9, <3>1, <4>1
        <5>2. left' = l.set \ Run(idx, lp)
          BY <2>1, <3>2, <4>1 DEF Deallocated
        <5> QED
          BY <5>1, <5>2
      <4> QED
        BY <2>7, <3>2, <4>1
    <3> QED
      BY <1>3, <3>1, <3>2, <3>3
  <2>10. CASE ~(lp > 0 /\ l.ret = None) /\ ~(rp > 0 /\ r.ret = None)
    <3>1. /\ left' = IF lp > 0 THEN l.set ELSE left
          /\ right' = IF rp > 0 THEN r.set ELSE right
          /\ refresh /\ ret' = {idx}
      BY <2>5, <2>10
    <3>2. left' = left \cup Run(idx, lp)
      BY <2>2, <2>6, <2>7, <2>10, <3>1
    <3>3. right' = right \cup Run(ri, rp)
      BY <2>3, <2>6, <2>7, <2>10, <3>1
    <3>4. Pages' = Pages \cup Run(idx, pages)
      <4>1. Pages' = (Pages \cup Run(idx, lp)) \cup Run(ri + B_PAGES, rp)
        BY <1>1, <2>1, <3>2, <3>3, PagesAdd
      <4> QED
        BY <2>1, <4>1
    <3>5. replace \/ Run(idx, pages) \cap Pages = {}
      BY <2>2, <2>3, <2>4, <2>6, <2>7, <2>10
    <3>6. A.set = Pages \cup Run(idx, pages) /\ A.ret = {idx}
      BY <1>6, <3>5 DEF AllocatedFixed
    <3>7. idx \in 0..(PAGES - 1)
      BY <1>1, <1>6
    <3>8. Run(idx, lp) \subseteq BuddyPages /\ Run(ri, rp) \subseteq BuddyPages
      BY <1>1, <2>1, <2>6, <2>7, RunInBuddy
    <3>9. left' \in SUBSET BuddyPages /\ right' \in SUBSET BuddyPages
      BY <1>2, <3>2, <3>3, <3>8
    <3>10. BranchInv'
      BY <3>1, <3>7, <3>9, RefreshKeeps
    <3> QED
      BY <3>1, <3>4, <3>6, <3>10
  <2> QED
    BY <2>8, <2>9, <2>10
<1> QED
  BY <1>5, <1>6

\* Freeing a range inside the area removes it
LEMMA DeallocatedRange ==
  ASSUME NEW S, NEW n \in Nat, NEW i \in Nat, NEW k \in Nat, k > 0 => i + k <= n
  PROVE  Deallocated(S, n, i, k) = S \ Run(i, k)
BY RunEmpty DEF Deallocated

\* deallocate frees the range, whichever buddies it lies in
LEMMA DeallocateStep ==
  ASSUME BranchInv, NEW idx \in 0..PAGES, NEW pages \in 0..(PAGES + 1),
         deallocate(idx, pages)
  PROVE  BranchInv' /\ Allocator!Deallocate(idx, pages)
<1>1. /\ B_PAGES \in Nat /\ B_PAGES > 0
      /\ PAGES = B_PAGES + B_PAGES /\ PAGES \in Nat /\ pages \in Nat /\ idx \in Nat
      /\ idx + pages <= PAGES
  BY BPagesAssumption DEF PAGES, deallocate
<1>2. /\ left \in SUBSET BuddyPages /\ right \in SUBSET BuddyPages
  BY DEF BranchInv, TypeOK, BuddyPages
<1>3. refresh /\ ret' = None
  BY DEF deallocate, Return
<1> SUFFICES /\ left' \in SUBSET BuddyPages /\ right' \in SUBSET BuddyPages
             /\ Pages' = Pages \ Run(idx, pages)
  <2>1. Deallocated(Pages, PAGES, idx, pages) = Pages \ Run(idx, pages)
    BY <1>1, DeallocatedRange
  <2> QED
    BY <1>1, <1>3, <2>1, RefreshKeeps
       DEF Allocator!Deallocate, Allocator!Deallocated, Allocator!Run, Allocator!None,
           Deallocated, Run, None
<1>4. CASE idx >= B_PAGES
  <2> DEFINE j == idx - B_PAGES
  <2>1. j \in Nat /\ j + pages <= B_PAGES /\ j + B_PAGES = idx /\ 0 \in Nat /\ 0 + 0 <= B_PAGES
    BY <1>1, <1>4
  <2>2. right' = Deallocated(right, B_PAGES, j, pages) /\ left' = left
    BY <1>4 DEF deallocate
  <2> HIDE DEF j
  <2>3. right' = right \ Run(j, pages)
    BY <1>1, <2>1, <2>2, DeallocatedRange
  <2>4. left' = left \ Run(0, 0)
    BY <2>1, <2>2, RunEmpty
  <2>5. Pages' = (Pages \ Run(0, 0)) \ Run(j + B_PAGES, pages)
    BY <1>1, <1>2, <2>1, <2>3, <2>4, PagesRemove
  <2> QED
    BY <1>2, <2>1, <2>2, <2>3, <2>5, RunEmpty
<1>5. CASE ~(idx >= B_PAGES)
  <2> DEFINE over == Monus(idx + pages, B_PAGES)
             lp == pages - over
  <2>1. /\ over \in Nat /\ lp \in Nat /\ idx + lp <= B_PAGES /\ 0 + over <= B_PAGES
        /\ Run(idx, pages) = Run(idx, lp) \cup Run(0 + B_PAGES, over) /\ 0 \in Nat
    <3>1. CASE idx + pages <= B_PAGES
      <4>1. over = 0 /\ lp = pages
        BY <1>1, <3>1 DEF Monus, Max2
      <4> QED
        BY <1>1, <3>1, <4>1 DEF Run
    <3>2. CASE ~(idx + pages <= B_PAGES)
      <4>1. over = (idx + pages) - B_PAGES /\ lp = B_PAGES - idx
        BY <1>1, <3>2 DEF Monus, Max2
      <4> QED
        BY <1>1, <1>5, <3>2, <4>1 DEF Run
    <3> QED
      BY <3>1, <3>2
  <2>2. /\ right' = Deallocated(right, B_PAGES, 0, over)
        /\ left' = Deallocated(left, B_PAGES, idx, lp)
    BY <1>5 DEF deallocate
  <2> HIDE DEF over, lp
  <2>3. right' = right \ Run(0, over)
    BY <1>1, <2>1, <2>2, DeallocatedRange
  <2>4. left' = left \ Run(idx, lp)
    BY <1>1, <2>1, <2>2, DeallocatedRange
  <2>5. Pages' = (Pages \ Run(idx, lp)) \ Run(0 + B_PAGES, over)
    BY <1>1, <1>2, <2>1, <2>3, <2>4, PagesRemove
  <2> QED
    BY <1>2, <2>1, <2>3, <2>4, <2>5
<1> QED
  BY <1>4, <1>5

-----------------------------------------------------------------------------
(* The theorems *)

\* A new branch says that everything is free, and it is
LEMMA InitInv ==
  ASSUME Init
  PROVE  BranchInv
<1>1. B_PAGES \in Nat /\ B_PAGES \in 0..B_PAGES /\ 0 \in 0..B_PAGES
  BY BPagesAssumption
<1>2. Free({}, B_PAGES, 0, B_PAGES) /\ B_PAGES - B_PAGES = 0
  BY <1>1 DEF Free
<1>3. IsLongest({}, B_PAGES, B_PAGES)
  <2>1. Fits({}, B_PAGES, B_PAGES)
    BY <1>1, <1>2 DEF Fits
  <2>2. (B_PAGES + 1)..B_PAGES = {}
    BY <1>1
  <2> QED
    BY <2>1, <2>2 DEF IsLongest
<1>4. IsFreeStart({}, B_PAGES, B_PAGES) /\ IsFreeEnd({}, B_PAGES, B_PAGES)
  BY <1>1, <1>2 DEF IsFreeStart, IsFreeEnd
<1>5. /\ LongestFree({}, B_PAGES) = B_PAGES
      /\ FreeStart({}, B_PAGES) = B_PAGES
      /\ FreeEnd({}, B_PAGES) = B_PAGES
  BY <1>1, <1>3, <1>4, LongestFound, FreeStartFound, FreeEndFound
<1>6. InfoExact
  BY <1>5 DEF Init, InfoExact, Counts
<1>7. TypeOK
  BY DEF Init, TypeOK
<1> QED
  BY <1>6, <1>7 DEF BranchInv

\* Every operation keeps the counts exact and is an operation of the
\* allocator of all the branch's pages
LEMMA StepRefines ==
  ASSUME BranchInv, [Next]_vars
  PROVE  BranchInv' /\ [Allocator!Next]_<<Pages, ret>>
<1>1. CASE \E pages \in 0..(PAGES + 1) : allocate(pages)
  BY <1>1, AllocateStep DEF Allocator!Next
<1>2. CASE \E idx \in 0..PAGES, pages \in 0..(PAGES + 1) :
             \E replace \in BOOLEAN : allocate_fixed(idx, pages, replace)
  BY <1>2, FixedStep DEF Allocator!Next
<1>3. CASE \E idx \in 0..PAGES, pages \in 0..(PAGES + 1) : deallocate(idx, pages)
  BY <1>3, DeallocateStep DEF Allocator!Next
<1>4. CASE UNCHANGED vars
  BY <1>4 DEF vars, BranchInv, TypeOK, InfoExact, Pages
<1> QED
  BY <1>1, <1>2, <1>3, <1>4 DEF Next

\* The invariant holds in every reachable state, whatever the size of the
\* buddies
THEOREM BranchInvariant == Spec => []BranchInv
<1>1. Init => BranchInv
  BY InitInv
<1>2. BranchInv /\ [Next]_vars => BranchInv'
  BY StepRefines
<1> QED
  BY <1>1, <1>2, PTL DEF Spec

\* A FreeInfo always tells the truth about the two buddies
THEOREM CountsExact == Spec => []InfoExact
<1>1. BranchInv => InfoExact
  BY DEF BranchInv
<1> QED
  BY <1>1, BranchInvariant, PTL

LEMMA BranchExact == BranchInv => QueriesExact
<1> SUFFICES ASSUME BranchInv PROVE QueriesExact
  OBVIOUS
<1>1. left \in SUBSET BuddyPages /\ right \in SUBSET BuddyPages /\ InfoExact
  BY DEF BranchInv, TypeOK, BuddyPages
<1>2. longest_free_sequence = LongestFree(Pages, PAGES)
  BY <1>1, ExactInfo, LongestJoined DEF longest_free_sequence, Pages
<1>3. count_free_start = FreeStart(Pages, PAGES)
  BY <1>1, ExactInfo, StartJoined DEF count_free_start, Pages
<1>4. count_free_end = FreeEnd(Pages, PAGES)
  BY <1>1, ExactInfo, EndJoined DEF count_free_end, Pages
<1> QED
  BY <1>2, <1>3, <1>4 DEF QueriesExact

\* What a branch reports to the branch above it is exact, so that the branch
\* may itself be one of two buddies
THEOREM ReportsExact == Spec => []QueriesExact
<1> QED
  BY BranchExact, BranchInvariant, PTL

\* Each call of the branch is the same call of the allocator
LEMMA CallRefines ==
  ASSUME BranchInv
  PROVE  CallsMatch
<1>1. \A pages \in 0..(PAGES + 1) : allocate(pages) => Allocator!Allocate(pages)
  BY AllocateStep
<1>2. \A idx \in 0..PAGES, pages \in 0..(PAGES + 1) : \A replace \in BOOLEAN :
        allocate_fixed(idx, pages, replace) => Allocator!AllocateFixed(idx, pages, replace)
  BY FixedStep
<1>3. \A idx \in 0..PAGES, pages \in 0..(PAGES + 1) :
        deallocate(idx, pages) => Allocator!Deallocate(idx, pages)
  BY DeallocateStep
<1> QED
  BY <1>1, <1>2, <1>3 DEF CallsMatch

\* Two buddies under a branch are one allocator of twice the size
THEOREM BranchIsAllocator == Spec => ImplementsAllocator
<1>1. Init => Allocator!Init
  BY DEF Init, Allocator!Init, Pages, Joined, Shifted, None, Allocator!None
<1>2. BranchInv /\ [Next]_vars => [Allocator!Next]_<<Pages, ret>>
  BY StepRefines
<1>3. BranchInv /\ [Next]_vars => [CallsMatch]_vars
  BY CallRefines
<1> QED
  BY <1>1, <1>2, <1>3, BranchInvariant, PTL DEF Spec, ImplementsAllocator, Allocator!Spec

-----------------------------------------------------------------------------
(* A leaf of as many pages, given the same calls: MCBuddy *)

\* The leaf has the pages and the result of the branch
Alike == BranchInv /\ LeafTypeOK /\ leaf_set = Pages /\ leaf_ret = ret

LEMMA SizesAre == SameSize => LEAF_PAGES = PAGES /\ BITS = PAGES /\ PAGES \in Nat
BY BPagesAssumption DEF PAGES, SameSize

\* The leaf's word has no bits but its pages
LEMMA LeafPagesAre == SameSize /\ LeafTypeOK => leaf_set = LeafPages
BY SizesAre DEF LeafTypeOK, LeafPages

\* The operators of PageRuns are the same under both
LEMMA SameRuns ==
  ASSUME NEW S, NEW n, NEW i, NEW k
  PROVE  /\ LeafAllocator!Allocated(S, n, k) = Allocator!Allocated(S, n, k)
         /\ LeafAllocator!AllocatedFixed(S, n, i, k, TRUE) = Allocator!AllocatedFixed(S, n, i, k, TRUE)
         /\ LeafAllocator!AllocatedFixed(S, n, i, k, FALSE) = Allocator!AllocatedFixed(S, n, i, k, FALSE)
         /\ LeafAllocator!Deallocated(S, n, i, k) = Allocator!Deallocated(S, n, i, k)
<1>1. \A j, m : LeafAllocator!Run(j, m) = Allocator!Run(j, m)
  BY DEF LeafAllocator!Run, Allocator!Run
<1>2. LeafAllocator!None = Allocator!None
  BY DEF LeafAllocator!None, Allocator!None
<1>3. LeafAllocator!Allocated(S, n, k) = Allocator!Allocated(S, n, k)
  BY DEF LeafAllocator!Allocated, Allocator!Allocated, LeafAllocator!Free, Allocator!Free,
         LeafAllocator!Fits, Allocator!Fits, LeafAllocator!IsFirst, Allocator!IsFirst,
         LeafAllocator!FirstFit, Allocator!FirstFit, LeafAllocator!None, Allocator!None,
         LeafAllocator!Run, Allocator!Run
<1> QED
  BY <1>1, <1>2, <1>3 DEF LeafAllocator!AllocatedFixed, Allocator!AllocatedFixed,
                          LeafAllocator!Deallocated, Allocator!Deallocated

LEMMA AlikeInit == MCInit => Alike
<1> SUFFICES ASSUME MCInit PROVE Alike
  OBVIOUS
<1>1. BranchInv
  BY InitInv DEF MCInit
<1>2. left = {} /\ right = {} /\ ret = {} /\ leaf_set = {} /\ leaf_ret = {}
  BY DEF MCInit, Init, LeafInit, None
<1>3. Pages = {}
  BY <1>2 DEF Pages, Joined, Shifted
<1>4. LeafTypeOK
  BY <1>2 DEF LeafTypeOK, None
<1> QED
  BY <1>1, <1>2, <1>3, <1>4 DEF Alike

LEMMA AlikeStep == SameSize /\ Alike /\ [MCNext]_<<vars, leaf_vars>> => Alike'
<1> SUFFICES ASSUME SameSize, Alike, [MCNext]_<<vars, leaf_vars>> PROVE Alike'
  OBVIOUS
<1>0. BranchInv /\ LeafTypeOK /\ leaf_set = Pages /\ leaf_ret = ret /\ LeafPages = Pages
  BY LeafPagesAre DEF Alike
<1>1. LeafTypeOK' => leaf_set' = LeafPages'
  BY SizesAre DEF LeafTypeOK, LeafPages
<1>2. ASSUME NEW pages \in 0..(PAGES + 1), allocate(pages), leaf_allocate(pages)
      PROVE  Alike'
  <2>1. BranchInv' /\ Allocator!Allocate(pages)
    BY <1>0, <1>2, AllocateStep
  <2>2. LeafTypeOK' /\ LeafAllocator!Allocate(pages)
    BY <1>0, <1>2, SizesAre, LeafAllocateStep
  <2>3. LeafPages' = Pages' /\ leaf_ret' = ret'
    BY <2>1, <2>2, <1>0, SameRuns, SizesAre DEF Allocator!Allocate, LeafAllocator!Allocate
  <2> QED
    BY <2>1, <2>2, <2>3, <1>1 DEF Alike
<1>3. ASSUME NEW idx \in 0..PAGES, NEW pages \in 0..(PAGES + 1), NEW replace \in BOOLEAN,
             allocate_fixed(idx, pages, replace), leaf_allocate_fixed(idx, pages, replace)
      PROVE  Alike'
  <2>1. BranchInv' /\ Allocator!AllocateFixed(idx, pages, replace)
    BY <1>0, <1>3, FixedStep
  <2>2. LeafTypeOK' /\ LeafAllocator!AllocateFixed(idx, pages, replace)
    BY <1>0, <1>3, SizesAre, LeafFixedStep
  <2>3. LeafPages' = Pages' /\ leaf_ret' = ret'
    BY <2>1, <2>2, <1>0, SameRuns, SizesAre DEF Allocator!AllocateFixed, LeafAllocator!AllocateFixed
  <2> QED
    BY <2>1, <2>2, <2>3, <1>1 DEF Alike
<1>4. ASSUME NEW idx \in 0..PAGES, NEW pages \in 0..(PAGES + 1),
             deallocate(idx, pages), leaf_deallocate(idx, pages)
      PROVE  Alike'
  <2>1. BranchInv' /\ Allocator!Deallocate(idx, pages)
    BY <1>0, <1>4, DeallocateStep
  <2>2. LeafTypeOK' /\ LeafAllocator!Deallocate(idx, pages)
    BY <1>0, <1>4, SizesAre, LeafDeallocateStep
  <2>3. LeafPages' = Pages' /\ leaf_ret' = ret'
    BY <2>1, <2>2, <1>0, SameRuns, SizesAre
    DEF Allocator!Deallocate, LeafAllocator!Deallocate, Allocator!None, LeafAllocator!None
  <2> QED
    BY <2>1, <2>2, <2>3, <1>1 DEF Alike
<1>5. CASE UNCHANGED <<vars, leaf_vars>>
  BY <1>5, <1>0 DEF Alike, vars, leaf_vars, BranchInv, TypeOK, InfoExact, Pages, LeafTypeOK
<1> QED
  BY <1>2, <1>3, <1>4, <1>5 DEF MCNext

\* Equal pages and exact reports on both sides give equal reports
LEMMA AlikeReports == SameSize /\ Alike => LeafAsBranch
<1> SUFFICES ASSUME SameSize, Alike PROVE LeafAsBranch
  OBVIOUS
<1>0. BranchInv /\ LeafTypeOK /\ leaf_set = Pages /\ leaf_ret = ret
  BY DEF Alike
<1>1. /\ leaf_longest_free_sequence = LongestFree(leaf_set, PAGES)
      /\ leaf_count_free_start = FreeStart(leaf_set, PAGES)
      /\ leaf_count_free_end = FreeEnd(leaf_set, PAGES)
  BY <1>0, SizesAre, LeafLongestIs, LeafEndsAre
<1>2. QueriesExact
  BY <1>0, BranchExact
<1> QED
  BY <1>0, <1>1, <1>2, SizesAre DEF LeafAsBranch, QueriesExact

\* Given the same calls, a leaf (leaf.rs) and a branch (branch.rs) of as many
\* pages, whatever their number, have allocated the same pages, returned the
\* same and report the same free runs: a tree may be built of either
THEOREM LeafIsAsBranch == SameSize => (MCSpec => []LeafAsBranch)
<1> SUFFICES ASSUME SameSize PROVE MCSpec => []LeafAsBranch
  OBVIOUS
<1>1. MCInit => Alike
  BY AlikeInit
<1>2. Alike /\ [MCNext]_<<vars, leaf_vars>> => Alike'
  BY AlikeStep
<1>3. Alike => LeafAsBranch
  BY AlikeReports
<1> QED
  BY <1>1, <1>2, <1>3, PTL DEF MCSpec
===============================================================================
