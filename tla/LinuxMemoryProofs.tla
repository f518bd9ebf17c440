------------------------- MODULE LinuxMemoryProofs --------------------------
(***************************************************************************)
(* Proofs about the memory of a Linux process, for memories of any number  *)
(* of pages of any size, every program that LinuxAssumption describes, and *)
(* every address, length and permission of the calls.                      *)
(*                                                                         *)
(* MemInv is inductive: besides the two invariants it says that what the   *)
(* process holds is allocated, without which mmap could hand it out again. *)
(* The arithmetic is in two facts about ranges: the pages the allocator    *)
(* counts are among those the permissions count (RunTouched), and are the  *)
(* same ones when the address is that of a page (TouchedAligned).          *)
(***************************************************************************)
EXTENDS LinuxMemory, WellFoundedInduction, TLAPS

\* A non-empty set of numbers has a least one
LEMMA Least ==
  ASSUME NEW T \in SUBSET Nat, T # {}
  PROVE  \E x \in T : \A y \in T : x <= y
<1> DEFINE Less == {ss \in Nat \X Nat : ss[1] < ss[2]}
<1>1. IsWellFoundedOn(Less, Nat)
  BY NatLessThanWellFounded DEF OpToRel
<1>2. \A y, x \in Nat : <<y, x>> \in Less <=> y < x
  OBVIOUS
<1> HIDE DEF Less
<1>3. PICK x \in T : \A y \in T : ~(<<y, x>> \in Less)
  BY <1>1, WFMin
<1>4. T \subseteq Nat
  OBVIOUS
<1>5. \A y \in T : ~(y < x)
  BY <1>2, <1>3, <1>4
<1>6. \A y \in T : x <= y
  BY <1>4, <1>5
<1> QED
  BY <1>6

\* Arithmetic of pages, of any size
LEMMA Times ==
  ASSUME NEW s \in Nat, NEW a \in Int, NEW b \in Int
  PROVE  /\ a * s \in Int
         /\ (a + b) * s = a * s + b * s
         /\ (a - b) * s = a * s - b * s
         /\ a <= b => a * s <= b * s
OBVIOUS

\* A smaller multiple belongs to a smaller factor
LEMMA Cancel ==
  ASSUME NEW s \in Nat \ {0}, NEW a \in Int, NEW b \in Int, a * s < b * s
  PROVE  a < b
OBVIOUS

LEMMA PageBounds ==
  ASSUME NEW a \in Nat
  PROVE  /\ PageOf(a) \in Nat
         /\ PageOf(a) * PAGE_SIZE \in Nat
         /\ PageOf(a) * PAGE_SIZE <= a
         /\ a < PageOf(a) * PAGE_SIZE + PAGE_SIZE
BY MemoryAssumption DEF PageOf

LEMMA CeilBounds ==
  ASSUME NEW l \in Nat
  PROVE  /\ div_ceil(l) \in Nat
         /\ div_ceil(l) * PAGE_SIZE \in Nat
         /\ l <= div_ceil(l) * PAGE_SIZE
         /\ div_ceil(l) * PAGE_SIZE < l + PAGE_SIZE
         /\ l = 0 => div_ceil(l) = 0
         /\ l # 0 => div_ceil(l) > 0
BY MemoryAssumption DEF div_ceil

\* A page holds the bytes from its first one on
LEMMA PageUnique ==
  ASSUME NEW q \in Int, NEW a \in Nat, q * PAGE_SIZE <= a, a < q * PAGE_SIZE + PAGE_SIZE
  PROVE  PageOf(a) = q
<1> DEFINE p == PageOf(a)
<1>1. p \in Nat /\ p * PAGE_SIZE <= a /\ a < p * PAGE_SIZE + PAGE_SIZE
  BY PageBounds
<1> HIDE DEF p
<1>2. (p + 1) * PAGE_SIZE = p * PAGE_SIZE + PAGE_SIZE /\ (q + 1) * PAGE_SIZE = q * PAGE_SIZE + PAGE_SIZE
  BY <1>1, MemoryAssumption
<1>3. p * PAGE_SIZE \in Int /\ q * PAGE_SIZE \in Int /\ PAGE_SIZE \in Nat \ {0}
  BY <1>1, MemoryAssumption
<1>4. p * PAGE_SIZE < (q + 1) * PAGE_SIZE /\ q * PAGE_SIZE < (p + 1) * PAGE_SIZE
  BY <1>1, <1>2, <1>3
<1>5. p < q + 1 /\ q < p + 1
  BY <1>1, <1>3, <1>4, Cancel
<1> QED
  BY <1>1, <1>5 DEF p

\* The pages of a run hold the bytes from its first page on
LEMMA BytesOfRun ==
  ASSUME NEW q \in Nat, NEW k \in Nat, NEW a \in Nat
  PROVE  PageOf(a) \in Run(q, k) <=> q * PAGE_SIZE <= a /\ a < q * PAGE_SIZE + k * PAGE_SIZE
<1> DEFINE p == PageOf(a)
<1>1. p \in Nat /\ p * PAGE_SIZE <= a /\ a < p * PAGE_SIZE + PAGE_SIZE
  BY PageBounds
<1> HIDE DEF p
<1>2. /\ (p + 1) * PAGE_SIZE = p * PAGE_SIZE + PAGE_SIZE
      /\ (q + k) * PAGE_SIZE = q * PAGE_SIZE + k * PAGE_SIZE
      /\ p * PAGE_SIZE \in Int /\ q * PAGE_SIZE \in Int /\ k * PAGE_SIZE \in Int
      /\ PAGE_SIZE \in Nat \ {0}
  BY <1>1, MemoryAssumption
<1>3. ASSUME q <= p, p < q + k
      PROVE  q * PAGE_SIZE <= a /\ a < q * PAGE_SIZE + k * PAGE_SIZE
  <2>1. q * PAGE_SIZE <= p * PAGE_SIZE
    BY <1>1, <1>2, <1>3, Times
  <2>2. (p + 1) * PAGE_SIZE <= (q + k) * PAGE_SIZE
    BY <1>1, <1>2, <1>3, Times
  <2> QED
    BY <1>1, <1>2, <2>1, <2>2
<1>4. ASSUME q * PAGE_SIZE <= a, a < q * PAGE_SIZE + k * PAGE_SIZE
      PROVE  q <= p /\ p < q + k
  <2>1. q * PAGE_SIZE < (p + 1) * PAGE_SIZE
    BY <1>1, <1>2, <1>4
  <2>2. p * PAGE_SIZE < (q + k) * PAGE_SIZE
    BY <1>1, <1>2, <1>4
  <2> QED
    BY <1>1, <1>2, <2>1, <2>2, Cancel
<1>5. p \in Run(q, k) <=> q <= p /\ p < q + k
  BY <1>1 DEF Run
<1> QED
  BY <1>3, <1>4, <1>5 DEF p

\* The pages the allocator takes or gives back are among those that change
\* their permissions ...
LEMMA RunTouched ==
  ASSUME NEW a \in Nat, NEW l \in Nat
  PROVE  Run(PageOf(a), div_ceil(l)) \subseteq Touched(a, l)
<1>1. CASE l = 0
  BY <1>1, CeilBounds, PageBounds DEF Run
<1>2. CASE l # 0
  <2> DEFINE q == PageOf(a)  c == div_ceil(l)  e == PageOf(a + l - 1)
  <2>1. a + l - 1 \in Nat
    BY <1>2
  <2>2. /\ q \in Nat /\ q * PAGE_SIZE \in Nat /\ q * PAGE_SIZE <= a
        /\ e \in Nat /\ e * PAGE_SIZE \in Nat /\ a + l - 1 < e * PAGE_SIZE + PAGE_SIZE
    BY <2>1, PageBounds
  <2>3. c \in Nat /\ c * PAGE_SIZE \in Nat /\ c * PAGE_SIZE < l + PAGE_SIZE
    BY CeilBounds
  <2> HIDE DEF q, c, e
  <2>4. /\ (q + c - 1) * PAGE_SIZE = q * PAGE_SIZE + c * PAGE_SIZE - PAGE_SIZE
        /\ (e + 1) * PAGE_SIZE = e * PAGE_SIZE + PAGE_SIZE
        /\ PAGE_SIZE \in Nat \ {0}
    BY <2>2, <2>3, MemoryAssumption
  <2>5. (q + c - 1) * PAGE_SIZE < (e + 1) * PAGE_SIZE
    BY <2>2, <2>3, <2>4
  <2>6. q + c - 1 < e + 1
    BY <2>2, <2>3, <2>4, <2>5, Cancel
  <2>7. Run(q, c) \subseteq q..e
    BY <2>2, <2>3, <2>6 DEF Run
  <2> QED
    BY <1>2, <2>7 DEF q, c, e, Touched
<1> QED
  BY <1>1, <1>2

\* ... and the same pages if the address is that of a page
LEMMA TouchedAligned ==
  ASSUME NEW q \in Nat, NEW l \in Nat
  PROVE  Touched(q * PAGE_SIZE, l) = Run(q, div_ceil(l))
<1>1. q * PAGE_SIZE \in Nat /\ PAGE_SIZE \in Nat \ {0}
  BY MemoryAssumption
<1>2. PageOf(q * PAGE_SIZE) = q
  BY <1>1, PageUnique
<1>3. CASE l = 0
  BY <1>3, CeilBounds DEF Run, Touched
<1>4. CASE l # 0
  <2> DEFINE b == q * PAGE_SIZE + l - 1
  <2>1. b \in Nat /\ q * PAGE_SIZE <= b
    BY <1>1, <1>4
  <2>2. div_ceil(l) \in Nat /\ div_ceil(l) * PAGE_SIZE \in Nat /\ l <= div_ceil(l) * PAGE_SIZE
    BY CeilBounds
  <2>3. b < q * PAGE_SIZE + div_ceil(l) * PAGE_SIZE
    BY <1>1, <2>2
  <2>4. PageOf(b) \in Run(q, div_ceil(l))
    BY <2>1, <2>2, <2>3, BytesOfRun
  <2>5. Touched(q * PAGE_SIZE, l) = q..PageOf(b)
    BY <1>2, <1>4 DEF Touched
  <2>6. Run(q, div_ceil(l)) \subseteq q..PageOf(b)
    BY <1>1, <1>2, <2>5, RunTouched
  <2>7. q..PageOf(b) \subseteq Run(q, div_ceil(l))
    BY <2>1, <2>2, <2>4, PageBounds DEF Run
  <2> QED
    BY <2>5, <2>6, <2>7
<1> QED
  BY <1>3, <1>4

LEMMA PageMono ==
  ASSUME NEW a \in Nat, NEW b \in Nat, a <= b
  PROVE  PageOf(a) <= PageOf(b)
<1> DEFINE p == PageOf(a)  q == PageOf(b)
<1>1. /\ p \in Nat /\ p * PAGE_SIZE \in Nat /\ p * PAGE_SIZE <= a
      /\ q \in Nat /\ q * PAGE_SIZE \in Nat /\ b < q * PAGE_SIZE + PAGE_SIZE
  BY PageBounds
<1> HIDE DEF p, q
<1>2. (q + 1) * PAGE_SIZE = q * PAGE_SIZE + PAGE_SIZE /\ PAGE_SIZE \in Nat \ {0}
  BY <1>1, MemoryAssumption
<1>3. p * PAGE_SIZE < (q + 1) * PAGE_SIZE
  BY <1>1, <1>2
<1>4. p < q + 1
  BY <1>1, <1>2, <1>3, Cancel
<1> QED
  BY <1>1, <1>4 DEF p, q

\* Whole pages need no rounding
LEMMA CeilMultiple ==
  ASSUME NEW k \in Nat
  PROVE  div_ceil(k * PAGE_SIZE) = k
<1>1. k * PAGE_SIZE \in Nat /\ PAGE_SIZE \in Nat \ {0}
  BY MemoryAssumption
<1>2. k * PAGE_SIZE + PAGE_SIZE - 1 \in Nat
  BY <1>1
<1>3. PageOf(k * PAGE_SIZE + PAGE_SIZE - 1) = k
  BY <1>1, <1>2, PageUnique
<1> QED
  BY <1>3 DEF PageOf, div_ceil

\* The end of the last page that a range touches is its end rounded up
LEMMA EndPage ==
  ASSUME NEW e \in Nat, e > 0
  PROVE  PageOf(e - 1) + 1 = div_ceil(e)
<1> DEFINE c == div_ceil(e)
<1>1. c \in Nat /\ c * PAGE_SIZE \in Nat /\ e <= c * PAGE_SIZE /\ c * PAGE_SIZE < e + PAGE_SIZE
  BY CeilBounds
<1> HIDE DEF c
<1>2. (c - 1) * PAGE_SIZE = c * PAGE_SIZE - PAGE_SIZE /\ PAGE_SIZE \in Nat \ {0}
  BY <1>1, MemoryAssumption
<1>3. PageOf(e - 1) = c - 1
  BY <1>1, <1>2, PageUnique
<1> QED
  BY <1>1, <1>3 DEF c

-----------------------------------------------------------------------------
(* What the operations on memory leave alone                               *)

AccessOf(m) == m.readable \cup m.writable \cup m.executable

LEMMA ProtectFacts ==
  ASSUME NEW m \in Memories, NEW a, NEW l, NEW perms
  PROVE  LET n == protect_pages(m, a, l, perms)
         IN /\ n \in Memories
            /\ n.allocated = m.allocated /\ n.data = m.data
            /\ AccessOf(n) \subseteq AccessOf(m) \cup Touched(a, l)
            /\ \A p : p \notin Touched(a, l) => PageState(n, p) = PageState(m, p)
<1> DEFINE R == modify_access(m.readable, a, l, "r" \in perms)
           W == modify_access(m.writable, a, l, "w" \in perms)
           X == modify_access(m.executable, a, l, "x" \in perms)
           n == protect_pages(m, a, l, perms)
<1>0. n = [m EXCEPT !.readable = R, !.writable = W, !.executable = X]
  BY DEF protect_pages
<1> HIDE DEF R, W, X
<1>1. /\ n.allocated = m.allocated /\ n.data = m.data
      /\ n.readable = R /\ n.writable = W /\ n.executable = X
      /\ n = [allocated |-> m.allocated, readable |-> R, writable |-> W,
              executable |-> X, data |-> m.data]
  BY <1>0 DEF Memories
<1> HIDE DEF n
<1>3. /\ m.readable \in SUBSET AllPages /\ m.writable \in SUBSET AllPages
      /\ m.executable \in SUBSET AllPages
      /\ m.allocated \in SUBSET AllPages /\ m.data \in SUBSET AllBytes
  BY DEF Memories
<1>r. /\ R \in SUBSET AllPages /\ R \subseteq m.readable \cup Touched(a, l)
      /\ \A p : p \notin Touched(a, l) => (p \in R <=> p \in m.readable)
  BY <1>3 DEF R, modify_access
<1>w. /\ W \in SUBSET AllPages /\ W \subseteq m.writable \cup Touched(a, l)
      /\ \A p : p \notin Touched(a, l) => (p \in W <=> p \in m.writable)
  BY <1>3 DEF W, modify_access
<1>x. /\ X \in SUBSET AllPages /\ X \subseteq m.executable \cup Touched(a, l)
      /\ \A p : p \notin Touched(a, l) => (p \in X <=> p \in m.executable)
  BY <1>3 DEF X, modify_access
<1>4. n \in Memories
  BY <1>1, <1>3, <1>r, <1>w, <1>x DEF Memories
<1>5. AccessOf(n) \subseteq AccessOf(m) \cup Touched(a, l)
  BY <1>1, <1>r, <1>w, <1>x DEF AccessOf
<1>6. ASSUME NEW p, p \notin Touched(a, l) PROVE PageState(n, p) = PageState(m, p)
  <2>1. /\ (p \in n.readable) = (p \in m.readable)
        /\ (p \in n.writable) = (p \in m.writable)
        /\ (p \in n.executable) = (p \in m.executable)
    BY <1>1, <1>r, <1>w, <1>x, <1>6
  <2> QED
    BY <1>1, <2>1 DEF PageState
<1> QED
  BY <1>1, <1>4, <1>5, <1>6 DEF n

\* What protects with no permissions takes the access away
LEMMA ProtectNone ==
  ASSUME NEW m \in Memories, NEW a, NEW l
  PROVE  AccessOf(protect_pages(m, a, l, NONE)) = AccessOf(m) \ Touched(a, l)
BY DEF protect_pages, Memories, modify_access, AccessOf, NONE

LEMMA WrittenFacts ==
  ASSUME NEW m \in Memories, NEW a \in Nat, NEW l \in Nat, InBounds(a, l), NEW x \in BOOLEAN
  PROVE  LET n == Written(m, a, l, x)
         IN /\ n \in Memories
            /\ n.allocated = m.allocated
            /\ n.readable = m.readable /\ n.writable = m.writable
            /\ n.executable = m.executable
<1>1. TOTAL_BYTES \in Nat
  BY MemoryAssumption DEF TOTAL_BYTES
<1>2. (a..(a + l - 1)) \subseteq AllBytes
  BY <1>1 DEF InBounds, AllBytes
<1> QED
  BY <1>2 DEF Written, Memories

\* What a part of a range touches, the range touches
LEMMA TouchedPart ==
  ASSUME NEW a \in Nat, NEW l \in Nat, NEW b \in Nat, NEW k \in Nat,
         a <= b, b + k <= a + l
  PROVE  Touched(b, k) \subseteq Touched(a, l)
<1>1. CASE k = 0
  BY <1>1 DEF Touched
<1>2. CASE k # 0
  <2>1. l # 0 /\ b + k - 1 \in Nat /\ a + l - 1 \in Nat /\ b + k - 1 <= a + l - 1
    BY <1>2
  <2>2. PageOf(a) <= PageOf(b) /\ PageOf(b + k - 1) <= PageOf(a + l - 1)
    BY <2>1, PageMono
  <2>3. PageOf(a) \in Nat /\ PageOf(b) \in Nat /\ PageOf(b + k - 1) \in Nat /\ PageOf(a + l - 1) \in Nat
    BY <2>1, PageBounds
  <2>4. PageOf(b)..PageOf(b + k - 1) \subseteq PageOf(a)..PageOf(a + l - 1)
    BY <2>2, <2>3
  <2> QED
    BY <1>2, <2>1, <2>4 DEF Touched
<1> QED
  BY <1>1, <1>2

\* The headers give access to the program and to nothing else
LEMMA HeadersFacts ==
  ASSUME NEW m \in Memories, NEW p \in Programs
  PROVE  LET n == ProtectHeaders(m, p.headers)
         IN /\ n \in Memories
            /\ n.allocated = m.allocated /\ n.data = m.data
            /\ AccessOf(n) \subseteq AccessOf(m) \cup Touched(p.start, p.end - p.start)
<1> DEFINE T(i, q) == q \in Touched(p.headers[i].start, p.headers[i].length)
           Last(i, q) == T(i, q) /\ \A j \in (i + 1)..Len(p.headers) : ~T(j, q)
           A(S, right) ==
             {q \in AllPages :
                \/ \E i \in DOMAIN p.headers : Last(i, q) /\ right \in p.headers[i].perms
                \/ q \in S /\ \A i \in DOMAIN p.headers : ~T(i, q)}
           R == A(m.readable, "r")  W == A(m.writable, "w")  X == A(m.executable, "x")
           n == ProtectHeaders(m, p.headers)
<1>1. n = [m EXCEPT !.readable = R, !.writable = W, !.executable = X]
  BY DEF ProtectHeaders
<1>2. \A i \in DOMAIN p.headers : \A q : T(i, q) => q \in Touched(p.start, p.end - p.start)
  <2> TAKE i \in DOMAIN p.headers
  <2> TAKE q
  <2> DEFINE b == p.headers[i].start  k == p.headers[i].length
  <2>1. /\ p.start \in Nat /\ p.end \in Nat /\ p.start <= p.end
        /\ b \in Nat /\ k \in Nat /\ p.start <= b /\ b + k <= p.end
    BY LinuxAssumption
  <2> HIDE DEF b, k
  <2>2. p.end - p.start \in Nat /\ b + k <= p.start + (p.end - p.start)
    BY <2>1
  <2>3. Touched(b, k) \subseteq Touched(p.start, p.end - p.start)
    BY <2>1, <2>2, TouchedPart
  <2> QED
    BY <2>3 DEF b, k
<1>3. ASSUME NEW S, NEW right
      PROVE  A(S, right) \subseteq AllPages /\ A(S, right) \subseteq S \cup Touched(p.start, p.end - p.start)
  BY <1>2
<1>4. /\ R \subseteq AllPages /\ R \subseteq m.readable \cup Touched(p.start, p.end - p.start)
      /\ W \subseteq AllPages /\ W \subseteq m.writable \cup Touched(p.start, p.end - p.start)
      /\ X \subseteq AllPages /\ X \subseteq m.executable \cup Touched(p.start, p.end - p.start)
  BY <1>3
<1> HIDE DEF R, W, X, n
<1>5. /\ n.allocated = m.allocated /\ n.data = m.data
      /\ n.readable = R /\ n.writable = W /\ n.executable = X
      /\ n = [allocated |-> m.allocated, readable |-> R, writable |-> W,
              executable |-> X, data |-> m.data]
  BY <1>1 DEF Memories
<1>6. n \in Memories
  BY <1>4, <1>5 DEF Memories
<1>7. AccessOf(n) \subseteq AccessOf(m) \cup Touched(p.start, p.end - p.start)
  BY <1>4, <1>5 DEF AccessOf
<1> QED
  BY <1>5, <1>6, <1>7 DEF n

\* Loading a program gives access to its pages only
LEMMA LoadFacts ==
  ASSUME NEW p \in Programs, mem = NewMemory, InBounds(p.start, p.end - p.start)
  PROVE  /\ load_program(p) \in Memories
         /\ load_program(p).allocated = {}
         /\ AccessOf(load_program(p)) \subseteq Touched(p.start, p.end - p.start)
<1> DEFINE length == p.end - p.start
           writable == protect_pages(mem, p.start, length, WRITE)
           loaded == Written(writable, p.start, length, TRUE)
           hidden == protect_pages(loaded, p.start, length, NONE)
<1>0. p.start \in Nat /\ length \in Nat
  BY LinuxAssumption
<1>1. mem \in Memories /\ mem.allocated = {} /\ AccessOf(mem) = {}
  BY DEF NewMemory, Memories, AccessOf
<1>2. /\ writable \in Memories /\ writable.allocated = {}
      /\ AccessOf(writable) \subseteq Touched(p.start, length)
  BY <1>1, ProtectFacts
<1> HIDE DEF writable
<1>3. /\ loaded \in Memories /\ loaded.allocated = {}
      /\ AccessOf(loaded) \subseteq Touched(p.start, length)
  BY <1>0, <1>2, WrittenFacts DEF AccessOf
<1> HIDE DEF loaded
<1>4. hidden \in Memories /\ hidden.allocated = {} /\ AccessOf(hidden) \subseteq Touched(p.start, length)
  BY <1>3, ProtectFacts
<1> HIDE DEF hidden
<1>5. load_program(p) = ProtectHeaders(hidden, p.headers)
  BY DEF load_program, hidden, loaded, writable
<1> QED
  BY <1>4, <1>5, HeadersFacts

\* The areas are whole pages, one behind the other: h is the first page of the
\* heap, g the guard page
LEMMA Areas ==
  ASSUME NEW p \in Programs, guarded_stack_space(p) >= PAGE_SIZE
  PROVE  \E g \in Nat : LET h == div_ceil(p.end) IN
           /\ h \in Nat /\ h <= g /\ g + 1 <= PAGES
           /\ align_up(p.end) = h * PAGE_SIZE
           /\ stack_bottom(p) = (g + 1) * PAGE_SIZE
           /\ stack_bottom(p) - PAGE_SIZE = g * PAGE_SIZE
           /\ (stack_bottom(p) - PAGE_SIZE) - align_up(p.end) = (g - h) * PAGE_SIZE
           /\ TOTAL_BYTES - stack_bottom(p) = (PAGES - (g + 1)) * PAGE_SIZE
<1> DEFINE h == div_ceil(p.end)
           room == (PAGES - h) - 1
           n == IF STACK_SIZE < room * PAGE_SIZE THEN STACK_PAGES ELSE room
           g == (PAGES - n) - 1
<1>1. p.end \in Nat /\ STACK_PAGES \in Nat /\ PAGES \in Nat /\ PAGE_SIZE \in Nat \ {0}
  BY LinuxAssumption, MemoryAssumption
<1>2. h \in Nat /\ align_up(p.end) = h * PAGE_SIZE
  BY <1>1, CeilBounds DEF align_up
<1> HIDE DEF h
<1>3. guarded_stack_space(p) = (PAGES - h) * PAGE_SIZE
  BY <1>1, <1>2, Times DEF guarded_stack_space, TOTAL_BYTES
<1>4. 0 * PAGE_SIZE < (PAGES - h) * PAGE_SIZE
  BY <1>1, <1>2, <1>3
<1>5. 0 < PAGES - h
  BY <1>1, <1>2, <1>4, Cancel
<1>6. room \in Nat /\ room * PAGE_SIZE = (PAGES - h) * PAGE_SIZE - PAGE_SIZE
  BY <1>1, <1>2, <1>5
<1>7. n \in Nat /\ n <= room
  <2>1. STACK_PAGES * PAGE_SIZE < room * PAGE_SIZE => STACK_PAGES < room
    BY <1>1, <1>6, Cancel
  <2> QED
    BY <1>1, <1>6, <2>1 DEF STACK_SIZE
<1>8. stack_bottom(p) = TOTAL_BYTES - n * PAGE_SIZE
  BY <1>3, <1>6 DEF stack_bottom, STACK_SIZE
<1> HIDE DEF n
<1>9. g \in Nat /\ h <= g /\ g + 1 <= PAGES
  BY <1>1, <1>2, <1>6, <1>7
<1>10. stack_bottom(p) = (g + 1) * PAGE_SIZE
  BY <1>1, <1>7, <1>8 DEF TOTAL_BYTES
<1> HIDE DEF g
<1>11. (g + 1) * PAGE_SIZE = g * PAGE_SIZE + PAGE_SIZE /\ g * PAGE_SIZE \in Int
  BY <1>1, <1>9
<1>12. (g - h) * PAGE_SIZE = g * PAGE_SIZE - h * PAGE_SIZE
  BY <1>1, <1>2, <1>9, Times
<1>13. TOTAL_BYTES - stack_bottom(p) = (PAGES - (g + 1)) * PAGE_SIZE
  BY <1>1, <1>9, <1>10 DEF TOTAL_BYTES
<1>14. stack_bottom(p) - PAGE_SIZE = g * PAGE_SIZE
  BY <1>1, <1>10, <1>11
<1> QED
  BY <1>2, <1>9, <1>10, <1>12, <1>13, <1>14 DEF h

\* The pages of whole pages
LEMMA TouchedPages ==
  ASSUME NEW q \in Nat, NEW k \in Nat
  PROVE  /\ Touched(q * PAGE_SIZE, k * PAGE_SIZE) = Run(q, k)
         /\ PageOf(q * PAGE_SIZE) = q
<1>1. k * PAGE_SIZE \in Nat /\ q * PAGE_SIZE \in Nat /\ PAGE_SIZE \in Nat \ {0}
  BY MemoryAssumption
<1>2. PageOf(q * PAGE_SIZE) = q
  BY <1>1, PageUnique
<1> QED
  BY <1>1, <1>2, TouchedAligned, CeilMultiple

\* The pages of the program
LEMMA ProgramPages ==
  ASSUME NEW p \in Programs
  PROVE  /\ Touched(p.start, p.end - p.start) \subseteq PageOf(p.start)..(div_ceil(p.end) - 1)
         /\ PageOf(p.start) \in Nat
<1>1. p.start \in Nat /\ p.end \in Nat /\ p.start <= p.end
  BY LinuxAssumption
<1>2. CASE p.start = p.end
  BY <1>1, <1>2, PageBounds DEF Touched
<1>3. CASE p.start # p.end
  <2>1. p.end > 0 /\ p.end - p.start # 0 /\ p.start + (p.end - p.start) - 1 = p.end - 1
    BY <1>1, <1>3
  <2>2. PageOf(p.end - 1) + 1 = div_ceil(p.end) /\ PageOf(p.end - 1) \in Nat
    BY <1>1, <2>1, EndPage, PageBounds
  <2>3. Touched(p.start, p.end - p.start) = PageOf(p.start)..PageOf(p.end - 1)
    BY <2>1 DEF Touched
  <2>4. PageOf(p.end - 1) = div_ceil(p.end) - 1
    BY <2>2
  <2> QED
    BY <1>1, <2>3, <2>4, PageBounds
<1> QED
  BY <1>2, <1>3

\* The stack can be read and written, the guard page below it not accessed
LEMMA StackFacts ==
  ASSUME NEW p \in Programs, NEW m \in Memories, NEW g \in Nat, g + 1 <= PAGES,
         stack_bottom(p) = (g + 1) * PAGE_SIZE,
         stack_bottom(p) - PAGE_SIZE = g * PAGE_SIZE,
         TOTAL_BYTES - stack_bottom(p) = (PAGES - (g + 1)) * PAGE_SIZE
  PROVE  LET n == prepare_stack(m, p)
         IN /\ n \in Memories
            /\ n.allocated = m.allocated
            /\ AccessOf(n) \subseteq (AccessOf(m) \ {g}) \cup ((g + 1)..(PAGES - 1))
            /\ ((g + 1)..(PAGES - 1)) \subseteq n.readable \cap n.writable
<1> DEFINE guarded == protect_pages(m, g * PAGE_SIZE, PAGE_SIZE, NONE)
           n == prepare_stack(m, p)
<1>1. PAGES \in Nat /\ PAGE_SIZE \in Nat \ {0} /\ PAGES - (g + 1) \in Nat
  BY MemoryAssumption
<1>2. 1 * PAGE_SIZE = PAGE_SIZE
  BY <1>1
<1>3. Touched(g * PAGE_SIZE, PAGE_SIZE) = {g}
  <2>1. Touched(g * PAGE_SIZE, 1 * PAGE_SIZE) = Run(g, 1)
    BY TouchedPages
  <2>2. Run(g, 1) = {g}
    BY DEF Run
  <2> QED
    BY <1>2, <2>1, <2>2
<1>4. guarded \in Memories /\ guarded.allocated = m.allocated /\ AccessOf(guarded) = AccessOf(m) \ {g}
  BY <1>3, ProtectFacts, ProtectNone
<1>5. Touched((g + 1) * PAGE_SIZE, (PAGES - (g + 1)) * PAGE_SIZE) = (g + 1)..(PAGES - 1)
  <2>1. g + 1 \in Nat
    OBVIOUS
  <2>2. Touched((g + 1) * PAGE_SIZE, (PAGES - (g + 1)) * PAGE_SIZE) = Run(g + 1, PAGES - (g + 1))
    BY <1>1, <2>1, TouchedPages
  <2>3. (g + 1) + (PAGES - (g + 1)) - 1 = PAGES - 1
    BY <1>1
  <2> QED
    BY <2>2, <2>3 DEF Run
<1>6. n = protect_pages(guarded, (g + 1) * PAGE_SIZE, (PAGES - (g + 1)) * PAGE_SIZE, READ_WRITE)
  BY DEF prepare_stack
<1> HIDE DEF guarded, n
<1>7. /\ n \in Memories /\ n.allocated = guarded.allocated
      /\ AccessOf(n) \subseteq AccessOf(guarded) \cup ((g + 1)..(PAGES - 1))
  <2> DEFINE a == (g + 1) * PAGE_SIZE  l == (PAGES - (g + 1)) * PAGE_SIZE
  <2>1. n = protect_pages(guarded, a, l, READ_WRITE) /\ Touched(a, l) = (g + 1)..(PAGES - 1)
    BY <1>5, <1>6
  <2> HIDE DEF a, l
  <2> QED
    <3> DEFINE o == protect_pages(guarded, a, l, READ_WRITE)
    <3>1. /\ o \in Memories /\ o.allocated = guarded.allocated
          /\ AccessOf(o) \subseteq AccessOf(guarded) \cup Touched(a, l)
      BY <1>4, ProtectFacts
    <3> QED
      BY <2>1, <3>1
<1>8. ((g + 1)..(PAGES - 1)) \subseteq n.readable \cap n.writable
  <2>1. (g + 1)..(PAGES - 1) \subseteq AllPages
    BY <1>1 DEF AllPages
  <2> DEFINE T == (g + 1)..(PAGES - 1)
  <2>2. /\ n.readable = guarded.readable \cup (T \cap AllPages)
        /\ n.writable = guarded.writable \cup (T \cap AllPages)
    BY <1>4, <1>5, <1>6 DEF protect_pages, modify_access, READ_WRITE, Memories
  <2> QED
    BY <2>1, <2>2
<1> QED
  BY <1>4, <1>7, <1>8 DEF n

\* The memory that a successful setup leaves
LEMMA SetupFacts ==
  ASSUME NEW p \in Programs, mem = NewMemory,
         setup_linux_process(p), phase' = "running"
  PROVE  \E g \in Nat : LET h == div_ceil(p.end) IN
           /\ h \in Nat /\ h <= g /\ g + 1 <= PAGES
           /\ mem' \in Memories
           /\ mem'.allocated = AllPages \ (h..(g - 1))
           /\ mapped' = AllPages \ (h..(g - 1))
           /\ AccessOf(mem') \subseteq (PageOf(p.start)..(h - 1)) \cup ((g + 1)..(PAGES - 1))
           /\ ((g + 1)..(PAGES - 1)) \subseteq mem'.readable \cap mem'.writable
           /\ program' = <<align_down(p.start), h * PAGE_SIZE>>
           /\ heap' = <<h * PAGE_SIZE, g * PAGE_SIZE>>
           /\ stack_guard' = <<g * PAGE_SIZE, (g + 1) * PAGE_SIZE>>
<1> DEFINE h == div_ceil(p.end)
           loaded == load_program(p)
           stacked == prepare_stack(loaded, p)
           pushed == init_linux_stack(stacked)
           owned == [pushed EXCEPT !.allocated = allocate_pages(pushed, {0}, TOTAL_BYTES, TRUE).set]
<1>1. /\ InBounds(p.start, p.end - p.start)
      /\ guarded_stack_space(p) >= PAGE_SIZE
      /\ can_access(stacked.writable, TOTAL_BYTES - PUSHED, PUSHED)
      /\ program' = <<align_down(p.start), align_up(p.end)>>
      /\ stack_guard' = <<stack_bottom(p) - PAGE_SIZE, stack_bottom(p)>>
      /\ heap' = <<align_up(p.end), stack_bottom(p) - PAGE_SIZE>>
      /\ mem' = deallocate_pages(owned, align_up(p.end),
                                 (stack_bottom(p) - PAGE_SIZE) - align_up(p.end))
      /\ mapped' = AllPages \ Touched(align_up(p.end),
                                      (stack_bottom(p) - PAGE_SIZE) - align_up(p.end))
  BY DEF setup_linux_process, SetupFails
<1>2. PICK g \in Nat :
        /\ h \in Nat /\ h <= g /\ g + 1 <= PAGES
        /\ align_up(p.end) = h * PAGE_SIZE
        /\ stack_bottom(p) = (g + 1) * PAGE_SIZE
        /\ stack_bottom(p) - PAGE_SIZE = g * PAGE_SIZE
        /\ (stack_bottom(p) - PAGE_SIZE) - align_up(p.end) = (g - h) * PAGE_SIZE
        /\ TOTAL_BYTES - stack_bottom(p) = (PAGES - (g + 1)) * PAGE_SIZE
  BY <1>1, Areas
<1>3. /\ loaded \in Memories /\ loaded.allocated = {}
      /\ AccessOf(loaded) \subseteq PageOf(p.start)..(h - 1)
  BY <1>1, LoadFacts, ProgramPages
<1> HIDE DEF h, loaded
<1>4. /\ stacked \in Memories /\ stacked.allocated = {}
      /\ AccessOf(stacked) \subseteq (PageOf(p.start)..(h - 1)) \cup ((g + 1)..(PAGES - 1))
      /\ ((g + 1)..(PAGES - 1)) \subseteq stacked.readable \cap stacked.writable
  BY <1>2, <1>3, StackFacts
<1> HIDE DEF stacked
<1>5. PUSHED \in Nat /\ PAGES \in Nat \ {0} /\ PAGE_SIZE \in Nat \ {0} /\ TOTAL_BYTES \in Nat
  BY LinuxAssumption, MemoryAssumption DEF TOTAL_BYTES
<1>6. PUSHED <= TOTAL_BYTES
  <2>1. SUFFICES ASSUME PUSHED # 0, TOTAL_BYTES - PUSHED < 0 PROVE FALSE
    BY <1>5
  <2>2. PageOf(TOTAL_BYTES - PUSHED) \in Int /\ PageOf(TOTAL_BYTES - PUSHED) < 0
    BY <1>5, <2>1 DEF PageOf
  <2>3. TOTAL_BYTES - PUSHED + PUSHED - 1 = TOTAL_BYTES - 1 /\ TOTAL_BYTES - 1 \in Nat
    BY <1>5 DEF TOTAL_BYTES
  <2>4. PageOf(TOTAL_BYTES - 1) \in Nat
    BY <2>3, PageBounds
  <2>5. Touched(TOTAL_BYTES - PUSHED, PUSHED) = PageOf(TOTAL_BYTES - PUSHED)..PageOf(TOTAL_BYTES - 1)
    BY <2>1, <2>3 DEF Touched
  <2>6. PageOf(TOTAL_BYTES - PUSHED) \in stacked.writable
    BY <1>1, <2>2, <2>4, <2>5 DEF can_access
  <2>7. stacked.writable \subseteq AllPages
    BY <1>4 DEF Memories
  <2> QED
    BY <1>5, <2>2, <2>6, <2>7 DEF AllPages
<1>7. /\ pushed \in Memories /\ pushed.allocated = {}
      /\ pushed.readable = stacked.readable /\ pushed.writable = stacked.writable
      /\ pushed.executable = stacked.executable
  <2> DEFINE a == TOTAL_BYTES - PUSHED
             o == Written(stacked, a, PUSHED, TRUE)
  <2>1. a \in Nat /\ InBounds(a, PUSHED)
    BY <1>5, <1>6 DEF InBounds
  <2>2. pushed = o
    BY DEF init_linux_stack
  <2> HIDE DEF a, pushed
  <2>3. stacked \in Memories /\ TRUE \in BOOLEAN /\ PUSHED \in Nat
    BY <1>4, <1>5
  <2>4. /\ o \in Memories /\ o.allocated = stacked.allocated
        /\ o.readable = stacked.readable /\ o.writable = stacked.writable
        /\ o.executable = stacked.executable
    BY <2>1, <2>3, WrittenFacts
  <2> QED
    BY <1>4, <2>2, <2>4
<1> HIDE DEF pushed
<1>8. allocate_pages(pushed, {0}, TOTAL_BYTES, TRUE).set = AllPages
  <2>1. div_ceil(TOTAL_BYTES) = PAGES /\ 0 \div PAGE_SIZE = 0
    BY <1>5, CeilMultiple DEF TOTAL_BYTES
  <2>2. InBounds(0, TOTAL_BYTES) /\ PageOf(0) = 0
    BY <1>5, <2>1 DEF InBounds, PageOf
  <2>3. (CHOOSE a \in {0} : TRUE) = 0
    OBVIOUS
  <2>4. allocate_pages(pushed, {0}, TOTAL_BYTES, TRUE) = AllocatedFixed({}, PAGES, 0, PAGES, TRUE)
    BY <1>7, <2>1, <2>2, <2>3 DEF allocate_pages
  <2>5. AllocatedFixed({}, PAGES, 0, PAGES, TRUE).set = Run(0, PAGES)
    BY <1>5 DEF AllocatedFixed
  <2> QED
    <3>1. 0 + PAGES - 1 = PAGES - 1
      BY <1>5
    <3> QED
      BY <2>4, <2>5, <3>1 DEF Run, AllPages
<1>9. /\ owned \in Memories /\ owned.allocated = AllPages
      /\ owned.readable = stacked.readable /\ owned.writable = stacked.writable
      /\ owned.executable = stacked.executable
  BY <1>7, <1>8 DEF Memories
<1> HIDE DEF owned
<1>10. /\ Touched(h * PAGE_SIZE, (g - h) * PAGE_SIZE) = h..(g - 1)
       /\ PageOf(h * PAGE_SIZE) = h /\ div_ceil((g - h) * PAGE_SIZE) = g - h
  BY <1>2, TouchedPages, CeilMultiple DEF Run
<1>11. Deallocated(AllPages, PAGES, h, g - h) = AllPages \ (h..(g - 1))
  BY <1>2, <1>5 DEF Deallocated, Run
<1>12. mem' = [owned EXCEPT !.allocated = AllPages \ (h..(g - 1))]
  BY <1>1, <1>2, <1>9, <1>10, <1>11 DEF deallocate_pages
<1>13. /\ mem' \in Memories /\ mem'.allocated = AllPages \ (h..(g - 1))
       /\ mem'.readable = stacked.readable /\ mem'.writable = stacked.writable
       /\ mem'.executable = stacked.executable
  BY <1>9, <1>12 DEF Memories
<1>14. AccessOf(mem') = AccessOf(stacked)
  BY <1>13 DEF AccessOf
<1>15. mapped' = AllPages \ (h..(g - 1))
  BY <1>1, <1>2, <1>10
<1>16. /\ program' = <<align_down(p.start), h * PAGE_SIZE>>
       /\ heap' = <<h * PAGE_SIZE, g * PAGE_SIZE>>
       /\ stack_guard' = <<g * PAGE_SIZE, (g + 1) * PAGE_SIZE>>
  BY <1>1, <1>2
<1> QED
  BY <1>2, <1>4, <1>13, <1>14, <1>15, <1>16 DEF h

-----------------------------------------------------------------------------
(* mmap                                                                    *)

\* The allocator takes a run of free pages
LEMMA AllocatedFacts ==
  ASSUME NEW A, NEW c \in Nat, NEW r, r = Allocated(A, PAGES, c), r.ret # None
  PROVE  \E i \in Nat : /\ i + c <= PAGES /\ r.ret = {i} /\ r.set = A \cup Run(i, c)
                        /\ Run(i, c) \cap A = {}
<1> DEFINE i == FirstFit(A, PAGES, c)
<1>1. PAGES \in Nat
  BY MemoryAssumption
<1>2. Fits(A, PAGES, c) /\ r.set = A \cup Run(i, c) /\ r.ret = {i}
  BY DEF Allocated
<1>3. i \in 0..PAGES /\ IsFirst(A, PAGES, c, i)
  <2> DEFINE T == {k \in 0..PAGES : Free(A, PAGES, k, c)}
  <2>1. T \in SUBSET Nat /\ T # {}
    BY <1>2 DEF Fits
  <2>2. PICK k \in T : \A l \in T : k <= l
    BY <2>1, Least
  <2>3. k \in 0..PAGES /\ Free(A, PAGES, k, c)
    BY <2>2
  <2>4. ASSUME NEW l \in 0..(k - 1) PROVE ~Free(A, PAGES, l, c)
    <3>1. l \in 0..PAGES /\ ~(k <= l)
      BY <1>1, <2>3
    <3> QED
      BY <2>2, <3>1
  <2>5. \E x \in 0..PAGES : IsFirst(A, PAGES, c, x)
    BY <2>3, <2>4 DEF IsFirst
  <2> QED
    BY <2>5 DEF FirstFit
<1> HIDE DEF i
<1>4. i \in Nat /\ i + c <= PAGES /\ Run(i, c) \cap A = {}
  BY <1>1, <1>3 DEF IsFirst, Free
<1> QED
  BY <1>2, <1>4

\* The pages mmap takes: they are free unless ...
LEMMA AllocateFree ==
  ASSUME NEW m, NEW length \in Nat, NEW at, at = {} \/ \E a \in Nat : at = {a},
         allocate_pages(m, at, length, FALSE).ret # None
  PROVE  \E i \in Nat :
           /\ allocate_pages(m, at, length, FALSE).ret = {i}
           /\ Run(i, div_ceil(length)) \subseteq AllPages
           /\ allocate_pages(m, at, length, FALSE).set = m.allocated \cup Run(i, div_ceil(length))
           /\ Run(i, div_ceil(length)) \cap m.allocated = {}
<1> DEFINE c == div_ceil(length)
           A == m.allocated
           r == allocate_pages(m, at, length, FALSE)
<1>1. c \in Nat /\ PAGES \in Nat
  BY CeilBounds, MemoryAssumption
<1>2. ASSUME NEW i \in Nat, i + c <= PAGES
      PROVE  Run(i, c) \subseteq AllPages
  <2> HIDE DEF c
  <2> QED
    BY <1>1, <1>2 DEF Run, AllPages
<1>3. CASE at = {}
  <2>1. r = Allocated(A, PAGES, c)
    BY <1>3 DEF allocate_pages
  <2> HIDE DEF c, A, r
  <2>2. PICK i \in Nat : /\ i + c <= PAGES /\ r.ret = {i} /\ r.set = A \cup Run(i, c)
                         /\ Run(i, c) \cap A = {}
    BY <1>1, <2>1, AllocatedFacts DEF r
  <2> QED
    BY <1>2, <2>2 DEF c, A, r
<1>4. CASE \E a \in Nat : at = {a}
  <2>0. PICK a \in Nat : at = {a}
    BY <1>4
  <2>1. (CHOOSE x \in at : TRUE) = a /\ at # {}
    BY <2>0
  <2>2. r = AllocatedFixed(A, PAGES, PageOf(a), c, FALSE)
    BY <2>1 DEF allocate_pages
  <2> HIDE DEF c, A
  <2>3. /\ PageOf(a) + c <= PAGES /\ r.ret = {PageOf(a)} /\ r.set = A \cup Run(PageOf(a), c)
        /\ Run(PageOf(a), c) \cap A = {}
    <3> DEFINE q == PageOf(a)
    <3>1. r.ret # {}
      BY DEF None
    <3> HIDE DEF r, q
    <3> QED
      BY <2>2, <3>1 DEF AllocatedFixed, None, q
  <2>4. PageOf(a) \in Nat
    BY PageBounds
  <2> HIDE DEF r
  <2> QED
    BY <1>2, <2>3, <2>4 DEF c, A, r
<1> QED
  BY <1>3, <1>4

\* ... it was told to replace what is there
LEMMA AllocateReplace ==
  ASSUME NEW m, NEW length \in Nat, NEW at, at = {} \/ \E a \in Nat : at = {a},
         allocate_pages(m, at, length, TRUE).ret # None
  PROVE  \E i \in Nat :
           /\ allocate_pages(m, at, length, TRUE).ret = {i}
           /\ Run(i, div_ceil(length)) \subseteq AllPages
           /\ allocate_pages(m, at, length, TRUE).set = m.allocated \cup Run(i, div_ceil(length))
<1> DEFINE c == div_ceil(length)
           A == m.allocated
           r == allocate_pages(m, at, length, TRUE)
<1>1. c \in Nat /\ PAGES \in Nat
  BY CeilBounds, MemoryAssumption
<1>2. ASSUME NEW i \in Nat, i + c <= PAGES
      PROVE  Run(i, c) \subseteq AllPages
  <2> HIDE DEF c
  <2> QED
    BY <1>1, <1>2 DEF Run, AllPages
<1>3. CASE at = {}
  <2>1. r = Allocated(A, PAGES, c)
    BY <1>3 DEF allocate_pages
  <2> HIDE DEF c, A, r
  <2>2. PICK i \in Nat : /\ i + c <= PAGES /\ r.ret = {i} /\ r.set = A \cup Run(i, c)
                         /\ Run(i, c) \cap A = {}
    BY <1>1, <2>1, AllocatedFacts DEF r
  <2> QED
    BY <1>2, <2>2 DEF c, A, r
<1>4. CASE \E a \in Nat : at = {a}
  <2>0. PICK a \in Nat : at = {a}
    BY <1>4
  <2>1. (CHOOSE x \in at : TRUE) = a /\ at # {}
    BY <2>0
  <2>2. r = AllocatedFixed(A, PAGES, PageOf(a), c, TRUE)
    BY <2>1 DEF allocate_pages
  <2> HIDE DEF c, A
  <2>3. /\ PageOf(a) + c <= PAGES /\ r.ret = {PageOf(a)} /\ r.set = A \cup Run(PageOf(a), c)
    <3> DEFINE q == PageOf(a)
    <3>1. r.ret # {}
      BY DEF None
    <3> HIDE DEF r, q
    <3> QED
      BY <2>2, <3>1 DEF AllocatedFixed, None, q
  <2>4. PageOf(a) \in Nat
    BY PageBounds
  <2> HIDE DEF r
  <2> QED
    BY <1>2, <2>3, <2>4 DEF c, A, r
<1> QED
  BY <1>3, <1>4

\* What a successful mmap leaves: range is what it took
LEMMA MmapFacts ==
  ASSUME NEW m \in Memories, NEW r, NEW length \in Nat, length # 0, NEW perms,
         NEW page \in Nat, r.ret = {page},
         NEW range, range = Run(page, div_ceil(length)), range \subseteq AllPages,
         r.set = m.allocated \cup range
  PROVE  LET n == allocate_and_protect_pages(m, r, length, perms)
         IN /\ n \in Memories
            /\ n.allocated = m.allocated \cup range
            /\ AccessOf(n) \subseteq AccessOf(m) \cup range
            /\ n.data \cap BytesOf(range) = {}
            /\ \A p : p \notin range => PageState(n, p) = PageState(m, p)
<1> DEFINE n == allocate_and_protect_pages(m, r, length, perms)
           c == div_ceil(length)
           address == page * PAGE_SIZE
           taken == [m EXCEPT !.allocated = m.allocated \cup range]
           opn == protect_pages(taken, address, length, perms)
           zeros == address..(address + c * PAGE_SIZE - 1)
<1>1. taken \in Memories /\ taken.allocated = m.allocated \cup range /\ taken.data = m.data
      /\ AccessOf(taken) = AccessOf(m)
      /\ taken.readable = m.readable /\ taken.writable = m.writable /\ taken.executable = m.executable
  BY DEF Memories, AccessOf
<1>2. \A p : PageState(taken, p) = PageState(m, p)
  BY <1>1 DEF PageState
<1>3. n = Zeroed(opn, address, length)
  <2>1. (CHOOSE i \in r.ret : TRUE) = page
    OBVIOUS
  <2> QED
    BY <2>1 DEF allocate_and_protect_pages
<1>4. Touched(address, length) = range
  BY TouchedAligned
<1> HIDE DEF taken, address
<1>5. /\ opn \in Memories /\ opn.allocated = taken.allocated /\ opn.data = taken.data
      /\ AccessOf(opn) \subseteq AccessOf(taken) \cup range
      /\ \A p : p \notin range => PageState(opn, p) = PageState(taken, p)
  <2>0. taken \in Memories
    BY <1>1
  <2>1. /\ opn \in Memories /\ opn.allocated = taken.allocated /\ opn.data = taken.data
        /\ AccessOf(opn) \subseteq AccessOf(taken) \cup Touched(address, length)
    BY <2>0, ProtectFacts
  <2>2. \A p : p \notin Touched(address, length) => PageState(opn, p) = PageState(taken, p)
    BY <2>0, ProtectFacts
  <2> QED
    BY <1>4, <2>1, <2>2
<1> HIDE DEF opn, n
<1>6. n = [opn EXCEPT !.data = opn.data \ zeros]
  BY <1>3 DEF Zeroed
<1> HIDE DEF zeros
<1>7. /\ n \in Memories /\ n.allocated = opn.allocated /\ n.data = opn.data \ zeros
      /\ n.readable = opn.readable /\ n.writable = opn.writable /\ n.executable = opn.executable
  BY <1>5, <1>6 DEF Memories
<1>8. AccessOf(n) = AccessOf(opn)
  BY <1>7 DEF AccessOf
<1>9. \A b \in AllBytes : PageOf(b) \in range <=> b \in zeros
  <2> TAKE b \in AllBytes
  <2>1. b \in Nat /\ c \in Nat /\ PAGE_SIZE \in Nat
    BY CeilBounds, MemoryAssumption DEF AllBytes
  <2>2. PageOf(b) \in Run(page, c) <=> address <= b /\ b < address + c * PAGE_SIZE
    BY <2>1, BytesOfRun DEF address
  <2>3. address \in Int /\ c * PAGE_SIZE \in Int
    BY <2>1 DEF address
  <2> HIDE DEF c
  <2>4. b \in zeros <=> address <= b /\ b < address + c * PAGE_SIZE
    BY <2>1, <2>3 DEF zeros
  <2> QED
    BY <2>2, <2>4 DEF c
<1>10. n.data \cap BytesOf(range) = {}
  BY <1>7, <1>9 DEF BytesOf
<1>11. ASSUME NEW p, p \notin range PROVE PageState(n, p) = PageState(m, p)
  <2>1. n.data \cap BytesOf({p}) = opn.data \cap BytesOf({p})
    BY <1>7, <1>9, <1>11 DEF BytesOf
  <2>2. PageState(n, p) = PageState(opn, p)
    BY <1>7, <2>1 DEF PageState
  <2> QED
    BY <1>2, <1>5, <1>11, <2>2
<1> QED
  BY <1>1, <1>5, <1>7, <1>8, <1>10, <1>11 DEF n

-----------------------------------------------------------------------------
(* The layout                                                              *)

LEMMA BytesBetween ==
  ASSUME NEW q \in Nat, NEW e \in Nat, q <= e, NEW a \in Nat
  PROVE  PageOf(a) \in q..(e - 1) <=> q * PAGE_SIZE <= a /\ a < e * PAGE_SIZE
<1>1. e - q \in Nat /\ PAGE_SIZE \in Nat
  BY MemoryAssumption
<1>2. q * PAGE_SIZE + (e - q) * PAGE_SIZE = e * PAGE_SIZE
  BY <1>1
<1>3. q + (e - q) - 1 = e - 1
  OBVIOUS
<1>4. PageOf(a) \in Run(q, e - q) <=> q * PAGE_SIZE <= a /\ a < q * PAGE_SIZE + (e - q) * PAGE_SIZE
  BY <1>1, BytesOfRun
<1> QED
  BY <1>2, <1>3, <1>4 DEF Run

\* The statement of LayoutSound for the layout that a setup computes
LEMMA SetupSound ==
  ASSUME NEW p \in Programs, mem = NewMemory,
         setup_linux_process(p), phase' = "running"
  PROVE  LayoutSound'
<1> DEFINE h == div_ceil(p.end)
<1>1. PICK g \in Nat :
        /\ h \in Nat /\ h <= g /\ g + 1 <= PAGES
        /\ mem' \in Memories
        /\ mem'.allocated = AllPages \ (h..(g - 1))
        /\ AccessOf(mem') \subseteq (PageOf(p.start)..(h - 1)) \cup ((g + 1)..(PAGES - 1))
        /\ ((g + 1)..(PAGES - 1)) \subseteq mem'.readable \cap mem'.writable
        /\ program' = <<align_down(p.start), h * PAGE_SIZE>>
        /\ heap' = <<h * PAGE_SIZE, g * PAGE_SIZE>>
        /\ stack_guard' = <<g * PAGE_SIZE, (g + 1) * PAGE_SIZE>>
  BY SetupFacts
<1>2. /\ PAGES \in Nat /\ PAGE_SIZE \in Nat \ {0} /\ TOTAL_BYTES = PAGES * PAGE_SIZE
      /\ TOTAL_BYTES \in Nat
  BY MemoryAssumption DEF TOTAL_BYTES
<1>3. p.start \in Nat /\ PageOf(p.start) \in Nat /\ align_down(p.start) = PageOf(p.start) * PAGE_SIZE
  <2>1. p.start \in Nat
    BY LinuxAssumption
  <2> QED
    BY <1>2, <2>1, PageBounds DEF align_down, PageOf
<1> HIDE DEF h
<1>4. program'[2] = heap'[1] /\ heap'[2] = stack_guard'[1]
  BY <1>1
<1>5. BytesOf(AllPages \ mem'.allocated) = heap'[1]..(heap'[2] - 1)
  <2>1. AllPages \ mem'.allocated = h..(g - 1)
    BY <1>1, <1>2 DEF AllPages
  <2>2. /\ h * PAGE_SIZE \in Nat /\ g * PAGE_SIZE \in Nat
        /\ g * PAGE_SIZE <= TOTAL_BYTES
    <3>1. g <= PAGES /\ g \in Int /\ PAGES \in Int /\ PAGE_SIZE \in Nat
      BY <1>1, <1>2
    <3>2. g * PAGE_SIZE <= PAGES * PAGE_SIZE
      BY <3>1, Times
    <3>3. h * PAGE_SIZE \in Nat /\ g * PAGE_SIZE \in Nat
      BY <1>1, <1>2
    <3> QED
      BY <1>2, <3>2, <3>3
  <2>3. \A b \in Nat : PageOf(b) \in h..(g - 1) <=> h * PAGE_SIZE <= b /\ b < g * PAGE_SIZE
    BY <1>1, BytesBetween
  <2>4. BytesOf(h..(g - 1)) = (h * PAGE_SIZE)..(g * PAGE_SIZE - 1)
    <3> DEFINE lo == h * PAGE_SIZE  hi == g * PAGE_SIZE
    <3> HIDE DEF lo, hi
    <3>1. lo \in Nat /\ hi \in Nat /\ hi <= TOTAL_BYTES
      BY <2>2 DEF lo, hi
    <3>2. \A b \in Nat : PageOf(b) \in h..(g - 1) <=> lo <= b /\ b < hi
      BY <2>3 DEF lo, hi
    <3>3. BytesOf(h..(g - 1)) = lo..(hi - 1)
      BY <1>2, <3>1, <3>2 DEF BytesOf, AllBytes
    <3> QED
      BY <3>3 DEF lo, hi
  <2> QED
    BY <1>1, <2>1, <2>4
<1>6. ASSUME NEW q \in AccessOf(mem')
      PROVE  \/ BytesOf({q}) \subseteq program'[1]..(program'[2] - 1)
             \/ BytesOf({q}) \subseteq stack_guard'[2]..(TOTAL_BYTES - 1)
  <2>1. CASE q \in PageOf(p.start)..(h - 1)
    <3>1. PageOf(p.start) <= h
      BY <1>1, <1>3, <2>1
    <3>2. \A b \in Nat : PageOf(b) \in PageOf(p.start)..(h - 1)
                           <=> PageOf(p.start) * PAGE_SIZE <= b /\ b < h * PAGE_SIZE
      BY <1>1, <1>3, <3>1, BytesBetween
    <3>3. PageOf(p.start) * PAGE_SIZE \in Int /\ h * PAGE_SIZE \in Int
      BY <1>1, <1>2, <1>3
    <3> DEFINE lo == PageOf(p.start) * PAGE_SIZE  hi == h * PAGE_SIZE
    <3>4. program'[1] = lo /\ program'[2] = hi
      BY <1>1, <1>3
    <3>5. \A b \in AllBytes : PageOf(b) = q => b \in lo..(hi - 1)
      BY <1>2, <2>1, <3>2, <3>3 DEF AllBytes
    <3> QED
      BY <3>4, <3>5 DEF BytesOf
  <2>2. CASE q \in (g + 1)..(PAGES - 1)
    <3>1. g + 1 \in Nat
      OBVIOUS
    <3>2. \A b \in Nat : PageOf(b) \in (g + 1)..(PAGES - 1)
                           <=> (g + 1) * PAGE_SIZE <= b /\ b < PAGES * PAGE_SIZE
      BY <1>1, <1>2, <3>1, BytesBetween
    <3>3. (g + 1) * PAGE_SIZE \in Int
      BY <1>1, <1>2
    <3> DEFINE lo == (g + 1) * PAGE_SIZE
    <3>4. stack_guard'[2] = lo
      BY <1>1
    <3>5. \A b \in AllBytes : PageOf(b) = q => b \in lo..(TOTAL_BYTES - 1)
      BY <1>2, <2>2, <3>2, <3>3 DEF AllBytes
    <3> QED
      BY <3>4, <3>5 DEF BytesOf
  <2> QED
    BY <1>1, <2>1, <2>2
<1>7. ASSUME NEW b \in stack_guard'[2]..(TOTAL_BYTES - 1)
      PROVE  PageOf(b) \in mem'.readable \cap mem'.writable
  <2>1. g + 1 \in Nat /\ stack_guard'[2] = (g + 1) * PAGE_SIZE /\ (g + 1) * PAGE_SIZE \in Nat
    BY <1>1, <1>2
  <2>2. b \in Nat /\ (g + 1) * PAGE_SIZE <= b /\ b < PAGES * PAGE_SIZE
    BY <1>2, <1>7, <2>1
  <2>3. PageOf(b) \in (g + 1)..(PAGES - 1)
    BY <1>1, <1>2, <2>1, <2>2, BytesBetween
  <2> QED
    BY <1>1, <2>3
<1> QED
  BY <1>4, <1>5, <1>6, <1>7 DEF LayoutSound, Accessible, AccessOf

-----------------------------------------------------------------------------
(* The invariant                                                           *)

\* OnlyHeldAccessible and LayoutSound are preserved only together with what
\* the process holds being allocated: otherwise mmap might hand out, and zero,
\* a page that it holds.
MemInv ==
  /\ phase = "new" => mem = NewMemory /\ opened = {}
  /\ phase = "running" => mem \in Memories /\ mapped \subseteq mem.allocated
  /\ OnlyHeldAccessible
  /\ LayoutSound

LEMMA InitMemInv == Init => MemInv
BY DEF Init, MemInv, OnlyHeldAccessible, LayoutSound

\* A system call that answers with an error, and a step that changes nothing
LEMMA SameMemInv ==
  ASSUME MemInv, UNCHANGED <<mem, layout, phase, mapped, opened>>,
         ret' = ret \/ ret'.call # "setup"
  PROVE  MemInv'
<1>1. Accessible' = Accessible
  BY DEF Accessible
<1>2. /\ mem' = mem /\ program' = program /\ heap' = heap /\ stack_guard' = stack_guard
      /\ phase' = phase /\ mapped' = mapped /\ opened' = opened
  BY DEF layout
<1>3. LayoutSound'
  <2>1. ret' = [call |-> "setup", res |-> "ok"] => ret = [call |-> "setup", res |-> "ok"]
    OBVIOUS
  <2>2. LayoutSound
    BY DEF MemInv
  <2> QED
    BY <1>1, <1>2, <2>1, <2>2 DEF LayoutSound
<1> QED
  BY <1>1, <1>2, <1>3 DEF MemInv, OnlyHeldAccessible

LEMMA SetupMemInv ==
  ASSUME MemInv, NEW p \in Programs, setup_linux_process(p)
  PROVE  MemInv'
<1>1. phase = "new" /\ mem = NewMemory /\ opened = {}
  BY DEF MemInv, setup_linux_process
<1>2. \/ phase' = "running"
      \/ phase' = "failed" /\ ret' = [call |-> "setup", res |-> "error"]
  BY DEF setup_linux_process, SetupFails
<1>3. CASE phase' = "running"
  <2> DEFINE h == div_ceil(p.end)
  <2>1. PICK g \in Nat :
          /\ h \in Nat /\ h <= g /\ g + 1 <= PAGES
          /\ mem' \in Memories
          /\ mem'.allocated = AllPages \ (h..(g - 1))
          /\ mapped' = AllPages \ (h..(g - 1))
          /\ AccessOf(mem') \subseteq (PageOf(p.start)..(h - 1)) \cup ((g + 1)..(PAGES - 1))
    BY <1>1, <1>3, SetupFacts
  <2> HIDE DEF h
  <2>2. PageOf(p.start) \in Nat /\ PAGES \in Nat
    BY ProgramPages, MemoryAssumption
  <2>3. AccessOf(mem') \subseteq mapped'
    BY <2>1, <2>2 DEF AllPages
  <2>4. LayoutSound'
    BY <1>1, <1>3, SetupSound
  <2> QED
    BY <1>3, <2>1, <2>3, <2>4 DEF MemInv, OnlyHeldAccessible, Accessible, AccessOf
<1>4. CASE phase' = "failed" /\ ret' = [call |-> "setup", res |-> "error"]
  BY <1>4 DEF MemInv, OnlyHeldAccessible, LayoutSound
<1> QED
  BY <1>2, <1>3, <1>4

\* A successful mmap, from what it got from the allocator
LEMMA MmapStep ==
  ASSUME MemInv, NEW addr \in Addresses, NEW length \in Lengths, NEW perms, NEW hint \in Hints,
         handle_mmap(addr, length, perms, hint)
  PROVE  /\ phase = "running"
         /\ ret'.call = hint
         /\ \/ UNCHANGED <<mem, layout, phase, mapped, opened>>
            \/ \E range \in SUBSET AllPages :
                 /\ mem' \in Memories
                 /\ mem'.allocated = mem.allocated \cup range
                 /\ AccessOf(mem') \subseteq AccessOf(mem) \cup range
                 /\ mem'.data \cap BytesOf(range) = {}
                 /\ \A p : p \notin range => PageState(mem', p) = PageState(mem, p)
                 /\ hint # "fixed" => range \cap mem.allocated = {}
                 /\ mapped' = mapped \cup range /\ opened' = opened \ range
                 /\ UNCHANGED <<layout, phase>>
<1> DEFINE at == IF hint = "hint" THEN {} ELSE {addr}
           r == allocate_pages(mem, at, length, hint = "fixed")
           page == CHOOSE i \in r.ret : TRUE
           range == Run(page, div_ceil(length))
<1>1. phase = "running" /\ mem \in Memories /\ addr \in Nat /\ length \in Nat
  BY LinuxAssumption DEF handle_mmap, MemInv
<1>2. \/ /\ ret'.call = hint /\ UNCHANGED <<mem, layout, phase, mapped, opened>>
      \/ /\ length # 0 /\ r.ret # None
         /\ mem' = allocate_and_protect_pages(mem, r, length, perms)
         /\ ret'.call = hint
         /\ mapped' = mapped \cup range /\ opened' = opened \ range
         /\ UNCHANGED <<layout, phase>>
  BY DEF handle_mmap, Fails, Return
<1>3. CASE length # 0 /\ r.ret # None
           /\ mem' = allocate_and_protect_pages(mem, r, length, perms)
  <2>0. (at = {} \/ \E a \in Nat : at = {a}) /\ r.ret # None
    BY <1>1, <1>3
  <2>1. PICK i \in Nat :
          /\ r.ret = {i}
          /\ Run(i, div_ceil(length)) \subseteq AllPages
          /\ r.set = mem.allocated \cup Run(i, div_ceil(length))
          /\ hint # "fixed" => Run(i, div_ceil(length)) \cap mem.allocated = {}
    <3>1. CASE hint = "fixed"
      <4>1. r = allocate_pages(mem, at, length, TRUE)
        BY <3>1
      <4> HIDE DEF r, at
      <4> QED
        BY <1>1, <2>0, <3>1, <4>1, AllocateReplace
    <3>2. CASE hint # "fixed"
      <4>1. r = allocate_pages(mem, at, length, FALSE)
        BY <3>2
      <4> HIDE DEF r, at
      <4> QED
        BY <1>1, <2>0, <3>2, <4>1, AllocateFree
    <3> QED
      BY <3>1, <3>2
  <2> HIDE DEF r, at
  <2>2. page = i /\ range = Run(i, div_ceil(length))
    BY <2>1
  <2> HIDE DEF page, range
  <2> DEFINE n == allocate_and_protect_pages(mem, r, length, perms)
  <2>3. /\ n \in Memories
        /\ n.allocated = mem.allocated \cup range
        /\ AccessOf(n) \subseteq AccessOf(mem) \cup range
        /\ n.data \cap BytesOf(range) = {}
        /\ \A p : p \notin range => PageState(n, p) = PageState(mem, p)
    <3>1. length # 0 /\ range \subseteq AllPages /\ r.set = mem.allocated \cup range
      BY <1>3, <2>1, <2>2
    <3> QED
      BY <1>1, <2>1, <2>2, <3>1, MmapFacts
  <2> HIDE DEF n
  <2>4. mem' = n
    BY <1>3 DEF n
  <2>5. range \in SUBSET AllPages /\ (hint # "fixed" => range \cap mem.allocated = {})
    BY <2>1, <2>2
  <2> QED
    BY <1>1, <1>2, <2>3, <2>4, <2>5
<1> QED
  BY <1>1, <1>2, <1>3

\* munmap frees no more pages than it takes the access away from
LEMMA MunmapMemInv ==
  ASSUME MemInv, NEW addr \in Addresses, NEW length \in Lengths,
         handle_munmap(addr, length)
  PROVE  MemInv'
<1>1. phase = "running" /\ mem \in Memories /\ addr \in Nat /\ length \in Nat
  BY LinuxAssumption DEF handle_munmap, MemInv
<1>2. CASE Fails("munmap", "InvalidArgument")
  BY <1>2, SameMemInv DEF Fails, Return
<1>3. CASE /\ mem' = deallocate_and_protect_pages(mem, addr, length)
           /\ Return("munmap", "ok")
           /\ mapped' = mapped \ Touched(addr, length)
           /\ opened' = opened \ Touched(addr, length)
           /\ UNCHANGED <<layout, phase>>
  <2> DEFINE freed == deallocate_pages(mem, addr, length)
             run == Run(PageOf(addr), div_ceil(length))
             S == Deallocated(mem.allocated, PAGES, PageOf(addr), div_ceil(length))
  <2>1. S \subseteq mem.allocated /\ mem.allocated \ run \subseteq S
    BY DEF Deallocated
  <2>2. freed = [mem EXCEPT !.allocated = S]
    BY DEF deallocate_pages
  <2> HIDE DEF S, freed
  <2>3. freed \in Memories /\ freed.allocated = S /\ AccessOf(freed) = AccessOf(mem)
    BY <1>1, <2>1, <2>2 DEF Memories, AccessOf
  <2>4. mem' = protect_pages(freed, addr, length, NONE)
    BY <1>3 DEF deallocate_and_protect_pages, freed
  <2>5. /\ mem' \in Memories /\ mem'.allocated = S
        /\ AccessOf(mem') = AccessOf(mem) \ Touched(addr, length)
    BY <2>3, <2>4, ProtectFacts, ProtectNone
  <2>6. run \subseteq Touched(addr, length)
    BY <1>1, RunTouched
  <2>7. mapped \subseteq mem.allocated /\ AccessOf(mem) \subseteq mapped \cup opened
    BY <1>1 DEF MemInv, OnlyHeldAccessible, Accessible, AccessOf
  <2>8. mapped' \subseteq mem'.allocated /\ AccessOf(mem') \subseteq mapped' \cup opened'
    BY <1>3, <2>1, <2>5, <2>6, <2>7
  <2>9. phase' = "running" /\ ret'.call = "munmap"
    BY <1>1, <1>3 DEF Return
  <2> QED
    BY <2>5, <2>8, <2>9 DEF MemInv, OnlyHeldAccessible, LayoutSound, Accessible, AccessOf
<1> QED
  BY <1>2, <1>3 DEF handle_munmap

LEMMA MprotectMemInv ==
  ASSUME MemInv, NEW addr \in Addresses, NEW length \in Lengths, NEW perms,
         handle_mprotect(addr, length, perms)
  PROVE  MemInv'
<1>1. phase = "running" /\ mem \in Memories
  BY DEF handle_mprotect, MemInv
<1>2. CASE Fails("mprotect", "InvalidArgument") \/ Fails("mprotect", "NoMemory")
  BY <1>2, SameMemInv DEF Fails, Return
<1>3. CASE /\ mem' = protect_pages(mem, addr, length, perms)
           /\ Return("mprotect", "ok")
           /\ opened' = IF perms = NONE THEN opened \ Touched(addr, length)
                        ELSE opened \cup (Touched(addr, length) \ mapped)
           /\ UNCHANGED <<layout, phase, mapped>>
  <2>1. /\ mem' \in Memories /\ mem'.allocated = mem.allocated
        /\ AccessOf(mem') \subseteq AccessOf(mem) \cup Touched(addr, length)
        /\ perms = NONE => AccessOf(mem') = AccessOf(mem) \ Touched(addr, length)
    BY <1>1, <1>3, ProtectFacts, ProtectNone
  <2>2. mapped \subseteq mem.allocated /\ AccessOf(mem) \subseteq mapped \cup opened
    BY <1>1 DEF MemInv, OnlyHeldAccessible, Accessible, AccessOf
  <2>3. mapped' \subseteq mem'.allocated /\ AccessOf(mem') \subseteq mapped' \cup opened'
    BY <1>3, <2>1, <2>2
  <2>4. phase' = "running" /\ ret'.call = "mprotect"
    BY <1>1, <1>3 DEF Return
  <2> QED
    BY <2>1, <2>3, <2>4 DEF MemInv, OnlyHeldAccessible, LayoutSound, Accessible, AccessOf
<1> QED
  BY <1>2, <1>3 DEF handle_mprotect

LEMMA StoreMemInv ==
  ASSUME MemInv, NEW addr \in Addresses, NEW length \in Lengths, NEW nonzero \in BOOLEAN,
         Store(addr, length, nonzero)
  PROVE  MemInv'
<1>1. phase = "running" /\ mem \in Memories /\ addr \in Nat /\ length \in Nat
  BY LinuxAssumption DEF Store, MemInv
<1>2. CASE Fails("store", "Fault")
  BY <1>2, SameMemInv DEF Fails, Return
<1>3. CASE /\ can_access(mem.writable, addr, length)
           /\ mem' = Written(mem, addr, length, nonzero)
           /\ Return("store", "ok")
           /\ UNCHANGED <<layout, phase, mapped, opened>>
  <2>1. InBounds(addr, length)
    BY <1>3 DEF can_access
  <2>2. /\ mem' \in Memories /\ mem'.allocated = mem.allocated
        /\ mem'.readable = mem.readable /\ mem'.writable = mem.writable
        /\ mem'.executable = mem.executable
    BY <1>1, <1>3, <2>1, WrittenFacts
  <2>3. phase' = "running" /\ ret'.call = "store" /\ mapped' = mapped /\ opened' = opened
    BY <1>1, <1>3 DEF Return
  <2>4. OnlyHeldAccessible'
    BY <1>1, <2>2, <2>3 DEF MemInv, OnlyHeldAccessible, Accessible
  <2>5. LayoutSound'
    BY <2>3 DEF LayoutSound
  <2> QED
    BY <1>1, <2>2, <2>3, <2>4, <2>5 DEF MemInv
<1> QED
  BY <1>2, <1>3 DEF Store

LEMMA MmapMemInv ==
  ASSUME MemInv, NEW addr \in Addresses, NEW length \in Lengths, NEW perms, NEW hint \in Hints,
         handle_mmap(addr, length, perms, hint)
  PROVE  MemInv'
<1>1. phase = "running" /\ ret'.call = hint /\ hint # "setup"
  BY MmapStep DEF Hints
<1>2. CASE UNCHANGED <<mem, layout, phase, mapped, opened>>
  BY <1>1, <1>2, SameMemInv
<1>3. CASE \E range \in SUBSET AllPages :
             /\ mem' \in Memories
             /\ mem'.allocated = mem.allocated \cup range
             /\ AccessOf(mem') \subseteq AccessOf(mem) \cup range
             /\ mapped' = mapped \cup range /\ opened' = opened \ range
             /\ UNCHANGED <<layout, phase>>
  <2>1. mapped \subseteq mem.allocated /\ AccessOf(mem) \subseteq mapped \cup opened
    BY <1>1 DEF MemInv, OnlyHeldAccessible, Accessible, AccessOf
  <2>2. /\ mem' \in Memories /\ phase' = "running"
        /\ mapped' \subseteq mem'.allocated /\ AccessOf(mem') \subseteq mapped' \cup opened'
    BY <1>1, <1>3, <2>1
  <2> QED
    BY <1>1, <2>2 DEF MemInv, OnlyHeldAccessible, LayoutSound, Accessible, AccessOf
<1> QED
  BY <1>2, <1>3, MmapStep

LEMMA NextMemInv == MemInv /\ [Next]_vars => MemInv'
<1> SUFFICES ASSUME MemInv, [Next]_vars PROVE MemInv'
  OBVIOUS
<1>1. CASE UNCHANGED vars
  BY <1>1, SameMemInv DEF vars, layout
<1>2. ASSUME NEW p \in Programs, setup_linux_process(p) PROVE MemInv'
  BY <1>2, SetupMemInv
<1>3. ASSUME NEW addr \in Addresses, NEW length \in Lengths, NEW perms \in Perms,
             NEW hint \in Hints, handle_mmap(addr, length, perms, hint)
      PROVE  MemInv'
  BY <1>3, MmapMemInv
<1>4. ASSUME NEW addr \in Addresses, NEW length \in Lengths, NEW perms \in Perms,
             handle_mprotect(addr, length, perms)
      PROVE  MemInv'
  BY <1>4, MprotectMemInv
<1>5. ASSUME NEW addr \in Addresses, NEW length \in Lengths, handle_munmap(addr, length)
      PROVE  MemInv'
  BY <1>5, MunmapMemInv
<1>6. ASSUME NEW addr \in Addresses, NEW length \in Lengths, NEW nonzero \in BOOLEAN,
             Store(addr, length, nonzero)
      PROVE  MemInv'
  BY <1>6, StoreMemInv
<1>7. CASE handle_mmap_unsupported
  BY <1>7, SameMemInv DEF handle_mmap_unsupported, Fails, Return
<1> QED
  BY <1>1, <1>2, <1>3, <1>4, <1>5, <1>6, <1>7 DEF Next

\* The layout that setup_linux_process computes is sound, for every program
\* and every size of memory, page and stack.
THEOREM LayoutIsSound == Spec => []LayoutSound
<1>1. MemInv => LayoutSound
  BY DEF MemInv
<1> QED
  BY <1>1, InitMemInv, NextMemInv, PTL DEF Spec

\* The process can access only what it holds or has opened itself, whatever
\* it maps, unmaps and protects (linux.rs, memory/state.rs).
THEOREM AccessOnlyHeld == Spec => []OnlyHeldAccessible
<1>1. MemInv => OnlyHeldAccessible
  BY DEF MemInv
<1> QED
  BY <1>1, InitMemInv, NextMemInv, PTL DEF Spec

\* A page that the process did not hold and gets from mmap is zero, for every
\* length and page size (allocate_and_protect_pages).
THEOREM FreshPagesZero == Spec => FreshIsZero
<1> DEFINE Fresh == phase = "running" => mem'.data \cap BytesOf(mapped' \ mapped) = {}
<1>1. MemInv /\ [Next]_vars => [Fresh]_vars
  <2> SUFFICES ASSUME MemInv, Next, phase = "running"
               PROVE  mem'.data \cap BytesOf(mapped' \ mapped) = {}
    OBVIOUS
  <2>1. CASE mapped' \subseteq mapped
    BY <2>1 DEF BytesOf
  <2>2. ASSUME NEW addr \in Addresses, NEW length \in Lengths, NEW perms \in Perms,
               NEW hint \in Hints, handle_mmap(addr, length, perms, hint)
        PROVE  mem'.data \cap BytesOf(mapped' \ mapped) = {}
    <3>1. mapped' = mapped \/ \E range : mem'.data \cap BytesOf(range) = {} /\ mapped' = mapped \cup range
      BY <2>2, MmapStep
    <3> QED
      BY <2>1, <3>1 DEF BytesOf
  <2>3. \/ mapped' \subseteq mapped
        \/ \E addr \in Addresses, length \in Lengths, perms \in Perms, hint \in Hints :
             handle_mmap(addr, length, perms, hint)
    BY DEF Next, setup_linux_process, handle_mprotect, handle_munmap, Store,
           handle_mmap_unsupported, Fails
  <2> QED
    BY <2>1, <2>2, <2>3
<1> QED
  BY <1>1, InitMemInv, NextMemInv, PTL DEF Spec, FreshIsZero

\* mmap that was not told to replace leaves every page the process holds as it
\* is (handle_mmap).
THEOREM HeldStaysAsItIs == Spec => HeldUndisturbed
<1> DEFINE Same == ret'.call \in {"hint", "fixed_noreplace"} =>
                     \A p \in mapped : p \in mapped' /\ PageState(mem', p) = PageState(mem, p)
<1>1. MemInv /\ [Next]_vars => [Same]_vars
  <2> SUFFICES ASSUME MemInv, Next, ret'.call \in {"hint", "fixed_noreplace"},
                      NEW p \in mapped
               PROVE  p \in mapped' /\ PageState(mem', p) = PageState(mem, p)
    OBVIOUS
  <2>1. PICK addr \in Addresses, length \in Lengths, perms \in Perms, hint \in Hints :
          handle_mmap(addr, length, perms, hint)
    <3>1. \A q \in Programs : setup_linux_process(q) => ret'.call = "setup"
      BY DEF setup_linux_process, SetupFails
    <3>2. /\ \A a, l, x : handle_mprotect(a, l, x) => ret'.call = "mprotect"
          /\ \A a, l : handle_munmap(a, l) => ret'.call = "munmap"
          /\ \A a, l, x : Store(a, l, x) => ret'.call = "store"
          /\ handle_mmap_unsupported => ret'.call = "mmap"
      BY DEF handle_mprotect, handle_munmap, Store, handle_mmap_unsupported, Fails, Return
    <3> QED
      BY <3>1, <3>2 DEF Next
  <2>2. phase = "running" /\ hint # "fixed"
    BY <2>1, MmapStep
  <2>3. mapped \subseteq mem.allocated
    BY <2>2 DEF MemInv
  <2>4. CASE UNCHANGED <<mem, mapped>>
    BY <2>4
  <2>5. CASE \E range : /\ range \cap mem.allocated = {}
                        /\ \A q : q \notin range => PageState(mem', q) = PageState(mem, q)
                        /\ mapped' = mapped \cup range
    BY <2>3, <2>5
  <2> QED
    BY <2>1, <2>2, <2>4, <2>5, MmapStep
<1> QED
  BY <1>1, InitMemInv, NextMemInv, PTL DEF Spec, HeldUndisturbed
=============================================================================
