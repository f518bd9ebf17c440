------------------------ MODULE BudgetedMachineProofs -------------------------
(***************************************************************************)
(* Proofs, for caches, pages, memories and budgets of any size, that the   *)
(* block cache never runs a stale block and that step budgets do not       *)
(* change what the machine executes.                                       *)
(***************************************************************************)
EXTENDS BudgetedMachine, SequenceTheorems, TLAPS

(* cache_index stays within the table. *)
LEMMA IndexType == \A a \in Nat : CacheIndex(a) \in Index
<1> SUFFICES ASSUME NEW a \in Nat PROVE CacheIndex(a) \in Index
  OBVIOUS
<1>1. a \div 2 \in Nat
  OBVIOUS
<1> QED BY <1>1, CacheAssumption DEF CacheIndex, Index

(* Every entry is swept away by some value of the fence counter. *)
LEMMA SweepHits == \A x \in Index : \E k \in Fence : CacheIndex(k) = x
<1> SUFFICES ASSUME NEW x \in Index PROVE \E k \in Fence : CacheIndex(k) = x
  OBVIOUS
<1>1. 2 * x \in Fence
  BY CacheAssumption DEF Index, Fence
<1>2. (2 * x) \div 2 = x
  BY DEF Index
<1>3. x % SIZE = x
  BY CacheAssumption DEF Index
<1> QED BY <1>1, <1>2, <1>3 DEF CacheIndex

LEMMA ZeroAddr == 0 \in Addr /\ 0 % PAGE_SIZE = 0
BY CacheAssumption DEF Addr

(* One more counter value goes by when the counter advances; when it comes *)
(* round to f again, all of them have.                                     *)
LEMMA PassedStep ==
    ASSUME NEW f \in Fence, NEW g \in Fence
    PROVE  /\ NextFence(g) \in Fence
           /\ NextFence(g) # f => Passed(f, NextFence(g)) = Passed(f, g) \cup {g}
           /\ NextFence(g) = f => Passed(f, g) \cup {g} = Fence
           /\ Passed(f, f) = {}
BY CacheAssumption DEF Fence, NextFence, Passed

-----------------------------------------------------------------------------
(* Where cache_inner puts an instruction: the block under construction,    *)
(* which it continues without crossing into a page, or one of its own.     *)
LEMMA TargetFacts ==
    ASSUME CacheInv, NEW a \in Addr
    PROVE  LET to == Target(a)
               e == entry[CacheIndex(to.block)]
           IN /\ to.starts => to.block = a
              /\ ~to.starts => /\ to.block = current /\ current \in Addr /\ a = next
                               /\ a % PAGE_SIZE # 0
                               /\ BlockHit(current)
                               /\ e.addr = to.block
                               /\ e.fence = fence
                               /\ Len(e.instr) < CACHE_INSTR
<1> DEFINE to == Target(a)
           b == to.block
           x == CacheIndex(b)
<1>types. /\ entry \in [Index -> [addr : Addr \cup {NoAddr}, fence : Fence,
                                 instr : Seq(CachedInstr)]]
          /\ current \in Addr \cup {NoAddr}
          /\ a # NoAddr
  BY DEF CacheInv, CacheTypeOK, Addr, NoAddr
<1>idx. \A c \in Addr : CacheIndex(c) \in Index
  BY IndexType DEF Addr
<1>cont. ~to.starts => /\ b = current /\ current \in Addr /\ a = next /\ a % PAGE_SIZE # 0
                      /\ BlockHit(current)
                      /\ entry[x].addr = b
                      /\ entry[x].fence = fence
                      /\ Len(entry[x].instr) < CACHE_INSTR
  <2> SUFFICES ASSUME ~to.starts
               PROVE  /\ b = current /\ current \in Addr /\ a = next /\ a % PAGE_SIZE # 0
                      /\ BlockHit(current)
                      /\ entry[x].addr = b
                      /\ entry[x].fence = fence
                      /\ Len(entry[x].instr) < CACHE_INSTR
    OBVIOUS
  <2>1. /\ b = current /\ ~Restart(a)
        /\ entry[CacheIndex(current)].addr = current
        /\ current # a
        /\ Len(entry[CacheIndex(current)].instr) # CACHE_INSTR
    BY DEF Target
  <2>2. a = next /\ a % PAGE_SIZE # 0
    BY <2>1 DEF Restart
  <2>3. current # NoAddr
    BY <2>2, <1>types, ZeroAddr DEF CacheInv, BuildingBlock
  <2>4. BlockHit(current)
    BY <2>3 DEF CacheInv, BuildingBlock
  <2>5. CacheIndex(current) \in Index /\ current \in Addr
    BY <2>3, <1>types, <1>idx
  <2>6. Len(entry[CacheIndex(current)].instr) <= CACHE_INSTR
    BY <2>5 DEF CacheInv, BlocksContiguous
  <2>7. Len(entry[CacheIndex(current)].instr) \in Nat
    BY <2>5, <1>types
  <2> QED BY <2>1, <2>2, <2>3, <2>4, <2>5, <2>6, <2>7, CacheAssumption DEF BlockHit
<1>start. to.starts => b = a
  <2>1. CASE Restart(a)
    BY <2>1 DEF Target
  <2>2. CASE ~Restart(a)
    <3>1. a = next /\ a % PAGE_SIZE # 0
      BY <2>2 DEF Restart
    <3>2. current # NoAddr
      BY <3>1, <1>types, ZeroAddr DEF CacheInv, BuildingBlock
    <3>3. BlockHit(current)
      BY <3>2 DEF CacheInv, BuildingBlock
    <3> QED BY <2>2, <3>3 DEF Target, BlockHit
  <2> QED BY <2>1, <2>2
<1> QED BY <1>cont, <1>start

(* Appending to or starting a block leaves the cache consistent.           *)
LEMMA CacheInnerPreserves ==
    ASSUME CacheInv, NEW a \in Addr, NEW w \in Width, a + w <= MEMORY,
           CacheInner(a, w)
    PROVE  CacheInv'
<1> DEFINE to == Target(a)
           b == to.block
           x == CacheIndex(b)
           n == a + w
           i == [addr |-> a, width |-> w]
           old == IF to.starts THEN << >> ELSE entry[x].instr
           code == Append(old, i)
           joins == Joins(b, n, Len(code))
           y == CacheIndex(n)
           all == IF joins THEN code \o entry[y].instr ELSE code
           new == [addr |-> b, fence |-> IF to.starts THEN fence ELSE entry[x].fence,
                   instr |-> all]
<1>types. /\ entry \in [Index -> [addr : Addr \cup {NoAddr}, fence : Fence,
                                 instr : Seq(CachedInstr)]]
          /\ fence \in Fence
          /\ current \in Addr \cup {NoAddr}
          /\ fresh \in [Index -> BOOLEAN]
          /\ i \in CachedInstr
          /\ a \in Nat /\ n \in Nat /\ n % 2 = 0 /\ a # NoAddr /\ n # NoAddr
  <2>1. CacheTypeOK
    BY DEF CacheInv
  <2>2. /\ a \in Nat /\ n \in Nat /\ n % 2 = 0 /\ a # NoAddr /\ n # NoAddr
    BY CacheAssumption DEF Addr, NoAddr, Width
  <2>3. i \in CachedInstr
    BY DEF CachedInstr
  <2> QED BY <2>1, <2>2, <2>3 DEF CacheTypeOK
<1>idx. \A c \in Addr : CacheIndex(c) \in Index
  BY IndexType DEF Addr
<1>y. y \in Index
  BY <1>types, IndexType
<1>cont. ~to.starts => /\ b = current /\ current # NoAddr /\ a = next
                      /\ BlockHit(current)
                      /\ entry[x].addr = b
                      /\ entry[x].fence = fence
                      /\ Len(entry[x].instr) < CACHE_INSTR
  BY TargetFacts DEF Addr, NoAddr
<1>start. to.starts => b = a
  BY TargetFacts
<1>b. b \in Addr /\ b # NoAddr /\ x \in Index
  BY <1>start, <1>cont, <1>types, <1>idx
<1> HIDE DEF to
<1>old. /\ old \in Seq(CachedInstr)
        /\ Len(old) < CACHE_INSTR
        /\ old = << >> => b = a
        /\ old # << >> => old[1].addr = b
        /\ \A k \in 1..(Len(old) - 1) : old[k + 1].addr = old[k].addr + old[k].width
        /\ old # << >> => a = old[Len(old)].addr + old[Len(old)].width
  <2>1. CASE to.starts
    BY <2>1, <1>start, CacheAssumption
  <2>2. CASE ~to.starts
    <3>1. old = entry[x].instr
      BY <2>2
    <3>2. old \in Seq(CachedInstr)
      BY <3>1, <1>types, <1>b
    <3>3. old # << >> /\ Len(old) < CACHE_INSTR
      BY <2>2, <3>1, <1>cont DEF BlockHit
    <3>4. /\ old[1].addr = b
          /\ \A k \in 1..(Len(old) - 1) : old[k + 1].addr = old[k].addr + old[k].width
      BY <2>2, <3>1, <3>3, <1>b, <1>cont DEF CacheInv, BlocksContiguous
    <3>5. a = old[Len(old)].addr + old[Len(old)].width
      BY <2>2, <3>1, <1>cont DEF CacheInv, BuildingBlock
    <3> QED BY <3>2, <3>3, <3>4, <3>5
  <2> QED BY <2>1, <2>2
<1> HIDE DEF old
<1>code. /\ code \in Seq(CachedInstr)
         /\ code # << >>
         /\ Len(code) \in Nat /\ Len(code) > 0 /\ Len(code) <= CACHE_INSTR
         /\ code[1].addr = b
         /\ code[Len(code)] = i
         /\ \A k \in 1..(Len(code) - 1) : code[k + 1].addr = code[k].addr + code[k].width
  <2>1. /\ code \in Seq(CachedInstr)
        /\ Len(old) \in Nat
        /\ Len(code) = Len(old) + 1
        /\ code[Len(code)] = i
        /\ \A k \in 1..Len(old) : code[k] = old[k]
    BY <1>old, <1>types
  <2>2. code[1].addr = b
    <3>1. CASE old = << >>
      BY <3>1, <2>1, <1>old
    <3>2. CASE old # << >>
      BY <3>2, <2>1, <1>old
    <3> QED BY <3>1, <3>2
  <2>3. ASSUME NEW k \in 1..(Len(code) - 1)
        PROVE  code[k + 1].addr = code[k].addr + code[k].width
    <3>1. CASE k = Len(old)
      <4>1. old # << >>
        BY <3>1
      <4>2. code[k] = old[Len(old)] /\ code[k + 1] = i
        BY <2>1, <3>1
      <4> QED BY <4>1, <4>2, <1>old
    <3>2. CASE k # Len(old)
      <4>1. k \in 1..(Len(old) - 1) /\ k \in 1..Len(old) /\ k + 1 \in 1..Len(old)
        BY <3>2, <2>1
      <4> QED BY <4>1, <2>1, <1>old
    <3> QED BY <3>1, <3>2
  <2>4. code # << >> /\ Len(code) \in Nat /\ Len(code) > 0 /\ Len(code) <= CACHE_INSTR
    BY <2>1, <1>old, CacheAssumption
  <2> QED BY <2>1, <2>2, <2>3, <2>4
<1>joins. joins => /\ x # y
                  /\ entry[y].addr = n
                  /\ entry[y].fence = fence
                  /\ Len(entry[y].instr) + Len(code) <= CACHE_INSTR
  BY DEF Joins
<1> HIDE DEF code, joins
<1>adj. joins => /\ entry[y].instr \in Seq(CachedInstr)
                /\ entry[y].instr # << >>
                /\ entry[y].instr[1].addr = n
                /\ fresh[y]
                /\ \A k \in 1..(Len(entry[y].instr) - 1) :
                      entry[y].instr[k + 1].addr = entry[y].instr[k].addr + entry[y].instr[k].width
  <2> SUFFICES ASSUME joins
               PROVE  /\ entry[y].instr \in Seq(CachedInstr)
                      /\ entry[y].instr # << >>
                      /\ entry[y].instr[1].addr = n
                      /\ fresh[y]
                      /\ \A k \in 1..(Len(entry[y].instr) - 1) :
                            entry[y].instr[k + 1].addr = entry[y].instr[k].addr + entry[y].instr[k].width
    OBVIOUS
  <2>1. entry[y].addr # NoAddr
    BY <1>joins, <1>types
  <2>2. fresh[y]
    BY <2>1, <1>joins, <1>y DEF CacheInv, FenceSweep
  <2>3. entry[y].instr \in Seq(CachedInstr)
    BY <1>types, <1>y
  <2>4. entry[y].instr # << >> /\ entry[y].instr[1].addr = n
    BY <2>1, <1>joins, <1>y DEF CacheInv, BlocksContiguous
  <2>5. \A k \in 1..(Len(entry[y].instr) - 1) :
           entry[y].instr[k + 1].addr = entry[y].instr[k].addr + entry[y].instr[k].width
    BY <1>y DEF CacheInv, BlocksContiguous
  <2> QED BY <2>2, <2>3, <2>4, <2>5
<1>all. /\ all \in Seq(CachedInstr)
        /\ all # << >>
        /\ Len(all) <= CACHE_INSTR
        /\ all[1].addr = b
        /\ \A k \in 1..(Len(all) - 1) : all[k + 1].addr = all[k].addr + all[k].width
        /\ ~joins => all[Len(all)] = i
  <2>1. CASE ~joins
    BY <2>1, <1>code
  <2>2. CASE joins
    <3> DEFINE r == entry[y].instr
    <3>1. all = code \o r
      BY <2>2
    <3>r. r \in Seq(CachedInstr) /\ r # << >> /\ r[1].addr = n
      BY <2>2, <1>adj
    <3>rc. \A k \in 1..(Len(r) - 1) : r[k + 1].addr = r[k].addr + r[k].width
      BY <2>2, <1>adj
    <3>rl. Len(r) + Len(code) <= CACHE_INSTR
      BY <2>2, <1>joins
    <3> HIDE DEF r
    <3>2. /\ code \o r \in Seq(CachedInstr)
          /\ Len(code \o r) = Len(code) + Len(r)
          /\ Len(r) \in Nat /\ Len(r) > 0
          /\ \A k \in 1..Len(code) : (code \o r)[k] = code[k]
          /\ \A k \in 1..Len(r) : (code \o r)[Len(code) + k] = r[k]
      BY <1>code, <3>r
    <3> HIDE DEF all
    <3>3. /\ all \in Seq(CachedInstr) /\ Len(all) = Len(code) + Len(r)
          /\ \A k \in 1..Len(code) : all[k] = code[k]
          /\ \A k \in 1..Len(r) : all[Len(code) + k] = r[k]
      BY <3>1, <3>2
    <3>4. all # << >> /\ Len(all) <= CACHE_INSTR /\ all[1].addr = b
      <4>1. Len(all) <= CACHE_INSTR
        BY <3>3, <3>rl, <3>2, <1>code
      <4>2. Len(all) # 0
        BY <3>3, <3>2, <1>code
      <4>3. all[1] = code[1]
        <5>1. 1 \in 1..Len(code)
          BY <1>code
        <5> QED BY <5>1, <3>3
      <4> QED BY <4>1, <4>2, <4>3, <1>code
    <3>5. ASSUME NEW k \in 1..(Len(all) - 1)
          PROVE  all[k + 1].addr = all[k].addr + all[k].width
      <4>1. CASE k < Len(code)
        <5>1. k \in 1..(Len(code) - 1) /\ k \in 1..Len(code) /\ k + 1 \in 1..Len(code)
          BY <4>1, <1>code
        <5> QED BY <5>1, <3>3, <1>code
      <4>2. CASE k = Len(code)
        <5>1. all[k] = i
          BY <4>2, <3>3, <1>code
        <5>2. all[k + 1] = r[1]
          BY <4>2, <3>3, <3>2, <1>code
        <5> QED BY <5>1, <5>2, <3>r
      <4>3. CASE k > Len(code)
        <5> DEFINE j == k - Len(code)
        <5>1. j \in 1..(Len(r) - 1) /\ j \in 1..Len(r) /\ j + 1 \in 1..Len(r)
          BY <4>3, <3>2, <3>3, <1>code
        <5>2. k = Len(code) + j /\ k + 1 = Len(code) + (j + 1)
          BY <1>code
        <5> HIDE DEF j
        <5>3. all[Len(code) + j] = r[j] /\ all[Len(code) + (j + 1)] = r[j + 1]
          BY <5>1, <3>3
        <5>4. all[k] = r[j] /\ all[k + 1] = r[j + 1]
          BY <5>2, <5>3
        <5> QED BY <5>1, <5>4, <3>rc
      <4> QED BY <4>1, <4>2, <4>3, <1>code
    <3> QED BY <2>2, <3>3, <3>4, <3>5
  <2> QED BY <2>1, <2>2
<1> HIDE DEF all
<1>new. /\ new \in [addr : Addr \cup {NoAddr}, fence : Fence, instr : Seq(CachedInstr)]
        /\ new.addr = b /\ new.fence = fence /\ new.instr = all
  BY <1>b, <1>all, <1>types, <1>cont
<1>entry. entry' = [entry EXCEPT ![x] = new]
  BY DEF CacheInner, all, code, joins, old, to
<1>fresh. fresh' = [fresh EXCEPT ![x] = (to.starts \/ fresh[x]) /\ (joins => fresh[y])]
  BY DEF CacheInner, all, code, joins, old, to
<1>build. /\ current' = IF joins THEN NoAddr ELSE b
          /\ next' = IF joins THEN NoAddr ELSE n
          /\ fence' = fence
  BY DEF CacheInner, all, code, joins, old, to
<1> HIDE DEF new
<1>x. /\ entry'[x] = new
      /\ \A z \in Index \ {x} : entry'[z] = entry[z] /\ fresh'[z] = fresh[z]
  BY <1>entry, <1>fresh, <1>b, <1>types
<1>freshx. fresh'[x]
  <2>1. ~to.starts => fresh[x]
    BY <1>cont, <1>b DEF CacheInv, FenceSweep
  <2> QED BY <2>1, <1>fresh, <1>adj, <1>b, <1>types
<1>1. CacheTypeOK'
  <2>1. entry' \in [Index -> [addr : Addr \cup {NoAddr}, fence : Fence, instr : Seq(CachedInstr)]]
    BY <1>entry, <1>new, <1>types
  <2>2. current' \in Addr \cup {NoAddr}
    BY <1>build, <1>b
  <2>3. n \in 0..(MEMORY + 2)
    BY <1>types, CacheAssumption
  <2>4. next' \in {NoAddr} \cup {c \in 0..(MEMORY + 2) : c % 2 = 0}
    BY <2>3, <1>build, <1>types
  <2>5. fresh' \in [Index -> BOOLEAN]
    BY <1>fresh, <1>types, <1>freshx, <1>b
  <2> QED BY <2>1, <2>2, <2>4, <2>5, <1>build, <1>types DEF CacheTypeOK
<1>2. BlocksContiguous'
  <2> SUFFICES ASSUME NEW z \in Index
               PROVE  LET e == entry'[z]
                      IN /\ Len(e.instr) <= CACHE_INSTR
                         /\ e.addr # NoAddr => CacheIndex(e.addr) = z /\ e.instr # << >>
                         /\ e.addr = NoAddr => e.instr = << >>
                         /\ e.instr # << >> => e.instr[1].addr = e.addr
                         /\ \A k \in 1..(Len(e.instr) - 1) :
                               e.instr[k + 1].addr = e.instr[k].addr + e.instr[k].width
    BY DEF BlocksContiguous
  <2>1. CASE z = x
    <3>1. entry'[z] = new
      BY <2>1, <1>x
    <3> QED BY <2>1, <3>1, <1>new, <1>all, <1>b
  <2>2. CASE z # x
    <3>1. entry'[z] = entry[z]
      BY <2>2, <1>x
    <3> QED BY <3>1 DEF CacheInv, BlocksContiguous
  <2> QED BY <2>1, <2>2
<1>3. BuildingBlock'
  <2>1. CASE joins
    BY <2>1, <1>build DEF BuildingBlock
  <2>2. CASE ~joins
    <3>1. current' = b /\ next' = n /\ b # NoAddr
      BY <2>2, <1>build, <1>b
    <3>2. entry'[CacheIndex(current')] = new
      BY <3>1, <1>x
    <3>3. BlockHit(current)'
      BY <3>1, <3>2, <1>new, <1>all, <1>build DEF BlockHit
    <3>4. next' = new.instr[Len(new.instr)].addr + new.instr[Len(new.instr)].width
      BY <2>2, <3>1, <1>new, <1>all
    <3> QED BY <3>1, <3>2, <3>3, <3>4 DEF BuildingBlock
  <2> QED BY <2>1, <2>2
<1>4. FenceSweep'
  <2> SUFFICES ASSUME NEW z \in Index, entry'[z].addr # NoAddr
               PROVE  /\ \A k \in Passed(entry'[z].fence, fence') : CacheIndex(k) # z
                      /\ entry'[z].fence = fence' => fresh'[z]
    BY DEF FenceSweep, Passed
  <2>1. CASE z = x
    <3>1. entry'[z].fence = fence'
      BY <2>1, <1>x, <1>new, <1>build
    <3>2. Passed(entry'[z].fence, fence') = {}
      BY <3>1, <1>build, <1>types, PassedStep
    <3> QED BY <2>1, <3>2, <1>freshx
  <2>2. CASE z # x
    <3>1. entry'[z] = entry[z] /\ fresh'[z] = fresh[z]
      BY <2>2, <1>x
    <3> QED BY <3>1, <1>build DEF CacheInv, FenceSweep
  <2> QED BY <2>1, <2>2
<1> QED BY <1>1, <1>2, <1>3, <1>4 DEF CacheInv

(* Only the cache's own variables matter to its consistency. *)
LEMMA UnchangedCache ==
    ASSUME CacheInv, UNCHANGED cacheVars
    PROVE  CacheInv'
BY DEF cacheVars, CacheInv, CacheTypeOK, BlocksContiguous, BuildingBlock, BlockHit, FenceSweep, Passed

LEMMA PushPreserves ==
    ASSUME CacheInv, NEW a \in Addr, NEW w \in Width, a + w <= MEMORY, Push(a, w)
    PROVE  CacheInv'
<1>1. CASE UNCHANGED cacheVars
  BY <1>1, UnchangedCache
<1>2. CASE CacheInner(a, w)
  BY <1>2, CacheInnerPreserves
<1> QED BY <1>1, <1>2 DEF Push

(* Addresses and pages. *)
LEMMA DivUnique ==
    ASSUME NEW P \in Nat \ {0}, NEW q \in Nat, NEW r \in 0..(P - 1)
    PROVE  (P * q + r) \div P = q
OBVIOUS

LEMMA EvenRest ==
    ASSUME NEW p \in Nat, NEW q \in Nat, NEW b \in Nat, NEW r \in Int, 2 * b = (2 * p) * q + r
    PROVE  r % 2 = 0
OBVIOUS

LEMMA OfPage ==
    ASSUME NEW a \in Nat
    PROVE  /\ a \div PAGE_SIZE \in Nat /\ a % PAGE_SIZE \in 0..(PAGE_SIZE - 1)
           /\ a = PAGE_SIZE * (a \div PAGE_SIZE) + (a % PAGE_SIZE)
BY CacheAssumption

(* What does not start a page is in the page of the byte before it. *)
LEMMA SamePageBefore ==
    ASSUME NEW a \in Nat, a % PAGE_SIZE # 0
    PROVE  (a - 1) \div PAGE_SIZE = a \div PAGE_SIZE
<1> DEFINE q == a \div PAGE_SIZE
           r == a % PAGE_SIZE
<1>1. q \in Nat /\ r \in 0..(PAGE_SIZE - 1) /\ a = PAGE_SIZE * q + r /\ PAGE_SIZE \in Nat \ {0}
  BY OfPage, CacheAssumption
<1>2. r # 0
  OBVIOUS
<1> HIDE DEF q, r
<1>3. r - 1 \in 0..(PAGE_SIZE - 1) /\ a - 1 = PAGE_SIZE * q + (r - 1)
  BY <1>1, <1>2
<1>4. (PAGE_SIZE * q + (r - 1)) \div PAGE_SIZE = q
  BY <1>1, <1>3, DivUnique
<1> QED BY <1>3, <1>4 DEF q

(* An instruction ends in the page it starts in, unless it has four bytes  *)
(* and starts two before the end: addresses and page sizes are even.       *)
LEMMA EndsInPage ==
    ASSUME NEW a \in Addr, NEW w \in Width, ~(w = 4 /\ a % PAGE_SIZE = PAGE_SIZE - 2)
    PROVE  (a + w - 1) \div PAGE_SIZE = a \div PAGE_SIZE
<1> DEFINE q == a \div PAGE_SIZE
           r == a % PAGE_SIZE
<1>0. a \in Nat /\ a % 2 = 0
  BY DEF Addr
<1>1. q \in Nat /\ r \in 0..(PAGE_SIZE - 1) /\ a = PAGE_SIZE * q + r /\ PAGE_SIZE \in Nat \ {0}
  BY <1>0, OfPage, CacheAssumption
<1>2. ~(w = 4 /\ r = PAGE_SIZE - 2)
  OBVIOUS
<1> HIDE DEF q, r
<1>3. /\ a \div 2 \in Nat /\ a = 2 * (a \div 2)
      /\ PAGE_SIZE \div 2 \in Nat /\ PAGE_SIZE = 2 * (PAGE_SIZE \div 2)
  BY <1>0, CacheAssumption
<1>4. r % 2 = 0
  <2>1. 2 * (a \div 2) = (2 * (PAGE_SIZE \div 2)) * q + r
    BY <1>1, <1>3
  <2>2. r \in Int
    BY <1>1
  <2> HIDE DEF q, r
  <2> QED BY <2>1, <2>2, <1>1, <1>3, EvenRest
<1>5. r + w - 1 \in 0..(PAGE_SIZE - 1)
  <2>1. PAGE_SIZE % 2 = 0
    BY CacheAssumption
  <2> QED BY <2>1, <1>1, <1>2, <1>4 DEF Width
<1>6. a + w - 1 = PAGE_SIZE * q + (r + w - 1)
  BY <1>1 DEF Width
<1>7. (PAGE_SIZE * q + (r + w - 1)) \div PAGE_SIZE = q
  BY <1>1, <1>5, DivUnique
<1> QED BY <1>6, <1>7 DEF q

(* A push keeps blocks within their pages: an instruction that straddles   *)
(* two is not cached, one at the start of a page starts a block, and a     *)
(* block at the start of a page is not merged with the one before it.      *)
LEMMA PushWithinPage ==
    ASSUME CacheInv, BlocksWithinPage, NEW a \in Addr, NEW w \in Width, a + w <= MEMORY,
           Push(a, w)
    PROVE  BlocksWithinPage'
<1>0. CASE UNCHANGED cacheVars
  BY <1>0 DEF cacheVars, BlocksWithinPage
<1>1. CASE ~(w = 4 /\ a % PAGE_SIZE = PAGE_SIZE - 2) /\ CacheInner(a, w)
  <2> DEFINE to == Target(a)
             b == to.block
             x == CacheIndex(b)
             n == a + w
             i == [addr |-> a, width |-> w]
             old == IF to.starts THEN << >> ELSE entry[x].instr
             code == Append(old, i)
             joins == Joins(b, n, Len(code))
             y == CacheIndex(n)
             all == IF joins THEN code \o entry[y].instr ELSE code
             Within(s) == \A k \in 1..Len(s) :
                             (s[k].addr + s[k].width - 1) \div PAGE_SIZE = b \div PAGE_SIZE
  <2>types. /\ entry \in [Index -> [addr : Addr \cup {NoAddr}, fence : Fence,
                                   instr : Seq(CachedInstr)]]
            /\ i \in CachedInstr
            /\ a \in Nat /\ n \in Nat
    BY DEF CacheInv, CacheTypeOK, Addr, CachedInstr, Width
  <2>b. /\ b \in Addr
        /\ to.starts => b = a
        /\ ~to.starts => /\ b = current /\ b # NoAddr /\ a = next /\ a % PAGE_SIZE # 0
                         /\ BlockHit(current)
                         /\ entry[x].addr = b
    BY TargetFacts DEF Addr, NoAddr
  <2>x. x \in Index /\ y \in Index
    BY <2>b, <2>types, IndexType DEF Addr
  <2> HIDE DEF to
  <2>end. (a + w - 1) \div PAGE_SIZE = a \div PAGE_SIZE
    BY <1>1, EndsInPage
  <2>old. old \in Seq(CachedInstr) /\ Within(old) /\ a \div PAGE_SIZE = b \div PAGE_SIZE
    <3>1. CASE to.starts
      BY <3>1, <2>b
    <3>2. CASE ~to.starts
      <4> DEFINE s == entry[x].instr
      <4>1. old = s /\ s \in Seq(CachedInstr) /\ s # << >>
        BY <3>2, <2>b, <2>x, <2>types DEF BlockHit
      <4>2. Within(s)
        BY <3>2, <2>b, <2>x DEF BlocksWithinPage
      <4>3. a = s[Len(s)].addr + s[Len(s)].width
        BY <3>2, <2>b DEF CacheInv, BuildingBlock
      <4> HIDE DEF s
      <4>4. Len(s) \in 1..Len(s)
        BY <4>1
      <4>5. (a - 1) \div PAGE_SIZE = b \div PAGE_SIZE
        <5>1. (s[Len(s)].addr + s[Len(s)].width - 1) \div PAGE_SIZE = b \div PAGE_SIZE
          BY <4>2, <4>4
        <5>2. s[Len(s)].addr \in Nat /\ s[Len(s)].width \in Nat
          <6>1. s[Len(s)] \in CachedInstr
            BY <4>1, <4>4
          <6>2. s[Len(s)].addr \in Addr /\ s[Len(s)].width \in Width
            BY <6>1 DEF CachedInstr
          <6> QED BY <6>2 DEF Addr, Width
        <5>3. s[Len(s)].addr + s[Len(s)].width - 1 = a - 1
          BY <4>3, <5>2
        <5> QED BY <5>1, <5>3
      <4>6. (a - 1) \div PAGE_SIZE = a \div PAGE_SIZE
        BY <3>2, <2>b, <2>types, SamePageBefore
      <4> QED BY <4>1, <4>2, <4>5, <4>6
    <3> QED BY <3>1, <3>2
  <2> HIDE DEF old
  <2>code. code \in Seq(CachedInstr) /\ Within(code)
    <3>1. /\ code \in Seq(CachedInstr) /\ Len(code) = Len(old) + 1 /\ Len(old) \in Nat
          /\ code[Len(old) + 1] = i
          /\ \A k \in 1..Len(old) : code[k] = old[k]
      BY <2>old, <2>types
    <3> HIDE DEF code
    <3>2. ASSUME NEW k \in 1..Len(code)
          PROVE  (code[k].addr + code[k].width - 1) \div PAGE_SIZE = b \div PAGE_SIZE
      <4>1. CASE k = Len(old) + 1
        BY <4>1, <3>1, <2>end, <2>old
      <4>2. CASE k \in 1..Len(old)
        BY <4>2, <3>1, <2>old
      <4> QED BY <4>1, <4>2, <3>1
    <3> QED BY <3>1, <3>2
  <2>joins. joins => n % PAGE_SIZE # 0 /\ entry[y].addr = n
    BY DEF Joins
  <2> HIDE DEF code, joins
  <2>all. Within(all)
    <3>1. CASE ~joins
      BY <3>1, <2>code
    <3>2. CASE joins
      <4> DEFINE s == entry[y].instr
      <4>1. s \in Seq(CachedInstr)
        BY <2>types, <2>x
      <4>2. n \div PAGE_SIZE = b \div PAGE_SIZE
        <5>1. (n - 1) \div PAGE_SIZE = n \div PAGE_SIZE
          BY <3>2, <2>joins, <2>types, SamePageBefore
        <5>2. n - 1 = a + w - 1
          BY <2>types DEF Width
        <5> QED BY <5>1, <5>2, <2>end, <2>old
      <4>3. Within(s)
        BY <3>2, <4>2, <2>joins, <2>x DEF BlocksWithinPage
      <4>4. all = code \o s
        BY <3>2
      <4> HIDE DEF s, all
      <4>5. /\ Len(all) = Len(code) + Len(s) /\ Len(code) \in Nat /\ Len(s) \in Nat
            /\ \A k \in 1..Len(code) : all[k] = code[k]
            /\ \A k \in 1..Len(s) : all[Len(code) + k] = s[k]
        BY <4>1, <4>4, <2>code
      <4>6. ASSUME NEW k \in 1..Len(all)
            PROVE  (all[k].addr + all[k].width - 1) \div PAGE_SIZE = b \div PAGE_SIZE
        <5>1. CASE k \in 1..Len(code)
          BY <5>1, <4>5, <2>code
        <5>2. CASE ~(k \in 1..Len(code))
          <6> DEFINE j == k - Len(code)
          <6>1. j \in 1..Len(s) /\ k = Len(code) + j
            BY <5>2, <4>5
          <6> HIDE DEF j
          <6> QED BY <6>1, <4>3, <4>5
        <5> QED BY <5>1, <5>2
      <4> QED BY <4>6
    <3> QED BY <3>1, <3>2
  <2>entry. /\ entry'[x].addr = b /\ entry'[x].instr = all
            /\ \A z \in Index \ {x} : entry'[z] = entry[z]
    BY <1>1, <2>types, <2>x DEF CacheInner, all, code, joins, old, to
  <2> HIDE DEF all
  <2> SUFFICES ASSUME NEW z \in Index
               PROVE  \A k \in 1..Len(entry'[z].instr) :
                         (entry'[z].instr[k].addr + entry'[z].instr[k].width - 1) \div PAGE_SIZE
                             = entry'[z].addr \div PAGE_SIZE
    BY DEF BlocksWithinPage
  <2>1. CASE z = x
    BY <2>1, <2>entry, <2>all
  <2>2. CASE z # x
    BY <2>2, <2>entry DEF BlocksWithinPage
  <2> QED BY <2>1, <2>2
<1> QED BY <1>0, <1>1 DEF Push

(* FENCE.I: an entry that survives has not been swept, so the counter has  *)
(* not come round to its own value.                                        *)
LEMMA InvalidatePreserves ==
    ASSUME CacheInv, Invalidate
    PROVE  CacheInv'
<1> DEFINE x == CacheIndex(fence)
           gone == [addr |-> NoAddr, fence |-> entry[x].fence, instr |-> << >>]
<1>types. /\ entry \in [Index -> [addr : Addr \cup {NoAddr}, fence : Fence,
                                 instr : Seq(CachedInstr)]]
          /\ fence \in Fence
          /\ fresh \in [Index -> BOOLEAN]
  BY DEF CacheInv, CacheTypeOK
<1>x. x \in Index
  BY <1>types, IndexType DEF Fence
<1>entry. entry' = [entry EXCEPT ![x] = gone]
  BY DEF Invalidate
<1>fence. fence' = NextFence(fence) /\ fence' \in Fence
  BY <1>types, PassedStep DEF Invalidate
<1>rest. current' = NoAddr /\ next' = 0 /\ fresh' = [z \in Index |-> FALSE]
  BY DEF Invalidate
<1>at. /\ entry'[x] = gone
       /\ \A z \in Index \ {x} : entry'[z] = entry[z]
  BY <1>entry, <1>types, <1>x
<1>gone. gone \in [addr : Addr \cup {NoAddr}, fence : Fence, instr : Seq(CachedInstr)]
  BY <1>types, <1>x
<1>1. CacheTypeOK'
  <2>1. entry' \in [Index -> [addr : Addr \cup {NoAddr}, fence : Fence, instr : Seq(CachedInstr)]]
    BY <1>entry, <1>gone, <1>types
  <2>2. 0 \in {a \in 0..(MEMORY + 2) : a % 2 = 0}
    BY CacheAssumption
  <2> QED BY <2>1, <2>2, <1>fence, <1>rest DEF CacheTypeOK
<1>2. BlocksContiguous'
  <2> SUFFICES ASSUME NEW z \in Index
               PROVE  LET e == entry'[z]
                      IN /\ Len(e.instr) <= CACHE_INSTR
                         /\ e.addr # NoAddr => CacheIndex(e.addr) = z /\ e.instr # << >>
                         /\ e.addr = NoAddr => e.instr = << >>
                         /\ e.instr # << >> => e.instr[1].addr = e.addr
                         /\ \A k \in 1..(Len(e.instr) - 1) :
                               e.instr[k + 1].addr = e.instr[k].addr + e.instr[k].width
    BY DEF BlocksContiguous
  <2>1. CASE z = x
    BY <2>1, <1>at, CacheAssumption
  <2>2. CASE z # x
    <3>1. entry'[z] = entry[z]
      BY <2>2, <1>at
    <3> QED BY <3>1 DEF CacheInv, BlocksContiguous
  <2> QED BY <2>1, <2>2
<1>3. BuildingBlock'
  BY <1>rest DEF BuildingBlock
<1>4. FenceSweep'
  <2> SUFFICES ASSUME NEW z \in Index, entry'[z].addr # NoAddr
               PROVE  /\ \A k \in Passed(entry'[z].fence, fence') : CacheIndex(k) # z
                      /\ entry'[z].fence = fence' => fresh'[z]
    BY DEF FenceSweep, Passed
  <2>1. z # x
    BY <1>at
  <2>2. entry'[z] = entry[z]
    BY <2>1, <1>at
  <2>3. \A k \in Passed(entry[z].fence, fence) \cup {fence} : CacheIndex(k) # z
    BY <2>1, <2>2 DEF CacheInv, FenceSweep
  <2>4. entry[z].fence \in Fence
    BY <1>types
  <2>5. fence' # entry[z].fence
    BY <2>3, <2>4, <1>types, <1>fence, PassedStep, SweepHits
  <2>6. Passed(entry[z].fence, fence') = Passed(entry[z].fence, fence) \cup {fence}
    BY <2>4, <2>5, <1>types, <1>fence, PassedStep
  <2> QED BY <2>2, <2>3, <2>5, <2>6
<1> QED BY <1>1, <1>2, <1>3, <1>4 DEF CacheInv

(* An empty cache is consistent. *)
LEMMA EmptyCache ==
    /\ CacheInit => CacheInv
    /\ CacheReset => CacheInv'
<1>1. EmptyEntry \in [addr : Addr \cup {NoAddr}, fence : Fence, instr : Seq(CachedInstr)]
  BY CacheAssumption DEF EmptyEntry, Fence
<1>2. 0 \in Fence /\ 0 \in {a \in 0..(MEMORY + 2) : a % 2 = 0}
  BY CacheAssumption DEF Fence
<1>3. ASSUME CacheInit PROVE CacheInv
  <2>1. CacheTypeOK
    BY <1>1, <1>2, <1>3 DEF CacheInit, CacheTypeOK
  <2>2. BlocksContiguous
    BY <1>3, CacheAssumption DEF CacheInit, BlocksContiguous, EmptyEntry
  <2>3. BuildingBlock
    BY <1>3 DEF CacheInit, BuildingBlock
  <2>4. FenceSweep
    BY <1>3 DEF CacheInit, FenceSweep, EmptyEntry
  <2> QED BY <2>1, <2>2, <2>3, <2>4 DEF CacheInv
<1>4. ASSUME CacheReset PROVE CacheInv'
  <2>1. CacheTypeOK'
    BY <1>1, <1>2, <1>4 DEF CacheReset, CacheTypeOK
  <2>2. BlocksContiguous'
    BY <1>4, CacheAssumption DEF CacheReset, BlocksContiguous, EmptyEntry
  <2>3. BuildingBlock'
    BY <1>4 DEF CacheReset, BuildingBlock
  <2>4. FenceSweep'
    BY <1>4 DEF CacheReset, FenceSweep, EmptyEntry
  <2> QED BY <2>1, <2>2, <2>3, <2>4 DEF CacheInv
<1> QED BY <1>3, <1>4

(* A consistent cache only offers fresh blocks. *)
LEMMA HitIsFresh ==
    ASSUME CacheInv, NEW a \in Addr, BlockHit(a)
    PROVE  /\ CacheIndex(a) \in Index
           /\ fresh[CacheIndex(a)]
           /\ entry[CacheIndex(a)].instr \in Seq(CachedInstr)
           /\ Len(entry[CacheIndex(a)].instr) \in 1..CACHE_INSTR
           /\ entry[CacheIndex(a)].instr[1].addr = a
<1> DEFINE x == CacheIndex(a)
<1>1. x \in Index /\ a # NoAddr
  BY IndexType DEF Addr, NoAddr
<1>2. fresh[x]
  BY <1>1 DEF BlockHit, CacheInv, FenceSweep
<1>3. entry[x].instr \in Seq(CachedInstr)
  BY <1>1 DEF CacheInv, CacheTypeOK
<1>4. Len(entry[x].instr) <= CACHE_INSTR /\ entry[x].instr # << >> /\ entry[x].instr[1].addr = a
  BY <1>1 DEF BlockHit, CacheInv, BlocksContiguous
<1>5. Len(entry[x].instr) \in 1..CACHE_INSTR
  BY <1>3, <1>4, CacheAssumption
<1> QED BY <1>1, <1>2, <1>3, <1>4, <1>5

-----------------------------------------------------------------------------
(* The machine.  What the state of a run looks like, by its mode.          *)
LEMMA RunShape ==
    ASSUME TypeOK
    PROVE  /\ run.mode \in {"idle", "raised", "loop", "whole", "partial"}
           /\ run.mode = "idle" => run = Idle
           /\ run.mode = "raised" => run = Raised
           /\ run.mode = "loop" => run = Loop(run.left) /\ run.left \in 0..MaxSteps
           /\ InBlock => /\ run = In(run.mode, run.slot, run.pos, run.left)
                         /\ run.slot \in Index
                         /\ run.pos \in 0..CACHE_INSTR
                         /\ run.left \in 1..MaxSteps
BY DEF TypeOK, Idle, Raised, Loop, In, InBlock

LEMMA InitMachineInv == Init => MachineInv
<1> SUFFICES ASSUME Init PROVE MachineInv
  OBVIOUS
<1>1. CacheInv
  BY EmptyCache DEF Init
<1>2. /\ run = Idle /\ partial = NoPartial /\ run.mode = "idle" /\ ~partial.in_progress
  BY DEF Init, Idle, NoPartial
<1>3. TypeOK
  <2>1. pc \in Pc
    BY CacheAssumption DEF Init, Addr, Pc
  <2>2. tick \in 0..(TICKS - 1)
    BY StepsAssumption DEF Init
  <2>3. partial \in [in_progress : BOOLEAN, addr : Addr, progress : 0..CACHE_INSTR]
    BY <1>2, ZeroAddr, CacheAssumption DEF NoPartial
  <2> QED BY <1>1, <1>2, <2>1, <2>2, <2>3 DEF TypeOK, CacheInv
<1> QED BY <1>1, <1>2, <1>3 DEF MachineInv, RunsWhatWasFetched, InBlock, PartialInv, NoPartialAtLookup, BudgetCoversBlock

(* The facts every step inside a block starts from. *)
LEMMA InBlockFacts ==
    ASSUME MachineInv, InBlock
    PROVE  /\ run.slot \in Index /\ run.pos \in Nat /\ run.left \in 1..MaxSteps
           /\ run.mode \in {"whole", "partial"}
           /\ run = In(run.mode, run.slot, run.pos, run.left)
           /\ entry[run.slot].instr \in Seq(CachedInstr)
           /\ Len(entry[run.slot].instr) \in 1..CACHE_INSTR
           /\ run.pos + 1 \in 1..Len(entry[run.slot].instr)
           /\ entry[run.slot].instr[run.pos + 1] \in CachedInstr
           /\ entry[run.slot].instr[run.pos + 1].addr = pc
           /\ pc \in Addr
           /\ pc + entry[run.slot].instr[run.pos + 1].width \in Pc
           /\ entry[run.slot].fence = fence
           /\ fresh[run.slot]
           /\ \A k \in 1..(Len(entry[run.slot].instr) - 1) :
                 entry[run.slot].instr[k + 1].addr
                     = entry[run.slot].instr[k].addr + entry[run.slot].instr[k].width
<1> DEFINE code == entry[run.slot].instr
<1>1. TypeOK
  BY DEF MachineInv
<1>2. /\ run.slot \in Index /\ run.pos \in Nat /\ run.left \in 1..MaxSteps
      /\ run = In(run.mode, run.slot, run.pos, run.left)
      /\ run.mode \in {"whole", "partial"}
  BY <1>1, RunShape, CacheAssumption DEF InBlock
<1>3. /\ run.pos < Len(code) /\ code[run.pos + 1].addr = pc
      /\ entry[run.slot].fence = fence /\ fresh[run.slot]
  BY DEF MachineInv, RunsWhatWasFetched
<1>4. code \in Seq(CachedInstr)
  BY <1>1, <1>2 DEF TypeOK, CacheTypeOK
<1>5. Len(code) <= CACHE_INSTR
  BY <1>2 DEF MachineInv, CacheInv, BlocksContiguous
<1>6. \A k \in 1..(Len(code) - 1) : code[k + 1].addr = code[k].addr + code[k].width
  BY <1>2 DEF MachineInv, CacheInv, BlocksContiguous
<1> HIDE DEF code
<1>7. Len(code) \in 1..CACHE_INSTR /\ run.pos + 1 \in 1..Len(code)
  BY <1>2, <1>3, <1>4, <1>5, CacheAssumption
<1>8. code[run.pos + 1] \in CachedInstr
  BY <1>4, <1>7
<1>9. pc \in Addr /\ code[run.pos + 1].width \in Width
  BY <1>3, <1>8 DEF CachedInstr
<1>10. pc + code[run.pos + 1].width \in Pc
  BY <1>9, CacheAssumption DEF Addr, Width, Pc
<1> QED BY <1>2, <1>3, <1>4, <1>6, <1>7, <1>8, <1>9, <1>10 DEF code

LEMMA TickType ==
    ASSUME tick \in 0..(TICKS - 1), Tick
    PROVE  tick' \in 0..(TICKS - 1)
BY StepsAssumption DEF Tick

(* Collecting the parts for a step after which no block is being run.      *)
LEMMA OutOfBlock ==
    ASSUME CacheInv', pc' \in Pc, tick' \in 0..(TICKS - 1),
           partial' = NoPartial \/ (partial' = partial /\ ~partial.in_progress
                                    /\ partial \in [in_progress : BOOLEAN, addr : Addr, progress : 0..CACHE_INSTR]),
           run' \in {Idle} \cup {Loop(n) : n \in 0..MaxSteps} \/ (run' = Raised /\ pc' \in Addr)
    PROVE  MachineInv'
<1>1. /\ partial' \in [in_progress : BOOLEAN, addr : Addr, progress : 0..CACHE_INSTR]
      /\ ~partial'.in_progress
  <2>1. CASE partial' = NoPartial
    <3>1. 0 \in Addr /\ 0 \in 0..CACHE_INSTR
      BY ZeroAddr, CacheAssumption
    <3> QED BY <2>1, <3>1 DEF NoPartial
  <2>2. CASE partial' # NoPartial
    BY <2>2
  <2> QED BY <2>1, <2>2
<1>2. run'.mode \in {"idle", "loop", "raised"} /\ (run'.mode = "raised" => pc' \in Addr)
  BY DEF Idle, Loop, Raised
<1>3. TypeOK'
  BY <1>1 DEF TypeOK, CacheInv
<1> QED BY <1>1, <1>2, <1>3 DEF MachineInv, RunsWhatWasFetched, InBlock, PartialInv, NoPartialAtLookup, BudgetCoversBlock

(* Leaving a block, partial or not, leaves no partial block behind.        *)
LEMMA LeavesNothing ==
    ASSUME MachineInv, InBlock, LeaveBlock
    PROVE  partial' = NoPartial \/ (partial' = partial /\ ~partial.in_progress
              /\ partial \in [in_progress : BOOLEAN, addr : Addr, progress : 0..CACHE_INSTR])
<1>1. CASE run.mode = "partial"
  BY <1>1 DEF LeaveBlock
<1>2. CASE run.mode = "whole"
  BY <1>2 DEF LeaveBlock, MachineInv, PartialInv, TypeOK
<1> QED BY <1>1, <1>2 DEF InBlock

LEMMA CallStepMaxPreserves ==
    ASSUME MachineInv, NEW n \in 1..MaxSteps, CallStepMax(n)
    PROVE  MachineInv'
<1>t. TypeOK /\ CacheInv
  BY DEF MachineInv
<1>same. UNCHANGED <<entry, fence, current, next, fresh, pc, tick, partial>>
  BY DEF CallStepMax, cacheVars
<1>c. CacheInv'
  BY <1>t, <1>same, UnchangedCache DEF cacheVars
<1>idle. run = Idle /\ run.mode = "idle"
  BY DEF CallStepMax, Idle
<1>1. CASE ~partial.in_progress
  <2>1. run' = Loop(n)
    BY <1>1 DEF CallStepMax
  <2>2. n \in 0..MaxSteps
    BY StepsAssumption
  <2> QED BY <1>1, <2>1, <2>2, <1>same, <1>t, <1>c, OutOfBlock DEF TypeOK
<1>2. CASE partial.in_progress
  <2> DEFINE x == CacheIndex(partial.addr)
             k == partial.progress
  <2>1. run' = In("partial", x, k, n)
    BY <1>2 DEF CallStepMax
  <2>2. partial.addr \in Addr /\ k \in 0..CACHE_INSTR
    BY <1>t DEF TypeOK
  <2>3. x \in Index
    BY <2>2, IndexType DEF Addr
  <2>4. /\ entry[x].addr = partial.addr /\ entry[x].fence = fence /\ fresh[x]
        /\ k < Len(entry[x].instr) /\ entry[x].instr[k + 1].addr = pc
    BY <1>2, <1>idle DEF MachineInv, PartialInv
  <2>5. /\ run'.mode = "partial" /\ run'.slot = x /\ run'.pos = k /\ run'.left = n
    BY <2>1 DEF In
  <2>6. TypeOK'
    <3>1. run' \in {In(m, z, j, l) : m \in {"whole", "partial"}, z \in Index,
                                     j \in 0..CACHE_INSTR, l \in 1..MaxSteps}
      BY <2>1, <2>2, <2>3
    <3> QED BY <3>1, <1>c, <1>same, <1>t DEF TypeOK, CacheInv
  <2> QED BY <1>2, <1>c, <1>same, <2>4, <2>5, <2>6
          DEF MachineInv, RunsWhatWasFetched, InBlock, PartialInv, NoPartialAtLookup, BudgetCoversBlock
<1> QED BY <1>1, <1>2

LEMMA RunBlockPreserves ==
    ASSUME MachineInv, RunBlock
    PROVE  MachineInv'
<1> DEFINE x == CacheIndex(pc)
           l == run.left
<1>t. TypeOK /\ CacheInv
  BY DEF MachineInv
<1>same. UNCHANGED <<entry, fence, current, next, fresh, pc, tick>>
  BY DEF RunBlock, cacheVars
<1>c. CacheInv'
  BY <1>t, <1>same, UnchangedCache DEF cacheVars
<1>run. run.mode = "loop" /\ l \in 1..MaxSteps
  BY <1>t, RunShape DEF RunBlock
<1>pc. pc \in Addr /\ pc # NoAddr
  <2>1. x \in Index /\ pc \in Nat
    BY <1>t, IndexType DEF TypeOK, Pc
  <2>2. entry[x].addr = pc /\ pc # NoAddr
    BY <2>1 DEF RunBlock, BlockHit, NoAddr
  <2>3. entry[x].addr \in Addr \cup {NoAddr}
    BY <1>t, <2>1 DEF TypeOK, CacheTypeOK
  <2> QED BY <2>2, <2>3
<1>x. /\ x \in Index /\ fresh[x] /\ entry[x].instr[1].addr = pc
      /\ Len(entry[x].instr) \in 1..CACHE_INSTR
      /\ entry[x].addr = pc /\ entry[x].fence = fence
  BY <1>pc, <1>t, HitIsFresh DEF RunBlock, BlockHit
<1>off. ~partial.in_progress
  BY <1>run DEF MachineInv, NoPartialAtLookup
<1>0. 0 \in 0..CACHE_INSTR
  BY CacheAssumption
<1>1. CASE Len(entry[x].instr) <= l
  <2>1. run' = In("whole", x, 0, l) /\ partial' = partial
    BY <1>1 DEF RunBlock
  <2>2. run'.mode = "whole" /\ run'.slot = x /\ run'.pos = 0 /\ run'.left = l
    BY <2>1 DEF In
  <2>3. TypeOK'
    <3>1. run' \in {In(m, z, j, i) : m \in {"whole", "partial"}, z \in Index,
                                     j \in 0..CACHE_INSTR, i \in 1..MaxSteps}
      BY <2>1, <1>run, <1>x, <1>0
    <3> QED BY <3>1, <2>1, <1>c, <1>same, <1>t DEF TypeOK, CacheInv
  <2>4. RunsWhatWasFetched'
    BY <2>2, <1>same, <1>x DEF RunsWhatWasFetched
  <2>5. BudgetCoversBlock'
    BY <2>2, <1>same, <1>x, <1>1, <1>run DEF BudgetCoversBlock
  <2> QED BY <1>c, <2>1, <2>2, <2>3, <2>4, <2>5, <1>off DEF MachineInv, PartialInv, NoPartialAtLookup
<1>2. CASE ~(Len(entry[x].instr) <= l)
  <2>1. /\ run' = In("partial", x, 0, l)
        /\ partial' = [in_progress |-> TRUE, addr |-> pc, progress |-> 0]
    BY <1>2, <1>x DEF RunBlock
  <2>2. run'.mode = "partial" /\ run'.slot = x /\ run'.pos = 0 /\ run'.left = l
    BY <2>1 DEF In
  <2>3. TypeOK'
    <3>1. run' \in {In(m, z, j, i) : m \in {"whole", "partial"}, z \in Index,
                                     j \in 0..CACHE_INSTR, i \in 1..MaxSteps}
      BY <2>1, <1>run, <1>x, <1>0
    <3>2. partial' \in [in_progress : BOOLEAN, addr : Addr, progress : 0..CACHE_INSTR]
      BY <2>1, <1>pc, <1>0
    <3> QED BY <3>1, <3>2, <1>c, <1>same, <1>t DEF TypeOK, CacheInv
  <2>4. RunsWhatWasFetched'
    BY <2>2, <1>same, <1>x DEF RunsWhatWasFetched
  <2>5. PartialInv'
    BY <2>1, <2>2, <1>same, <1>x DEF PartialInv
  <2> QED BY <1>c, <2>2, <2>3, <2>4, <2>5 DEF MachineInv, NoPartialAtLookup, BudgetCoversBlock
<1> QED BY <1>1, <1>2

LEMMA InstrNextPreserves ==
    ASSUME MachineInv, InstrNext
    PROVE  MachineInv'
<1> DEFINE x == run.slot
           code == entry[x].instr
           k == run.pos + 1
           l == run.left
<1>t. TypeOK /\ CacheInv
  BY DEF MachineInv
<1>b. InBlock
  BY DEF InstrNext
<1>same. UNCHANGED <<entry, fence, current, next, fresh>>
  BY DEF InstrNext, cacheVars
<1>c. CacheInv'
  BY <1>t, <1>same, UnchangedCache DEF cacheVars
<1>f. /\ x \in Index /\ k \in 1..Len(code) /\ Len(code) \in 1..CACHE_INSTR /\ l \in 1..MaxSteps
      /\ run.mode \in {"whole", "partial"}
      /\ code[k].addr = pc /\ entry[x].fence = fence /\ fresh[x]
      /\ pc + code[k].width \in Pc
  BY <1>b, InBlockFacts
<1>s. \A j \in 1..(Len(code) - 1) : code[j + 1].addr = code[j].addr + code[j].width
  BY <1>b, InBlockFacts
<1>pc. pc' = pc + code[k].width /\ pc' \in Pc
  BY <1>f DEF InstrNext
<1>tick. tick' \in 0..(TICKS - 1)
  BY <1>t, TickType DEF InstrNext, TypeOK
<1>next. k # Len(code) => k \in 1..(Len(code) - 1) /\ k < Len(code) /\ code[k + 1].addr = pc'
  <2> SUFFICES ASSUME k # Len(code)
               PROVE  k \in 1..(Len(code) - 1) /\ k < Len(code) /\ code[k + 1].addr = pc'
    OBVIOUS
  <2>1. k \in 1..(Len(code) - 1) /\ k < Len(code)
    BY <1>f
  <2> QED BY <2>1, <1>s, <1>f, <1>pc
<1>1. CASE k = Len(code)
  <2>1. LeaveBlock /\ run' = Loop(l - 1)
    BY <1>1 DEF InstrNext
  <2>2. l - 1 \in 0..MaxSteps
    BY <1>f, StepsAssumption
  <2> QED BY <2>1, <2>2, <1>b, <1>c, <1>pc, <1>tick, LeavesNothing, OutOfBlock
<1>2. CASE k # Len(code) /\ run.mode = "partial" /\ l = 1
  <2>1. partial' = [partial EXCEPT !.progress = k] /\ run' = Loop(0)
    BY <1>2 DEF InstrNext
  <2>2. partial \in [in_progress : BOOLEAN, addr : Addr, progress : 0..CACHE_INSTR]
    BY <1>t DEF TypeOK
  <2>3. partial.in_progress /\ x = CacheIndex(partial.addr) /\ entry[x].addr = partial.addr
    BY <1>2 DEF MachineInv, PartialInv
  <2>4. k \in 0..CACHE_INSTR /\ 0 \in 0..MaxSteps
    BY <1>f, CacheAssumption, StepsAssumption
  <2>5. /\ partial' \in [in_progress : BOOLEAN, addr : Addr, progress : 0..CACHE_INSTR]
        /\ partial'.in_progress /\ partial'.addr = partial.addr /\ partial'.progress = k
    BY <2>1, <2>2, <2>3, <2>4
  <2>6. run'.mode = "loop" /\ run'.left = 0
    BY <2>1 DEF Loop
  <2>7. TypeOK'
    BY <2>1, <2>4, <2>5, <1>c, <1>pc, <1>tick DEF TypeOK, CacheInv
  <2>8. PartialInv'
    BY <2>3, <2>5, <2>6, <1>same, <1>f, <1>2, <1>next DEF PartialInv
  <2> QED BY <2>6, <2>7, <2>8, <1>c
          DEF MachineInv, RunsWhatWasFetched, InBlock, NoPartialAtLookup, BudgetCoversBlock
<1>3. CASE k # Len(code) /\ ~(run.mode = "partial" /\ l = 1)
  <2>1. partial' = partial /\ run' = In(run.mode, x, k, l - 1)
    BY <1>3 DEF InstrNext
  <2>2. run'.mode = run.mode /\ run'.slot = x /\ run'.pos = k /\ run'.left = l - 1
    BY <2>1 DEF In
  <2>3. l - 1 \in 1..MaxSteps
    <3>1. CASE run.mode = "partial"
      BY <3>1, <1>3, <1>f, StepsAssumption
    <3>2. CASE run.mode = "whole"
      <4>1. Len(code) - run.pos <= l
        BY <3>2 DEF MachineInv, BudgetCoversBlock
      <4>2. run.pos \in Nat /\ k < Len(code)
        BY <1>b, <1>3, <1>next, InBlockFacts
      <4>3. Len(code) \in Int /\ l \in 1..MaxSteps /\ MaxSteps \in Nat
        BY <1>f, StepsAssumption
      <4> HIDE DEF code, l
      <4> QED BY <4>1, <4>2, <4>3
    <3> QED BY <3>1, <3>2, <1>f
  <2>4. k \in 0..CACHE_INSTR
    BY <1>f, CacheAssumption
  <2>5. TypeOK'
    <3>1. run' \in {In(m, z, j, i) : m \in {"whole", "partial"}, z \in Index,
                                     j \in 0..CACHE_INSTR, i \in 1..MaxSteps}
      BY <2>1, <2>3, <2>4, <1>f
    <3>2. partial' \in [in_progress : BOOLEAN, addr : Addr, progress : 0..CACHE_INSTR]
      BY <2>1, <1>t DEF TypeOK
    <3>3. CacheTypeOK'
      BY <1>c DEF CacheInv
    <3> QED BY <3>1, <3>2, <3>3, <1>pc, <1>tick DEF TypeOK
  <2>6. RunsWhatWasFetched'
    BY <2>2, <1>same, <1>3, <1>next, <1>f DEF RunsWhatWasFetched
  <2>7. PartialInv'
    BY <2>1, <2>2, <1>same, <1>f DEF PartialInv, MachineInv
  <2>8. BudgetCoversBlock'
    <3> SUFFICES ASSUME run.mode = "whole" PROVE Len(code) - k <= l - 1
      BY <2>2, <1>same DEF BudgetCoversBlock
    <3>1. Len(code) - run.pos <= l
      BY DEF MachineInv, BudgetCoversBlock
    <3>2. run.pos \in Nat
      BY <1>b, InBlockFacts
    <3>3. Len(code) \in Int /\ l \in Int
      BY <1>f
    <3> HIDE DEF code, l
    <3> QED BY <3>1, <3>2, <3>3
  <2> QED BY <2>2, <2>5, <2>6, <2>7, <2>8, <1>c, <1>f DEF MachineInv, NoPartialAtLookup
<1> QED BY <1>1, <1>2, <1>3

LEMMA InstrSetPreserves ==
    ASSUME MachineInv, InstrSet
    PROVE  MachineInv'
<1>1. InBlock /\ CacheInv /\ tick \in 0..(TICKS - 1)
  BY DEF InstrSet, MachineInv, TypeOK
<1>2. CacheInv'
  BY <1>1, UnchangedCache DEF InstrSet
<1>3. run.left - 1 \in 0..MaxSteps
  <2>1. run.left \in 1..MaxSteps
    BY <1>1, InBlockFacts
  <2> QED BY <2>1, StepsAssumption
<1>4. tick' \in 0..(TICKS - 1)
  BY <1>1, TickType DEF InstrSet
<1> QED BY <1>1, <1>2, <1>3, <1>4, LeavesNothing, OutOfBlock DEF InstrSet

LEMMA InstrRaisePreserves ==
    ASSUME MachineInv, InstrRaise
    PROVE  MachineInv'
<1>1. InBlock /\ CacheInv /\ tick \in 0..(TICKS - 1) /\ pc \in Pc
  BY DEF InstrRaise, MachineInv, TypeOK
<1>2. CacheInv'
  BY <1>1, UnchangedCache DEF InstrRaise
<1>3. pc \in Addr
  BY <1>1, InBlockFacts
<1> QED BY <1>1, <1>2, <1>3, LeavesNothing, OutOfBlock DEF InstrRaise

(* The steps at the head of the loop: no partial block is in progress.     *)
LEMMA LoopFacts ==
    ASSUME MachineInv, run.mode = "loop", run.left > 0
    PROVE  /\ CacheInv /\ tick \in 0..(TICKS - 1) /\ pc \in Pc
           /\ run.left - 1 \in 0..MaxSteps
           /\ ~partial.in_progress
           /\ partial \in [in_progress : BOOLEAN, addr : Addr, progress : 0..CACHE_INSTR]
<1>1. TypeOK /\ CacheInv /\ ~partial.in_progress
  BY DEF MachineInv, NoPartialAtLookup
<1>2. run.left \in 0..MaxSteps
  BY <1>1, RunShape
<1>3. run.left - 1 \in 0..MaxSteps
  BY <1>2, StepsAssumption
<1> QED BY <1>1, <1>3 DEF TypeOK

LEMMA RunInstrAtPreserves ==
    ASSUME MachineInv, RunInstrAt
    PROVE  MachineInv'
<1>f. /\ CacheInv /\ tick \in 0..(TICKS - 1) /\ pc \in Pc
      /\ run.left - 1 \in 0..MaxSteps
      /\ ~partial.in_progress
      /\ partial \in [in_progress : BOOLEAN, addr : Addr, progress : 0..CACHE_INSTR]
  BY LoopFacts DEF RunInstrAt
<1>1. PICK w \in Width, cacheable \in BOOLEAN :
        /\ pc + w <= MEMORY
        /\ IF cacheable THEN Push(pc, w) ELSE UNCHANGED cacheVars
        /\ \/ pc' = pc + w /\ run' = Loop(run.left - 1) /\ Tick
           \/ pc' \in Pc /\ run' = Loop(run.left - 1) /\ Tick
           \/ pc' = pc /\ run' = Raised /\ UNCHANGED tick
  BY DEF RunInstrAt
<1>2. pc \in Addr
  BY <1>1, <1>f, CacheAssumption DEF Pc, Width, Addr
<1>3. CacheInv'
  BY <1>1, <1>2, <1>f, PushPreserves, UnchangedCache
<1>4. pc + w \in Pc
  BY <1>1, <1>f, CacheAssumption DEF Pc, Width
<1>5. tick' \in 0..(TICKS - 1)
  BY <1>1, <1>f, TickType
<1>6. partial' = partial
  BY DEF RunInstrAt
<1>7. pc' \in Pc /\ (run' = Loop(run.left - 1) \/ (run' = Raised /\ pc' \in Addr))
  BY <1>1, <1>2, <1>4, <1>f
<1>8. run' \in {Idle} \cup {Loop(n) : n \in 0..MaxSteps} \/ (run' = Raised /\ pc' \in Addr)
  BY <1>7, <1>f
<1> QED BY <1>3, <1>5, <1>6, <1>7, <1>8, <1>f, OutOfBlock

LEMMA FetchFaultPreserves ==
    ASSUME MachineInv, FetchFault
    PROVE  MachineInv'
<1>f. /\ CacheInv /\ tick \in 0..(TICKS - 1)
      /\ run.left - 1 \in 0..MaxSteps
      /\ ~partial.in_progress
      /\ partial \in [in_progress : BOOLEAN, addr : Addr, progress : 0..CACHE_INSTR]
  BY LoopFacts DEF FetchFault
<1>1. CacheInv' /\ partial' = partial /\ run' = Loop(run.left - 1)
  BY <1>f, UnchangedCache DEF FetchFault
<1>2. pc' \in Pc
  BY CacheAssumption DEF FetchFault, Pc
<1>3. tick' \in 0..(TICKS - 1)
  BY <1>f, TickType DEF FetchFault
<1> QED BY <1>f, <1>1, <1>2, <1>3, OutOfBlock

LEMMA FenceIPreserves ==
    ASSUME MachineInv, FenceI
    PROVE  MachineInv'
<1>f. /\ CacheInv /\ tick \in 0..(TICKS - 1) /\ pc \in Pc
      /\ run.left - 1 \in 0..MaxSteps
      /\ ~partial.in_progress
      /\ partial \in [in_progress : BOOLEAN, addr : Addr, progress : 0..CACHE_INSTR]
  BY LoopFacts DEF FenceI
<1>1. CacheInv' /\ partial' = partial /\ run' = Loop(run.left - 1)
  BY <1>f, InvalidatePreserves DEF FenceI
<1>2. pc' \in Pc
  BY <1>f, CacheAssumption DEF FenceI, Pc
<1>3. tick' \in 0..(TICKS - 1)
  BY <1>f, TickType DEF FenceI
<1> QED BY <1>f, <1>1, <1>2, <1>3, OutOfBlock

LEMMA ReturnPreserves ==
    ASSUME MachineInv, Return
    PROVE  MachineInv'
<1>1. TypeOK /\ CacheInv
  BY DEF MachineInv
<1>2. UNCHANGED <<entry, fence, current, next, fresh, pc, tick, partial>> /\ run' = Idle
  BY DEF Return, cacheVars
<1>3. CacheInv'
  BY <1>1, <1>2, UnchangedCache DEF cacheVars
<1>4. run.mode = "loop" /\ run'.mode = "idle"
  BY <1>2 DEF Return, Idle
<1>5. TypeOK'
  BY <1>1, <1>2, <1>3 DEF TypeOK, CacheInv
<1>6. PartialInv'
  BY <1>2, <1>4 DEF MachineInv, PartialInv
<1> QED BY <1>3, <1>4, <1>5, <1>6
        DEF MachineInv, RunsWhatWasFetched, InBlock, NoPartialAtLookup, BudgetCoversBlock

LEMMA HandleExceptionPreserves ==
    ASSUME MachineInv, HandleException
    PROVE  MachineInv'
<1>1. /\ CacheInv /\ tick \in 0..(TICKS - 1)
      /\ partial \in [in_progress : BOOLEAN, addr : Addr, progress : 0..CACHE_INSTR]
  BY DEF MachineInv, TypeOK
<1>2. CacheInv' /\ partial' = partial /\ run' = Idle
  BY <1>1, UnchangedCache DEF HandleException
<1>3. ~partial.in_progress /\ pc \in Addr
  BY DEF HandleException, MachineInv, PartialInv
<1>4. pc' \in Pc
  BY <1>3, CacheAssumption DEF HandleException, Pc, Addr
<1>5. tick' \in 0..(TICKS - 1)
  BY <1>1, TickType DEF HandleException
<1> QED BY <1>1, <1>2, <1>3, <1>4, <1>5, OutOfBlock

LEMMA ResetPreserves ==
    ASSUME MachineInv, Reset
    PROVE  MachineInv'
<1>1. CacheInv' /\ partial' = NoPartial /\ run' = Idle
  BY EmptyCache DEF Reset
<1>2. pc' \in Pc /\ tick' \in 0..(TICKS - 1)
  BY CacheAssumption, StepsAssumption DEF Reset, Pc
<1> QED BY <1>1, <1>2, OutOfBlock

LEMMA NextMachineInv == MachineInv /\ [Next]_vars => MachineInv'
<1> SUFFICES ASSUME MachineInv, [Next]_vars PROVE MachineInv'
  OBVIOUS
<1>1. CASE UNCHANGED vars
  <2>1. CacheInv'
    BY <1>1, UnchangedCache DEF vars, cacheVars, MachineInv
  <2>2. TypeOK'
    BY <1>1, <2>1 DEF vars, TypeOK, MachineInv, CacheInv
  <2>3. RunsWhatWasFetched'
    BY <1>1 DEF vars, MachineInv, RunsWhatWasFetched, InBlock
  <2>4. PartialInv'
    BY <1>1 DEF vars, MachineInv, PartialInv
  <2> QED BY <1>1, <2>1, <2>2, <2>3, <2>4 DEF vars, MachineInv, NoPartialAtLookup, BudgetCoversBlock
<1> QED
  BY <1>1, CallStepMaxPreserves, RunBlockPreserves, InstrNextPreserves, InstrSetPreserves,
     InstrRaisePreserves, RunInstrAtPreserves, FetchFaultPreserves, FenceIPreserves,
     ReturnPreserves, HandleExceptionPreserves, ResetPreserves DEF Next

THEOREM MachineInvariant == Spec => []MachineInv
BY InitMachineInv, NextMachineInv, PTL DEF Spec

(* TypeOK for caches, pages, memories and budgets of any size. *)
THEOREM TypeCorrect == Spec => []TypeOK
<1>1. MachineInv => TypeOK
  BY DEF MachineInv
<1> QED BY <1>1, MachineInvariant, PTL

(* get_block never offers a block with an instruction fetched before the   *)
(* last FENCE.I, however often the fence counter has wrapped.              *)
THEOREM CacheNeverStale == Spec => []NoStaleBlock
<1>1. MachineInv => NoStaleBlock
  BY HitIsFresh DEF MachineInv, NoStaleBlock
<1> QED BY <1>1, MachineInvariant, PTL

(* No block reaches beyond the page it starts in, merged or not. *)
THEOREM BlocksStayInPage == Spec => []BlocksWithinPage
<1>1. Init => BlocksWithinPage
  BY DEF Init, CacheInit, EmptyEntry, BlocksWithinPage
<1>2. MachineInv /\ BlocksWithinPage /\ [Next]_vars => BlocksWithinPage'
  <2> SUFFICES ASSUME MachineInv, BlocksWithinPage, [Next]_vars PROVE BlocksWithinPage'
    OBVIOUS
  <2>same. entry' = entry => BlocksWithinPage'
    BY DEF BlocksWithinPage
  <2>1. CASE RunInstrAt
    <3>1. PICK w \in Width, cacheable \in BOOLEAN :
            /\ pc + w <= MEMORY
            /\ IF cacheable THEN Push(pc, w) ELSE UNCHANGED cacheVars
      BY <2>1 DEF RunInstrAt
    <3>2. pc \in Addr
      BY <3>1, CacheAssumption DEF MachineInv, TypeOK, Pc, Width, Addr
    <3>3. CacheInv
      BY DEF MachineInv
    <3> QED BY <3>1, <3>2, <3>3, <2>same, PushWithinPage DEF cacheVars
  <2>2. CASE FenceI
    <3>1. /\ entry \in [Index -> [addr : Addr \cup {NoAddr}, fence : Fence,
                                 instr : Seq(CachedInstr)]]
      BY DEF MachineInv, CacheInv, CacheTypeOK
    <3>2. \A x \in Index : entry'[x] = entry[x] \/ entry'[x].instr = << >>
      BY <2>2, <3>1 DEF FenceI, Invalidate
    <3> QED BY <3>2 DEF BlocksWithinPage
  <2>3. CASE Reset
    BY <2>3 DEF Reset, CacheReset, EmptyEntry, BlocksWithinPage
  <2>4. CASE ~RunInstrAt /\ ~FenceI /\ ~Reset
    <3>1. entry' = entry
      BY <2>4 DEF Next, vars, CallStepMax, RunBlock, InstrNext, InstrSet, InstrRaise, FetchFault,
                  Return, HandleException, cacheVars
    <3> QED BY <3>1, <2>same
  <2> QED BY <2>1, <2>2, <2>3, <2>4
<1> QED BY <1>1, <1>2, MachineInvariant, PTL DEF Spec

(* Every instruction run from a block was fetched from the program         *)
(* counter's address since the last FENCE.I.                               *)
THEOREM ExecutionMatchesFetch == Spec => []RunsWhatWasFetched
<1>1. MachineInv => RunsWhatWasFetched
  BY DEF MachineInv
<1> QED BY <1>1, MachineInvariant, PTL

(* get_block's debug_assert! holds at every lookup. *)
THEOREM LookupAssertionHolds == Spec => []NoPartialAtLookup
<1>1. MachineInv => NoPartialAtLookup
  BY DEF MachineInv
<1> QED BY <1>1, MachineInvariant, PTL

-----------------------------------------------------------------------------
(* The two machines share the cache's operations.                          *)
LEMMA SameCache ==
    /\ CacheInit <=> Unbudgeted!CacheInit
    /\ Addr = Unbudgeted!Addr /\ Pc = Unbudgeted!Pc /\ Width = Unbudgeted!Width
    /\ \A a : BlockHit(a) <=> Unbudgeted!BlockHit(a)
    /\ \A a : CacheIndex(a) = Unbudgeted!CacheIndex(a)
    /\ Invalidate <=> Unbudgeted!Invalidate
    /\ CacheReset <=> Unbudgeted!CacheReset
    /\ Tick <=> Unbudgeted!Tick
    /\ (UNCHANGED cacheVars) <=> (UNCHANGED Unbudgeted!cacheVars)
<1>1. Addr = Unbudgeted!Addr /\ Pc = Unbudgeted!Pc /\ Width = Unbudgeted!Width
  BY DEF Addr, Pc, Width, Unbudgeted!Addr, Unbudgeted!Pc, Unbudgeted!Width
<1>2. \A a : CacheIndex(a) = Unbudgeted!CacheIndex(a)
  BY DEF CacheIndex, Unbudgeted!CacheIndex
<1>3. \A a : BlockHit(a) <=> Unbudgeted!BlockHit(a)
  BY <1>2 DEF BlockHit, Unbudgeted!BlockHit
<1>4. CacheInit <=> Unbudgeted!CacheInit
  BY DEF CacheInit, Unbudgeted!CacheInit, Index, Unbudgeted!Index, EmptyEntry,
         Unbudgeted!EmptyEntry, NoAddr, Unbudgeted!NoAddr
<1>5. CacheReset <=> Unbudgeted!CacheReset
  BY DEF CacheReset, Unbudgeted!CacheReset, Index, Unbudgeted!Index, EmptyEntry,
         Unbudgeted!EmptyEntry, NoAddr, Unbudgeted!NoAddr
<1>6. Invalidate <=> Unbudgeted!Invalidate
  BY <1>2 DEF Invalidate, Unbudgeted!Invalidate, Index, Unbudgeted!Index, NextFence,
         Unbudgeted!NextFence, NoAddr, Unbudgeted!NoAddr
<1>7. Tick <=> Unbudgeted!Tick
  BY DEF Tick, Unbudgeted!Tick
<1>8. (UNCHANGED cacheVars) <=> (UNCHANGED Unbudgeted!cacheVars)
  BY DEF cacheVars, Unbudgeted!cacheVars
<1> QED BY <1>1, <1>2, <1>3, <1>4, <1>5, <1>6, <1>7, <1>8

LEMMA SamePush ==
    ASSUME NEW a, NEW w
    PROVE  Push(a, w) <=> Unbudgeted!Push(a, w)
BY Zenon DEF Push, Unbudgeted!Push, CacheInner, Unbudgeted!CacheInner, Target, Unbudgeted!Target,
   Restart, Unbudgeted!Restart, Joins, Unbudgeted!Joins, CacheIndex, Unbudgeted!CacheIndex,
   NoAddr, Unbudgeted!NoAddr, cacheVars, Unbudgeted!cacheVars

(* Where the cursor stands once a block has been left.                     *)
LEMMA CursorOutside ==
    ASSUME ~partial'.in_progress, run' = Idle \/ \E n : run' = Loop(n)
    PROVE  Cursor' = Unbudgeted!Outside
<1>1. run'.mode \in {"idle", "loop"}
  BY DEF Idle, Loop
<1>2. ~InBlock' /\ run'.mode # "raised"
  BY <1>1 DEF InBlock
<1> QED BY <1>2 DEF Cursor, Unbudgeted!Outside

LEMMA CursorRaised ==
    ASSUME run' = Raised
    PROVE  Cursor' = Unbudgeted!Environment
<1>1. ~InBlock' /\ run'.mode = "raised"
  BY DEF InBlock, Raised
<1> QED BY <1>1 DEF Cursor, Unbudgeted!Environment

LEMMA CursorInside ==
    ASSUME InBlock
    PROVE  /\ Cursor = [at |-> "inside", slot |-> run.slot, done |-> run.pos]
           /\ Cursor.at = "inside" /\ Cursor.slot = run.slot /\ Cursor.done = run.pos
BY DEF Cursor

LEMMA CursorAtLookup ==
    ASSUME MachineInv, run.mode = "loop", run.left > 0
    PROVE  Cursor = Unbudgeted!Outside
BY DEF Cursor, InBlock, MachineInv, NoPartialAtLookup, Unbudgeted!Outside

(* An instruction that falls through does so in the unbudgeted machine,    *)
(* whether the block goes on, ends, or is interrupted by the budget.       *)
LEMMA InstrNextRefines ==
    ASSUME MachineInv, InstrNext
    PROVE  Unbudgeted!Fallthrough
<1> DEFINE code == entry[run.slot].instr
           k == run.pos + 1
<1>b. InBlock
  BY DEF InstrNext
<1>c. Cursor.at = "inside" /\ Cursor.slot = run.slot /\ Cursor.done = run.pos
  BY <1>b, CursorInside
<1>m. run.mode \in {"whole", "partial"}
  BY <1>b DEF InBlock
<1>1. Cursor' = IF k = Len(code) THEN Unbudgeted!Outside ELSE Unbudgeted!Inside(run.slot, k)
  <2>1. CASE k = Len(code)
    <3>1. LeaveBlock /\ run' = Loop(run.left - 1)
      BY <2>1 DEF InstrNext
    <3>2. ~partial'.in_progress
      BY <3>1, <1>b, LeavesNothing DEF NoPartial
    <3> QED BY <2>1, <3>1, <3>2, CursorOutside
  <2>2. CASE k # Len(code) /\ run.mode = "partial" /\ run.left = 1
    <3>1. partial' = [partial EXCEPT !.progress = k] /\ run' = Loop(0)
      BY <2>2 DEF InstrNext
    <3>2. /\ partial \in [in_progress : BOOLEAN, addr : Addr, progress : 0..CACHE_INSTR]
          /\ partial.in_progress /\ run.slot = CacheIndex(partial.addr)
      <4>1. partial.in_progress /\ run.slot = CacheIndex(partial.addr)
        BY <2>2 DEF MachineInv, PartialInv
      <4>2. TypeOK
        BY DEF MachineInv
      <4> QED BY <4>1, <4>2 DEF TypeOK
    <3>3. partial'.in_progress /\ partial'.addr = partial.addr /\ partial'.progress = k
      BY <3>1, <3>2
    <3>4. run'.mode = "loop"
      BY <3>1 DEF Loop
    <3> QED BY <2>2, <3>2, <3>3, <3>4 DEF Cursor, InBlock, Unbudgeted!Inside
  <2>3. CASE k # Len(code) /\ ~(run.mode = "partial" /\ run.left = 1)
    <3>1. run' = In(run.mode, run.slot, k, run.left - 1)
      BY <2>3 DEF InstrNext
    <3>2. run'.mode = run.mode /\ run'.slot = run.slot /\ run'.pos = k
      BY <3>1 DEF In
    <3> QED BY <2>3, <3>2, <1>m DEF Cursor, InBlock, Unbudgeted!Inside
  <2> QED BY <2>1, <2>2, <2>3
<1>2. pc' = pc + code[k].width /\ Tick /\ UNCHANGED cacheVars
  BY DEF InstrNext
<1> QED BY <1>1, <1>2, <1>c, SameCache DEF Unbudgeted!Fallthrough

(* Every step is a step of the unbudgeted machine or invisible to it.      *)
LEMMA StepRefines ==
    ASSUME MachineInv, [Next]_vars
    PROVE  [Unbudgeted!MachineNext]_(Unbudgeted!machineVars)
<1> USE DEF Unbudgeted!MachineNext
<1>0. CASE UNCHANGED vars
  BY <1>0 DEF vars, Unbudgeted!machineVars, Cursor, InBlock
<1>1. ASSUME NEW n \in 1..MaxSteps, CallStepMax(n)
      PROVE  UNCHANGED Unbudgeted!machineVars
  <2>1. run = Idle /\ UNCHANGED <<entry, fence, current, next, fresh, pc, tick, partial>>
    BY <1>1 DEF CallStepMax, cacheVars
  <2>i. ~InBlock /\ run.mode # "raised"
    BY <2>1 DEF InBlock, Idle
  <2>2. Cursor' = Cursor
    <3>1. CASE partial.in_progress
      <4>1. run' = In("partial", CacheIndex(partial.addr), partial.progress, n)
        BY <1>1, <3>1 DEF CallStepMax
      <4>2. InBlock' /\ run'.slot = CacheIndex(partial.addr) /\ run'.pos = partial.progress
        BY <4>1 DEF In, InBlock
      <4> QED BY <3>1, <4>2, <2>i DEF Cursor
    <3>2. CASE ~partial.in_progress
      <4>1. run' = Loop(n)
        BY <1>1, <3>2 DEF CallStepMax
      <4>2. ~InBlock' /\ run'.mode # "raised"
        BY <4>1 DEF Loop, InBlock
      <4> QED BY <3>2, <4>2, <2>1, <2>i DEF Cursor
    <3> QED BY <3>1, <3>2
  <2> QED BY <2>1, <2>2 DEF Unbudgeted!machineVars
<1>2. CASE RunBlock
  <2>1. Cursor = Unbudgeted!Outside
    BY <1>2, CursorAtLookup DEF RunBlock
  <2>2. Cursor' = Unbudgeted!Inside(CacheIndex(pc), 0)
    <3>1. run'.mode \in {"whole", "partial"} /\ run'.slot = CacheIndex(pc) /\ run'.pos = 0
      BY <1>2 DEF RunBlock, In
    <3> QED BY <3>1 DEF Cursor, InBlock, Unbudgeted!Inside
  <2>3. BlockHit(pc) /\ UNCHANGED cacheVars /\ UNCHANGED <<pc, tick>>
    BY <1>2 DEF RunBlock
  <2> QED BY <2>1, <2>2, <2>3, SameCache DEF Unbudgeted!Enter
<1>3. CASE InstrNext
  BY <1>3, InstrNextRefines
<1>4. CASE InstrSet
  <2>1. InBlock /\ pc' \in Pc /\ LeaveBlock /\ run' = Loop(run.left - 1) /\ Tick /\ UNCHANGED cacheVars
    BY <1>4 DEF InstrSet
  <2>2. Cursor' = Unbudgeted!Outside
    BY <2>1, LeavesNothing, CursorOutside DEF NoPartial
  <2>3. Cursor.at = "inside"
    BY <2>1, CursorInside
  <2> QED BY <2>1, <2>2, <2>3, SameCache DEF Unbudgeted!Jump
<1>5. CASE InstrRaise
  <2>1. InBlock /\ run' = Raised /\ UNCHANGED cacheVars /\ UNCHANGED <<pc, tick>>
    BY <1>5 DEF InstrRaise
  <2>2. Cursor' = Unbudgeted!Environment
    BY <2>1, CursorRaised
  <2>3. Cursor.at = "inside"
    BY <2>1, CursorInside
  <2> QED BY <2>1, <2>2, <2>3, SameCache DEF Unbudgeted!Raise
<1>6. CASE RunInstrAt
  <2>1. Cursor = Unbudgeted!Outside
    BY <1>6, CursorAtLookup DEF RunInstrAt
  <2>2. ~BlockHit(pc) /\ partial' = partial /\ ~partial.in_progress
    BY <1>6, LoopFacts DEF RunInstrAt
  <2>3. PICK w \in Width, cacheable \in BOOLEAN :
          /\ pc + w <= MEMORY
          /\ IF cacheable THEN Push(pc, w) ELSE UNCHANGED cacheVars
          /\ \/ pc' = pc + w /\ run' = Loop(run.left - 1) /\ Tick
             \/ pc' \in Pc /\ run' = Loop(run.left - 1) /\ Tick
             \/ pc' = pc /\ run' = Raised /\ UNCHANGED tick
    BY <1>6 DEF RunInstrAt
  <2>4. run' = Loop(run.left - 1) => Cursor' = Unbudgeted!Outside
    BY <2>2, CursorOutside
  <2>5. run' = Raised => Cursor' = Unbudgeted!Environment
    BY CursorRaised
  <2>6. IF cacheable THEN Unbudgeted!Push(pc, w) ELSE UNCHANGED Unbudgeted!cacheVars
    BY <2>3, SamePush, SameCache
  <2>7. \/ pc' = pc + w /\ Cursor' = Unbudgeted!Outside /\ Unbudgeted!Tick
        \/ pc' \in Unbudgeted!Pc /\ Cursor' = Unbudgeted!Outside /\ Unbudgeted!Tick
        \/ pc' = pc /\ Cursor' = Unbudgeted!Environment /\ UNCHANGED tick
    BY <2>3, <2>4, <2>5, SameCache
  <2> QED BY <2>1, <2>2, <2>3, <2>6, <2>7, SameCache DEF Unbudgeted!FetchAndRun
<1>7. CASE FetchFault
  <2>1. Cursor = Unbudgeted!Outside
    BY <1>7, CursorAtLookup DEF FetchFault
  <2>2. /\ ~BlockHit(pc) /\ pc' = 0 /\ Tick /\ UNCHANGED cacheVars
        /\ partial' = partial /\ ~partial.in_progress /\ run' = Loop(run.left - 1)
    BY <1>7, LoopFacts DEF FetchFault
  <2>3. Cursor' = Unbudgeted!Outside
    BY <2>2, CursorOutside
  <2> QED BY <2>1, <2>2, <2>3, SameCache DEF Unbudgeted!FetchFault
<1>8. CASE FenceI
  <2>1. Cursor = Unbudgeted!Outside
    BY <1>8, CursorAtLookup DEF FenceI
  <2>2. /\ ~BlockHit(pc) /\ pc + 4 <= MEMORY /\ Invalidate /\ pc' = pc + 4 /\ Tick
        /\ partial' = partial /\ ~partial.in_progress /\ run' = Loop(run.left - 1)
    BY <1>8, LoopFacts DEF FenceI
  <2>3. Cursor' = Unbudgeted!Outside
    BY <2>2, CursorOutside
  <2> QED BY <2>1, <2>2, <2>3, SameCache DEF Unbudgeted!FenceI
<1>9. CASE Return
  <2>1. /\ run.mode = "loop" /\ run' = Idle
        /\ UNCHANGED <<entry, fence, current, next, fresh, pc, tick, partial>>
    BY <1>9 DEF Return, cacheVars
  <2>2. Cursor' = Cursor
    BY <2>1 DEF Cursor, InBlock, Idle
  <2> QED BY <2>1, <2>2 DEF Unbudgeted!machineVars
<1>10. CASE HandleException
  <2>1. Cursor = Unbudgeted!Environment
    BY <1>10 DEF HandleException, Cursor, InBlock, Unbudgeted!Environment
  <2>2. /\ pc' = pc + 4 /\ Tick /\ UNCHANGED cacheVars
        /\ partial' = partial /\ ~partial.in_progress /\ run' = Idle
    BY <1>10 DEF HandleException, MachineInv, PartialInv
  <2>3. Cursor' = Unbudgeted!Outside
    BY <2>2, CursorOutside
  <2> QED BY <2>1, <2>2, <2>3, SameCache DEF Unbudgeted!HandleException
<1>11. CASE Reset
  <2>1. CacheReset /\ pc' = 0 /\ tick' = 0 /\ partial' = NoPartial /\ run' = Idle
    BY <1>11 DEF Reset
  <2>2. Cursor' = Unbudgeted!Outside
    BY <2>1, CursorOutside DEF NoPartial
  <2> QED BY <2>1, <2>2, SameCache DEF Unbudgeted!Reset
<1> QED BY <1>0, <1>1, <1>2, <1>3, <1>4, <1>5, <1>6, <1>7, <1>8, <1>9, <1>10, <1>11 DEF Next

(* However the steps are divided over calls of step_max_inner, the machine *)
(* executes exactly as it would with no budgets: refinement of             *)
(* BlockMachine for every choice of the constants.                         *)
THEOREM BudgetsDoNotMatter == Spec => BudgetIndependent
<1>1. Init => Unbudgeted!MachineInit
  <2> SUFFICES ASSUME Init PROVE Unbudgeted!MachineInit
    OBVIOUS
  <2>1. Cursor = Unbudgeted!Outside
    BY DEF Init, Idle, NoPartial, Cursor, InBlock, Unbudgeted!Outside
  <2> QED BY <2>1, SameCache DEF Init, Unbudgeted!MachineInit
<1>2. MachineInv /\ [Next]_vars => [Unbudgeted!MachineNext]_(Unbudgeted!machineVars)
  BY StepRefines
<1> QED BY <1>1, <1>2, MachineInvariant, PTL DEF Spec, BudgetIndependent, Unbudgeted!MachineSpec
=============================================================================
