------------------------------ MODULE BlockCache ------------------------------
(***************************************************************************)
(* The block cache (machine_state/block_cache/state.rs): a direct-mapped   *)
(* table from addresses to blocks, i.e. contiguous runs of instructions    *)
(* within one page.  Fetched instructions are appended to the block under  *)
(* construction; FENCE.I advances a wrapping counter instead of clearing   *)
(* the table.                                                              *)
(*                                                                         *)
(* This module holds the cache's state and the operations on it as action  *)
(* formulas; BlockMachine and BudgetedMachine execute programs with it.    *)
(* A cached instruction is the address it was fetched from and its width.  *)
(* fresh is a history variable: fresh[x] says that everything in entry x   *)
(* was fetched after the last FENCE.I.                                     *)
(***************************************************************************)
EXTENDS Integers, Sequences

CONSTANTS
    SIZE,         \* number of entries
    CACHE_INSTR,  \* capacity of a block (20 in the code)
    PAGE_SIZE,    \* bytes per page (4096)
    MEMORY,       \* bytes of memory
    COUNTER       \* number of values of a FenceCounter (2^32)

(* The last conjunct is what fence_counter_wrapping_protection amounts to  *)
(* for a SIZE and a COUNTER that are powers of two.                        *)
ASSUME CacheAssumption ==
    /\ SIZE \in Nat \ {0}
    /\ CACHE_INSTR \in Nat \ {0}
    /\ PAGE_SIZE \in Nat \ {0}
    /\ PAGE_SIZE % 2 = 0
    /\ MEMORY \in Nat \ {0}
    /\ MEMORY % 2 = 0
    /\ COUNTER \in Nat
    /\ 2 * SIZE <= COUNTER

VARIABLES
    entry,     \* [Index -> Cached]
    fence,     \* BlockCache::fence_counter
    current,   \* BlockCache::current_block_addr
    next,      \* BlockCache::next_instr_addr
    fresh      \* history: see above

cacheVars == <<entry, fence, current, next, fresh>>

Index == 0..(SIZE - 1)
NoAddr == -1                                             \* !0
Addr == {a \in 0..(MEMORY - 1) : a % 2 = 0}
Width == {2, 4}
CachedInstr == [addr : Addr, width : Width]
Fence == 0..(COUNTER - 1)

(* BlockCacheConfig::cache_index *)
CacheIndex(a) == (a \div 2) % SIZE

(* FenceCounter::next: wrapping_add(1). *)
NextFence(f) == IF f = COUNTER - 1 THEN 0 ELSE f + 1

EmptyEntry == [addr |-> NoAddr, fence |-> 0, instr |-> << >>]

CacheInit ==
    /\ entry = [x \in Index |-> EmptyEntry]
    /\ fence = 0
    /\ current = NoAddr
    /\ next = NoAddr
    /\ fresh = [x \in Index |-> FALSE]

(* get_block: is there a valid block starting at a?  *)
BlockHit(a) ==
    /\ entry[CacheIndex(a)].addr = a
    /\ entry[CacheIndex(a)].fence = fence
    /\ entry[CacheIndex(a)].instr # << >>

(* The callers of cache_inner reset_to(a) unless a continues the block.    *)
Restart(a) == a % PAGE_SIZE = 0 \/ a # next

(* The block a new instruction at a goes to, by cache_inner: the current   *)
(* one, continued or started, or one starting at a when that is full.      *)
Target(a) ==
    LET cur == IF Restart(a) THEN a ELSE current
        e == entry[CacheIndex(cur)]
        starts == e.addr # cur \/ e.addr = a
        full == ~starts /\ Len(e.instr) = CACHE_INSTR
    IN [block |-> IF full THEN a ELSE cur, starts |-> starts \/ full]

(* May block b, now len instructions long and ending before n, be merged   *)
(* with the block at n?  Block b itself does not start at n.               *)
Joins(b, n, len) ==
    LET adjacent == entry[CacheIndex(n)]
    IN /\ CacheIndex(n) # CacheIndex(b)
       /\ adjacent.addr = n
       /\ adjacent.fence = fence
       /\ n % PAGE_SIZE # 0
       /\ Len(adjacent.instr) + len <= CACHE_INSTR

(* cache_inner with the reset_to of its callers. *)
CacheInner(a, w) ==
    LET to == Target(a)
        x == CacheIndex(to.block)
        n == a + w
        code == Append(IF to.starts THEN << >> ELSE entry[x].instr,
                       [addr |-> a, width |-> w])
        joins == Joins(to.block, n, Len(code))
        y == CacheIndex(n)
    IN /\ entry' = [entry EXCEPT ![x] =
                      [addr |-> to.block,
                       fence |-> IF to.starts THEN fence ELSE @.fence,
                       instr |-> IF joins THEN code \o entry[y].instr ELSE code]]
       /\ fresh' = [fresh EXCEPT ![x] =
                      (to.starts \/ fresh[x]) /\ (joins => fresh[y])]
       /\ current' = IF joins THEN NoAddr ELSE to.block
       /\ next' = IF joins THEN NoAddr ELSE n
       /\ UNCHANGED fence

(* Mutant: an instruction that crosses the page is cached *)
PushAlways(a, w) == CacheInner(a, w)

(* push_instr_compressed and push_instr_uncompressed; the latter skips an  *)
(* instruction that straddles two pages.                                   *)
Push(a, w) ==
    IF w = 4 /\ a % PAGE_SIZE = PAGE_SIZE - 2
    THEN UNCHANGED cacheVars
    ELSE CacheInner(a, w)

(* Mutant: the entry that the new counter could match is not emptied *)
InvalidateCounterOnly ==
    /\ fence' = NextFence(fence)
    /\ current' = NoAddr
    /\ next' = 0
    /\ fresh' = [x \in Index |-> FALSE]
    /\ UNCHANGED entry

(* invalidate, run by FENCE.I: besides advancing the counter it empties    *)
(* one entry, picked by the old counter as if it were an address.          *)
Invalidate ==
    /\ fence' = NextFence(fence)
    /\ current' = NoAddr
    /\ next' = 0
    /\ entry' = [entry EXCEPT ![CacheIndex(fence)] =
                    [addr |-> NoAddr, fence |-> @.fence, instr |-> << >>]]
    /\ fresh' = [x \in Index |-> FALSE]

(* reset *)
CacheReset ==
    /\ fence' = 0
    /\ current' = NoAddr
    /\ next' = 0
    /\ entry' = [x \in Index |-> EmptyEntry]
    /\ fresh' = [x \in Index |-> FALSE]

-----------------------------------------------------------------------------
CacheTypeOK ==
    /\ entry \in [Index -> [addr : Addr \cup {NoAddr},
                            fence : Fence,
                            instr : Seq(CachedInstr)]]
    /\ fence \in Fence
    /\ current \in Addr \cup {NoAddr}
    /\ next \in {NoAddr} \cup {a \in 0..(MEMORY + 2) : a % 2 = 0}
    /\ fresh \in [Index -> BOOLEAN]

(* A block never exceeds CACHE_INSTR, is contiguous from its own address   *)
(* and sits in the slot of that address.                                   *)
BlocksContiguous ==
    \A x \in Index :
        LET e == entry[x]
        IN /\ Len(e.instr) <= CACHE_INSTR
           /\ e.addr # NoAddr => CacheIndex(e.addr) = x /\ e.instr # << >>
           /\ e.addr = NoAddr => e.instr = << >>
           /\ e.instr # << >> => e.instr[1].addr = e.addr
           /\ \A k \in 1..(Len(e.instr) - 1) :
                 e.instr[k + 1].addr = e.instr[k].addr + e.instr[k].width

(* A block stays within the page it starts in, also when the block behind  *)
(* it was merged into it: permissions are checked per page, and only when  *)
(* an instruction is fetched (the module comment of block_cache.rs).       *)
BlocksWithinPage ==
    \A x \in Index :
        LET e == entry[x]
        IN \A k \in 1..Len(e.instr) :
              (e.instr[k].addr + e.instr[k].width - 1) \div PAGE_SIZE
                  = e.addr \div PAGE_SIZE

(* A block that can be run holds only instructions fetched after the last  *)
(* FENCE.I, even once the fence counter has wrapped around.                *)
NoStaleBlock ==
    \A a \in Addr : BlockHit(a) => fresh[CacheIndex(a)]

(* The block under construction is the valid one at current and its next   *)
(* instruction belongs at next; when there is none, no push continues one. *)
BuildingBlock ==
    IF current = NoAddr
    THEN next \in {NoAddr, 0}
    ELSE LET e == entry[CacheIndex(current)]
         IN /\ BlockHit(current)
            /\ next = e.instr[Len(e.instr)].addr + e.instr[Len(e.instr)].width

(* Why the wrap is harmless: the fence counters that went by since an      *)
(* entry was begun do not include one that sweeps the entry away, and an   *)
(* entry with the present counter was begun under it.                      *)
Passed(f, g) ==
    IF f <= g THEN f..(g - 1) ELSE (f..(COUNTER - 1)) \cup (0..(g - 1))

FenceSweep ==
    \A x \in Index : entry[x].addr # NoAddr =>
        /\ \A k \in Passed(entry[x].fence, fence) : CacheIndex(k) # x
        /\ entry[x].fence = fence => fresh[x]

CacheInv ==
    /\ CacheTypeOK
    /\ BlocksContiguous
    /\ BuildingBlock
    /\ FenceSweep
=============================================================================
