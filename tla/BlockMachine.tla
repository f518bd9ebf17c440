----------------------------- MODULE BlockMachine -----------------------------
(***************************************************************************)
(* How the machine executes through the block cache when nobody counts     *)
(* steps: the promise that BudgetedMachine, the code's step_max_inner with *)
(* its step budgets and partial blocks, must keep.                         *)
(*                                                                         *)
(* cursor is where execution stands: outside any block, inside the block   *)
(* of a cache entry with so many instructions done, or waiting for the     *)
(* environment to handle an exception.                                     *)
(***************************************************************************)
EXTENDS BlockCache

CONSTANT TICKS          \* number of values of the PVM's tick counter (2^64)

VARIABLES pc, tick, cursor

machineVars == <<entry, fence, current, next, fresh, pc, tick, cursor>>

(* A step is counted (wrapping_add). *)
Tick == tick' = IF tick = TICKS - 1 THEN 0 ELSE tick + 1

(* Where the program counter may point: memory, or just past its end.      *)
Pc == {a \in 0..(MEMORY + 2) : a % 2 = 0}

Outside == [at |-> "outside"]
Environment == [at |-> "environment"]
Inside(x, k) == [at |-> "inside", slot |-> x, done |-> k]

MachineInit ==
    /\ CacheInit
    /\ pc \in Addr
    /\ tick = 0
    /\ cursor = Outside

(* A block is found at the program counter. *)
Enter ==
    /\ cursor = Outside
    /\ BlockHit(pc)
    /\ cursor' = Inside(CacheIndex(pc), 0)
    /\ UNCHANGED <<cacheVars, pc, tick>>

(* The next instruction of the block falls through, jumps (or traps to     *)
(* address 0), or raises an exception for the environment.                 *)
Fallthrough ==
    /\ cursor.at = "inside"
    /\ LET code == entry[cursor.slot].instr
       IN /\ pc' = pc + code[cursor.done + 1].width
          /\ cursor' = IF cursor.done + 1 = Len(code) THEN Outside
                       ELSE Inside(cursor.slot, cursor.done + 1)
    /\ Tick
    /\ UNCHANGED cacheVars

Jump ==
    /\ cursor.at = "inside"
    /\ pc' \in Pc
    /\ cursor' = Outside
    /\ Tick
    /\ UNCHANGED cacheVars

Raise ==
    /\ cursor.at = "inside"
    /\ cursor' = Environment
    /\ UNCHANGED <<cacheVars, pc, tick>>

(* No block: fetch an instruction, cache it when it may be cached, run it. *)
FetchAndRun ==
    /\ cursor = Outside
    /\ ~BlockHit(pc)
    /\ \E w \in Width, cacheable \in BOOLEAN :
          /\ pc + w <= MEMORY
          /\ IF cacheable THEN Push(pc, w) ELSE UNCHANGED cacheVars
          /\ \/ pc' = pc + w /\ cursor' = Outside /\ Tick
             \/ pc' \in Pc /\ cursor' = Outside /\ Tick
             \/ pc' = pc /\ cursor' = Environment /\ UNCHANGED tick

(* The fetch itself faults and the trap goes to address 0.                 *)
FetchFault ==
    /\ cursor = Outside
    /\ ~BlockHit(pc)
    /\ pc' = 0
    /\ Tick
    /\ UNCHANGED <<cacheVars, cursor>>

FenceI ==
    /\ cursor = Outside
    /\ ~BlockHit(pc)
    /\ pc + 4 <= MEMORY
    /\ Invalidate
    /\ pc' = pc + 4
    /\ Tick
    /\ UNCHANGED cursor

(* The environment handles the exception and moves past the instruction.   *)
HandleException ==
    /\ cursor = Environment
    /\ pc' = pc + 4
    /\ Tick
    /\ cursor' = Outside
    /\ UNCHANGED cacheVars

Reset ==
    /\ CacheReset
    /\ pc' = 0
    /\ tick' = 0
    /\ cursor' = Outside

MachineNext ==
    \/ Enter
    \/ Fallthrough
    \/ Jump
    \/ Raise
    \/ FetchAndRun
    \/ FetchFault
    \/ FenceI
    \/ HandleException
    \/ Reset

MachineSpec == MachineInit /\ [][MachineNext]_machineVars
=============================================================================
