--------------------------- MODULE BudgetedMachine ----------------------------
(***************************************************************************)
(* Stepping the machine as the code does it (machine_state.rs,             *)
(* block_cache/state.rs): the caller of step_max_inner gives a number of   *)
(* steps, a block longer than what is left of it is run partially, and     *)
(* the PartialBlock in the state lets the next call resume it.             *)
(*                                                                         *)
(* run is the call in progress: idle between calls, "loop" at the head of  *)
(* step_max_inner's loop, "whole" inside run_block, "partial" inside       *)
(* run_partial_inner; slot and pos are the block and the instructions      *)
(* done in it, left the steps the caller still allows.                     *)
(***************************************************************************)
EXTENDS BlockCache

CONSTANTS
    MaxSteps,       \* largest budget a caller gives
    TICKS           \* number of values of the PVM's tick counter (2^64)

ASSUME StepsAssumption ==
    /\ MaxSteps \in Nat \ {0}
    /\ TICKS \in Nat
    /\ TICKS > 1

VARIABLES pc, tick, partial, run

vars == <<entry, fence, current, next, fresh, pc, tick, partial, run>>

(* A step is counted.  The code adds the steps of a call to tick when the  *)
(* call returns; here each one is added as it happens.                     *)
Tick == tick' = IF tick = TICKS - 1 THEN 0 ELSE tick + 1

Pc == {a \in 0..(MEMORY + 2) : a % 2 = 0}

NoPartial == [in_progress |-> FALSE, addr |-> 0, progress |-> 0]   \* PartialBlock::reset
Idle == [mode |-> "idle"]
Raised == [mode |-> "raised"]
Loop(n) == [mode |-> "loop", left |-> n]
In(m, x, k, n) == [mode |-> m, slot |-> x, pos |-> k, left |-> n]
InBlock == run.mode \in {"whole", "partial"}

(* Leaving a block clears the PartialBlock when the run is a partial one.  *)
LeaveBlock == partial' = IF run.mode = "partial" THEN NoPartial ELSE partial

Init ==
    /\ CacheInit
    /\ pc \in Addr
    /\ tick = 0
    /\ partial = NoPartial
    /\ run = Idle

(* Mutant: a new call forgets the partial block *)
CallStepMaxDroppingPartial(n) ==
    /\ run = Idle
    /\ partial' = NoPartial
    /\ run' = Loop(n)
    /\ UNCHANGED <<cacheVars, pc, tick>>

(* step_max_inner is called; complete_current_block goes first.            *)
CallStepMax(n) ==
    /\ run = Idle
    /\ run' = IF partial.in_progress
              THEN In("partial", CacheIndex(partial.addr), partial.progress, n)
              ELSE Loop(n)
    /\ UNCHANGED <<cacheVars, pc, tick, partial>>

(* BlockCall::run_block: the whole block if the budget allows, otherwise   *)
(* run_block_partial.                                                      *)
RunBlock ==
    /\ run.mode = "loop" /\ run.left > 0
    /\ BlockHit(pc)
    /\ LET x == CacheIndex(pc)
       IN IF Len(entry[x].instr) <= run.left
          THEN run' = In("whole", x, 0, run.left) /\ UNCHANGED partial
          ELSE /\ run' = In("partial", x, 0, run.left)
               /\ partial' = [in_progress |-> TRUE, addr |-> entry[x].addr, progress |-> 0]
    /\ UNCHANGED <<cacheVars, pc, tick>>

(* Mutant: the progress in the partial block is not saved *)
InstrNextForgetsProgress ==
    /\ InBlock
    /\ LET code == entry[run.slot].instr
           k == run.pos + 1
       IN /\ pc' = pc + code[k].width
          /\ IF k = Len(code)
             THEN partial' = NoPartial /\ run' = Loop(run.left - 1)
             ELSE IF run.mode = "partial" /\ run.left = 1
             THEN UNCHANGED partial /\ run' = Loop(0)
             ELSE UNCHANGED partial /\ run' = In(run.mode, run.slot, k, run.left - 1)
    /\ Tick
    /\ UNCHANGED cacheVars

(* An instruction of the block completes with ProgramCounterUpdate::Next.  *)
(* A partial run that exhausts its budget inside the block saves progress. *)
InstrNext ==
    /\ InBlock
    /\ LET code == entry[run.slot].instr
           k == run.pos + 1
       IN /\ pc' = pc + code[k].width
          /\ \/ /\ k = Len(code)
                /\ LeaveBlock
                /\ run' = Loop(run.left - 1)
             \/ /\ k # Len(code) /\ run.mode = "partial" /\ run.left = 1
                /\ partial' = [partial EXCEPT !.progress = k]
                /\ run' = Loop(0)
             \/ /\ k # Len(code) /\ ~(run.mode = "partial" /\ run.left = 1)
                /\ run' = In(run.mode, run.slot, k, run.left - 1)
                /\ UNCHANGED partial
    /\ Tick
    /\ UNCHANGED cacheVars

(* ... with ProgramCounterUpdate::Set, or with an exception whose trap     *)
(* handler is address 0; either counts as a step and leaves the block.     *)
InstrSet ==
    /\ InBlock
    /\ pc' \in Pc
    /\ LeaveBlock
    /\ run' = Loop(run.left - 1)
    /\ Tick
    /\ UNCHANGED cacheVars

(* ... with an exception for the environment: step_max_inner returns it,   *)
(* with the program counter on the instruction.                            *)
InstrRaise ==
    /\ InBlock
    /\ LeaveBlock
    /\ run' = Raised
    /\ UNCHANGED <<cacheVars, pc, tick>>

(* run_instr_at: get_block fails, so fetch_instr reads the instruction,    *)
(* caches it if its page is not writable and it is Cacheable, and it runs. *)
RunInstrAt ==
    /\ run.mode = "loop" /\ run.left > 0
    /\ ~BlockHit(pc)
    /\ \E w \in Width, cacheable \in BOOLEAN :
          /\ pc + w <= MEMORY
          /\ IF cacheable THEN Push(pc, w) ELSE UNCHANGED cacheVars
          /\ \/ pc' = pc + w /\ run' = Loop(run.left - 1) /\ Tick
             \/ pc' \in Pc /\ run' = Loop(run.left - 1) /\ Tick
             \/ pc' = pc /\ run' = Raised /\ UNCHANGED tick
    /\ UNCHANGED partial

FetchFault ==
    /\ run.mode = "loop" /\ run.left > 0
    /\ ~BlockHit(pc)
    /\ pc' = 0
    /\ run' = Loop(run.left - 1)
    /\ Tick
    /\ UNCHANGED <<cacheVars, partial>>

(* FENCE.I is uncacheable, so it always comes through run_instr_at.        *)
FenceI ==
    /\ run.mode = "loop" /\ run.left > 0
    /\ ~BlockHit(pc)
    /\ pc + 4 <= MEMORY
    /\ Invalidate
    /\ pc' = pc + 4
    /\ run' = Loop(run.left - 1)
    /\ Tick
    /\ UNCHANGED partial

(* The loop's condition fails and step_max_inner returns.                  *)
Return ==
    /\ run.mode = "loop" /\ run.left = 0
    /\ run' = Idle
    /\ UNCHANGED <<cacheVars, pc, tick, partial>>

(* step_max_handle or eval_one passes the exception to the supervisor,     *)
(* which moves the program counter past the instruction.                   *)
HandleException ==
    /\ run.mode = "raised"
    /\ pc' = pc + 4
    /\ run' = Idle
    /\ Tick
    /\ UNCHANGED <<cacheVars, partial>>

(* MachineState::reset *)
Reset ==
    /\ run = Idle
    /\ CacheReset
    /\ pc' = 0
    /\ tick' = 0
    /\ partial' = NoPartial
    /\ UNCHANGED run

Next ==
    \/ \E n \in 1..MaxSteps : CallStepMax(n)
    \/ RunBlock
    \/ InstrNext
    \/ InstrSet
    \/ InstrRaise
    \/ RunInstrAt
    \/ FetchFault
    \/ FenceI
    \/ Return
    \/ HandleException
    \/ Reset

Spec == Init /\ [][Next]_vars

-----------------------------------------------------------------------------
TypeOK ==
    /\ CacheTypeOK
    /\ pc \in Pc
    /\ tick \in 0..(TICKS - 1)
    /\ partial \in [in_progress : BOOLEAN, addr : Addr, progress : 0..CACHE_INSTR]
    /\ run \in {Idle, Raised} \cup {Loop(n) : n \in 0..MaxSteps}
               \cup {In(m, x, k, n) : m \in {"whole", "partial"}, x \in Index,
                                      k \in 0..CACHE_INSTR, n \in 1..MaxSteps}

(* Whatever instruction the machine is about to run from a block, whole,   *)
(* partial or resumed, was fetched from the address in the program counter *)
(* and after the last FENCE.I (run_block and run_partial_inner compare     *)
(* neither: they trust the entry found at the start).                      *)
RunsWhatWasFetched ==
    InBlock =>
        LET e == entry[run.slot]
        IN /\ run.pos < Len(e.instr)
           /\ e.instr[run.pos + 1].addr = pc
           /\ e.fence = fence
           /\ fresh[run.slot]

(* The debug_assert! of get_block: no block is looked up while a partial   *)
(* one is in progress.                                                     *)
NoPartialAtLookup ==
    run.mode = "loop" /\ run.left > 0 => ~partial.in_progress

(* A call never runs more instructions than its budget: a whole block is   *)
(* only begun when what is left of the budget covers it.                   *)
BudgetCoversBlock ==
    run.mode = "whole" => Len(entry[run.slot].instr) - run.pos <= run.left

(* The inductive strengthening of the properties above.                    *)
PartialInv ==
    /\ run.mode = "raised" => pc \in Addr
    /\ run.mode = "partial" =>
          /\ partial.in_progress
          /\ run.slot = CacheIndex(partial.addr)
          /\ entry[run.slot].addr = partial.addr
    /\ run.mode \in {"whole", "raised"} => ~partial.in_progress
    /\ partial.in_progress /\ run.mode \in {"idle", "loop"} =>
          LET e == entry[CacheIndex(partial.addr)]
          IN /\ e.addr = partial.addr
             /\ e.fence = fence
             /\ fresh[CacheIndex(partial.addr)]
             /\ partial.progress < Len(e.instr)
             /\ e.instr[partial.progress + 1].addr = pc

MachineInv ==
    /\ TypeOK
    /\ CacheInv
    /\ RunsWhatWasFetched
    /\ PartialInv
    /\ NoPartialAtLookup
    /\ BudgetCoversBlock

-----------------------------------------------------------------------------
(* Where BlockMachine's cursor stands, whatever the budget.                *)
Cursor ==
    IF InBlock THEN [at |-> "inside", slot |-> run.slot, done |-> run.pos]
    ELSE IF run.mode = "raised" THEN [at |-> "environment"]
    ELSE IF partial.in_progress
    THEN [at |-> "inside", slot |-> CacheIndex(partial.addr), done |-> partial.progress]
    ELSE [at |-> "outside"]

Unbudgeted == INSTANCE BlockMachine WITH cursor <- Cursor

(* However the steps are divided into calls, the machine executes exactly  *)
(* what it would execute with no budgets at all: "we always execute the    *)
(* _same_ set of instructions, no matter how many steps are remaining"     *)
(* (block_cache.rs).                                                       *)
BudgetIndependent == Unbudgeted!MachineSpec
=============================================================================
