----------------------------- MODULE JitDispatch -----------------------------
(***************************************************************************)
(* Dispatch of cached blocks to interpreted or JIT-compiled code, and the  *)
(* hot-swapping of compiled functions by the background compiler thread    *)
(* (machine_state/block_cache/block/{jitted,dispatch}.rs, jit.rs).         *)
(*                                                                         *)
(* The execution thread owns the blocks.  Each block points to a           *)
(* reference-counted atomic cell (Arc<AtomicUsize>) holding the function   *)
(* to call.  Compilation requests carry a clone of that pointer to the     *)
(* compiler thread, which stores into the cell whenever it gets there,     *)
(* possibly long after the block has been rebuilt with other instructions. *)
(*                                                                         *)
(* Instructions are abstracted to how they matter to a compiler: whether   *)
(* they have a lowering, and whether they always leave the block.          *)
(***************************************************************************)
EXTENDS Naturals, Sequences, FiniteSets

CONSTANTS
    Blocks,        \* entries of the block cache
    Cells,         \* addresses at which an Arc<AtomicUsize> may be allocated
    Instr,         \* instructions
    Unsupported,   \* instructions without a lowering (to_lowering is None)
    Leaving,       \* instructions that always set the pc or raise
    CACHE_INSTR,   \* capacity of a block
    WARMUP         \* interpreted runs before compilation (1000 in the code)

ASSUME JitAssumption ==
    /\ Unsupported \subseteq Instr
    /\ Leaving \subseteq Instr
    /\ CACHE_INSTR \in Nat
    /\ WARMUP \in Nat

VARIABLES
    instr,         \* [Blocks -> instructions of the block]
    cell,          \* [Blocks -> Cells]: DispatchTarget::fun, the pointer
    remaining,     \* [Blocks -> Nat]: DispatchTarget::remaining_calls
    fun,           \* [Cells -> function held by the atomic]
    queue,         \* requests in the mpsc channel
    compiler,      \* what the background thread of OutlineCompiler is doing;
                   \* NoThread with the InlineCompiler
    exec           \* what the execution thread is doing

vars == <<instr, cell, remaining, fun, queue, compiler, exec>>

Code == Seq(Instr)

(* The values of a dispatch cell: run_block_interpreted,                   *)
(* run_block_not_compiled, or a compiled function and the code it runs.    *)
Interpreted == [kind |-> "interpreted", code |-> << >>]
NotCompiled == [kind |-> "not_compiled", code |-> << >>]
JitFn(s) == [kind |-> "jit", code |-> s]

Request == [instr : Code, cell : Cells]
Idle == [at |-> "idle"]
Dead == [at |-> "dead"]
NoThread == [at |-> "none"]

(* The instructions a run of s goes through, up to the first that leaves   *)
(* the block: the break statements of run_block_inner.                     *)
Trace(s) ==
    LET reached == {k \in 1..Len(s) : \A j \in 1..(k - 1) : s[j] \notin Leaving}
    IN SubSeq(s, 1, Cardinality(reached))

(* JIT::compile.  NotCompiled stands for its None: an instruction without  *)
(* a lowering is met before the block is left.  The result is cached by    *)
(* the hash of s, which does not change it.                                *)
Compile(s) ==
    LET code == Trace(s)
    IN IF \E k \in 1..Len(code) : code[k] \in Unsupported
       THEN NotCompiled ELSE JitFn(code)

(* Cells some pointer still refers to; the others are free to allocate.    *)
Live ==
    {cell[b] : b \in Blocks}
        \cup {queue[i].cell : i \in 1..Len(queue)}
        \cup (IF compiler.at = "store" THEN {compiler.cell} ELSE {})

Init ==
    /\ instr = [b \in Blocks |-> << >>]
    /\ cell \in [Blocks -> Cells]
    /\ \A b, c \in Blocks : cell[b] = cell[c] => b = c
    /\ remaining = [b \in Blocks |-> WARMUP]
    /\ fun = [c \in Cells |-> Interpreted]
    /\ queue = << >>
    /\ compiler \in {Idle, NoThread}
    /\ exec = Idle

(* Mutant: the reset block keeps its cell *)
ResetSharedCell(b) ==
    /\ fun' = [fun EXCEPT ![cell[b]] = Interpreted]
    /\ remaining' = [remaining EXCEPT ![b] = WARMUP]
    /\ UNCHANGED cell

(* DispatchTarget::reset (and ::default): a fresh cell, never the old one, *)
(* which the compiler thread may still hold.                               *)
DispatchReset(b) ==
    \E c \in Cells \ Live :
        /\ cell' = [cell EXCEPT ![b] = c]
        /\ fun' = [fun EXCEPT ![c] = Interpreted]
        /\ remaining' = [remaining EXCEPT ![b] = WARMUP]

-----------------------------------------------------------------------------
(* The execution thread. *)

(* Jitted::start_block, ::invalidate and ::reset: the block becomes empty. *)
EmptyBlock(b) ==
    /\ exec = Idle
    /\ DispatchReset(b)
    /\ instr' = [instr EXCEPT ![b] = << >>]
    /\ UNCHANGED <<queue, compiler, exec>>

(* Jitted::push_instr. *)
PushInstr(b, i) ==
    /\ exec = Idle
    /\ Len(instr[b]) < CACHE_INSTR
    /\ DispatchReset(b)
    /\ instr' = [instr EXCEPT ![b] = Append(@, i)]
    /\ UNCHANGED <<queue, compiler, exec>>

(* Jitted::bind and Jitted::clone: the instructions with a fresh target.   *)
RebindBlock(b) ==
    /\ exec = Idle
    /\ DispatchReset(b)
    /\ UNCHANGED <<instr, queue, compiler, exec>>

(* Jitted::run_block: loads the function; only non-empty blocks are run.   *)
LoadTarget(b) ==
    /\ exec = Idle
    /\ instr[b] # << >>
    /\ exec' = [at |-> "call", block |-> b, fun |-> fun[cell[b]]]
    /\ UNCHANGED <<instr, cell, remaining, fun, queue, compiler>>

(* A compiled function, or run_block_not_compiled, runs to its end.        *)
CallTarget ==
    /\ exec.at = "call"
    /\ exec.fun.kind # "interpreted"
    /\ exec' = Idle
    /\ UNCHANGED <<instr, cell, remaining, fun, queue, compiler>>

(* run_block_interpreted while OutlineCompiler::should_compile counts down.*)
CallWarmup ==
    /\ exec.at = "call"
    /\ exec.fun.kind = "interpreted"
    /\ compiler # NoThread
    /\ remaining[exec.block] > 0
    /\ remaining' = [remaining EXCEPT ![exec.block] = @ - 1]
    /\ exec' = Idle
    /\ UNCHANGED <<instr, cell, fun, queue, compiler>>

(* run_block_interpreted with InlineCompiler::compile, whose result is set *)
(* and called at once.                                                     *)
CompileInline ==
    /\ exec.at = "call"
    /\ exec.fun.kind = "interpreted"
    /\ compiler = NoThread
    /\ LET f == Compile(instr[exec.block])
       IN /\ fun' = [fun EXCEPT ![cell[exec.block]] = f]
          /\ exec' = [exec EXCEPT !.fun = f]
    /\ UNCHANGED <<instr, cell, remaining, queue, compiler>>

(* Mutant: the request is sent before the cell says so *)
SendWithoutSet ==
    /\ exec.at = "call"
    /\ exec.fun.kind = "interpreted"
    /\ compiler # NoThread
    /\ remaining[exec.block] = 0
    /\ exec' = [at |-> "send", block |-> exec.block]
    /\ UNCHANGED <<instr, cell, remaining, fun, queue, compiler>>

(* run_block_interpreted with OutlineCompiler::compile, up to the send.    *)
SetNotCompiled ==
    /\ exec.at = "call"
    /\ exec.fun.kind = "interpreted"
    /\ compiler # NoThread
    /\ remaining[exec.block] = 0
    /\ fun' = [fun EXCEPT ![cell[exec.block]] = NotCompiled]
    /\ exec' = [at |-> "send", block |-> exec.block]
    /\ UNCHANGED <<instr, cell, remaining, queue, compiler>>

(* The send of the request; it fails silently when the compiler thread is  *)
(* gone.  The block then runs through run_block_not_compiled.              *)
SendRequest ==
    /\ exec.at = "send"
    /\ queue' = IF compiler = Dead THEN queue
                ELSE Append(queue, [instr |-> instr[exec.block],
                                    cell |-> cell[exec.block]])
    /\ exec' = [at |-> "call", block |-> exec.block, fun |-> NotCompiled]
    /\ UNCHANGED <<instr, cell, remaining, fun, compiler>>

-----------------------------------------------------------------------------
(* The compiler thread of OutlineCompiler::new. *)

(* recv and JIT::compile; a block that cannot be compiled is forgotten.    *)
ReceiveAndCompile ==
    /\ compiler = Idle
    /\ queue # << >>
    /\ LET f == Compile(Head(queue).instr)
       IN compiler' = IF f = NotCompiled THEN Idle
                      ELSE [at |-> "store", cell |-> Head(queue).cell, fun |-> f]
    /\ queue' = Tail(queue)
    /\ UNCHANGED <<instr, cell, remaining, fun, exec>>

(* Mutant: the compiled function is dropped *)
StoreNothing ==
    /\ compiler.at = "store"
    /\ compiler' = compiler
    /\ UNCHANGED <<instr, cell, remaining, fun, queue, exec>>

(* The store into the shared cell, after its debug assertion.              *)
StoreJitFn ==
    /\ compiler.at = "store"
    /\ fun' = [fun EXCEPT ![compiler.cell] = compiler.fun]
    /\ compiler' = Idle
    /\ UNCHANGED <<instr, cell, remaining, queue, exec>>

(* The thread panics inside JIT::compile (its unwraps): the receiver, and  *)
(* the requests still queued, are dropped.                                 *)
CompilerPanic ==
    /\ compiler = Idle
    /\ queue # << >>
    /\ compiler' = Dead
    /\ queue' = << >>
    /\ UNCHANGED <<instr, cell, remaining, fun, exec>>

-----------------------------------------------------------------------------
CompilerStep == ReceiveAndCompile \/ StoreJitFn \/ CompilerPanic

Next ==
    \/ \E b \in Blocks :
          \/ EmptyBlock(b)
          \/ \E i \in Instr : PushInstr(b, i)
          \/ RebindBlock(b)
          \/ LoadTarget(b)
    \/ CallTarget
    \/ CallWarmup
    \/ CompileInline
    \/ SetNotCompiled
    \/ SendRequest
    \/ ReceiveAndCompile
    \/ StoreJitFn
    \/ CompilerPanic

Spec == Init /\ [][Next]_vars

(* The operating system schedules the compiler thread.                     *)
FairSpec == Spec /\ WF_vars(CompilerStep)

-----------------------------------------------------------------------------
Fun == [kind : {"interpreted", "not_compiled", "jit"}, code : Code]

(* Every variable stays in its domain, in particular no block outgrows     *)
(* CACHE_INSTR and the warm-up counter never underflows                    *)
(* (the unchecked_sub of should_compile).                                  *)
TypeOK ==
    /\ instr \in [Blocks -> Code]
    /\ \A b \in Blocks : Len(instr[b]) <= CACHE_INSTR
    /\ cell \in [Blocks -> Cells]
    /\ remaining \in [Blocks -> 0..WARMUP]
    /\ fun \in [Cells -> Fun]
    /\ queue \in Seq(Request)
    /\ compiler \in {Idle, Dead, NoThread} \cup [at : {"store"}, cell : Cells, fun : Fun]
    /\ exec \in {Idle} \cup [at : {"call"}, block : Blocks, fun : Fun]
                       \cup [at : {"send"}, block : Blocks]

(* The requests the compiler thread has not finished with, as the cells    *)
(* they point to.                                                          *)
Outstanding ==
    {queue[i].cell : i \in 1..Len(queue)}
        \cup (IF compiler.at = "store" THEN {compiler.cell} ELSE {})

(* A compiled function reachable from a block runs exactly what the block's *)
(* current instructions would run interpreted, however late the compiler   *)
(* thread stored it (the comment in DispatchTarget::reset).                *)
TargetMatchesBlock ==
    \A b \in Blocks :
        fun[cell[b]].kind = "jit" => fun[cell[b]].code = Trace(instr[b])

(* The same of the function the execution thread has loaded and calls.     *)
CalledFunctionMatchesBlock ==
    exec.at = "call" /\ exec.fun.kind = "jit"
        => exec.fun.code = Trace(instr[exec.block])

(* No block reaches, and no call runs, code compiled from instructions     *)
(* that are not the block's any more, however the compiler thread and the  *)
(* rebuilding of blocks interleave (DispatchTarget::reset).                *)
CompiledIsCurrent == TargetMatchesBlock /\ CalledFunctionMatchesBlock

(* The debug assertion of the compiler thread: the cell it is about to     *)
(* store into still holds run_block_not_compiled.                          *)
StoreIntoNotCompiled ==
    compiler.at = "store" => fun[compiler.cell] = NotCompiled

(* The strengthening that makes the properties above inductive: cells are  *)
(* not shared, a request's cell belongs to at most the block it was sent   *)
(* for, with the same instructions, and is waiting for the compiler.       *)
CellsNotShared ==
    \A b, c \in Blocks : cell[b] = cell[c] => b = c

RequestsDistinct ==
    /\ \A i, j \in 1..Len(queue) : queue[i].cell = queue[j].cell => i = j
    /\ compiler.at = "store" =>
          \A i \in 1..Len(queue) : queue[i].cell # compiler.cell

RequestsCurrent ==
    \A i \in 1..Len(queue) :
        /\ fun[queue[i].cell] = NotCompiled
        /\ \A b \in Blocks : cell[b] = queue[i].cell => instr[b] = queue[i].instr

StoreCurrent ==
    compiler.at = "store" =>
        /\ fun[compiler.cell] = NotCompiled
        /\ \A b \in Blocks :
              cell[b] = compiler.cell => compiler.fun = JitFn(Trace(instr[b]))

ExecCurrent ==
    /\ exec.at = "call" /\ exec.fun.kind = "interpreted"
          => fun[cell[exec.block]].kind = "interpreted"
    /\ exec.at = "send" =>
          /\ fun[cell[exec.block]] = NotCompiled
          /\ cell[exec.block] \notin Outstanding

DispatchInv ==
    /\ TypeOK
    /\ CellsNotShared
    /\ RequestsDistinct
    /\ RequestsCurrent
    /\ StoreCurrent
    /\ ExecCurrent
    /\ TargetMatchesBlock
    /\ CalledFunctionMatchesBlock

(* Every request is eventually dealt with (or dropped with the thread), so *)
(* a hot block is not left interpreted while the thread is alive.          *)
RequestsAreHandled ==
    \A c \in Cells : c \in Outstanding ~> c \notin Outstanding
=============================================================================
