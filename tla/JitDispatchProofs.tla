------------------------- MODULE JitDispatchProofs -------------------------
(***************************************************************************)
(* Proofs about JitDispatch, for any number of blocks, cells and           *)
(* instructions and any capacity and warm-up: DispatchInv is inductive,    *)
(* so compiled code always matches the block that reaches it.              *)
(***************************************************************************)
EXTENDS JitDispatch, SequenceTheorems, FiniteSetTheorems, TLAPS

(* What a run of a block goes through is again a sequence of instructions. *)
LEMMA TraceType ==
    ASSUME NEW s \in Code
    PROVE  Trace(s) \in Code
<1> DEFINE reached == {k \in 1..Len(s) : \A j \in 1..(k - 1) : s[j] \notin Leaving}
<1>1. Len(s) \in Nat
  BY DEF Code
<1>2. /\ IsFiniteSet(1..Len(s))
      /\ Cardinality(1..Len(s)) = IF 1 > Len(s) THEN 0 ELSE Len(s) - 1 + 1
  BY <1>1, FS_Interval DEF Code
<1>3. /\ IsFiniteSet(reached)
      /\ Cardinality(reached) <= Len(s)
  BY <1>1, <1>2, FS_Subset
<1>4. Cardinality(reached) \in Nat
  BY <1>3, FS_CardinalityType
<1>5. \A i \in 1..Cardinality(reached) : s[i] \in Instr
  BY <1>1, <1>3, <1>4 DEF Code
<1>6. SubSeq(s, 1, Cardinality(reached)) \in Seq(Instr)
  <2> DEFINE n == Cardinality(reached)
  <2>1. n \in Int /\ \A i \in 1..n : s[i] \in Instr
    BY <1>4, <1>5
  <2> HIDE DEF n
  <2>2. SubSeq(s, 1, n) \in Seq(Instr)
    BY <2>1, SubSeqProperties
  <2> QED
    BY <2>2 DEF n
<1> QED
  BY <1>6, Zenon DEF Trace, Code

(* JIT::compile either declines or compiles exactly the trace.             *)
LEMMA CompileResult ==
    ASSUME NEW s \in Code
    PROVE  /\ Compile(s) = NotCompiled \/ Compile(s) = JitFn(Trace(s))
           /\ Compile(s) \in Fun
<1>1. Compile(s) = NotCompiled \/ Compile(s) = JitFn(Trace(s))
  BY DEF Compile
<1>2. NotCompiled \in Fun /\ JitFn(Trace(s)) \in Fun
  BY TraceType DEF NotCompiled, JitFn, Fun, Code
<1> QED
  BY <1>1, <1>2

(* Giving a block a fresh target and other instructions keeps DispatchInv: *)
(* the fresh cell is in no request.                                        *)
LEMMA ResetPreserves ==
    ASSUME DispatchInv, exec = Idle,
           NEW b \in Blocks, DispatchReset(b),
           NEW s \in Code, Len(s) <= CACHE_INSTR,
           instr' = [instr EXCEPT ![b] = s],
           UNCHANGED <<queue, compiler, exec>>
    PROVE  DispatchInv'
<1> USE DEF DispatchInv
<1>1. PICK c \in Cells \ Live :
          /\ cell' = [cell EXCEPT ![b] = c]
          /\ fun' = [fun EXCEPT ![c] = Interpreted]
          /\ remaining' = [remaining EXCEPT ![b] = WARMUP]
  BY DEF DispatchReset
<1>2. /\ \A a \in Blocks : cell[a] # c
      /\ \A i \in 1..Len(queue) : queue[i].cell # c
      /\ compiler.at = "store" => compiler.cell # c
  BY <1>1 DEF Live
<1>3. TypeOK'
  <2>1. Interpreted \in Fun
    BY DEF Interpreted, Fun, Code
  <2> QED
    BY <1>1, <2>1, JitAssumption DEF TypeOK
<1>4. CellsNotShared'
  BY <1>1, <1>2 DEF CellsNotShared, TypeOK
<1>5. RequestsDistinct'
  BY DEF RequestsDistinct
<1>6. RequestsCurrent'
  <2> SUFFICES ASSUME NEW i \in 1..Len(queue)
               PROVE  /\ fun'[queue[i].cell] = NotCompiled
                      /\ \A a \in Blocks :
                            cell'[a] = queue[i].cell => instr'[a] = queue[i].instr
    BY DEF RequestsCurrent
  <2>1. queue[i].cell \in Cells /\ queue[i].cell # c
    <3>1. queue \in Seq(Request)
      BY DEF TypeOK
    <3>2. queue[i] \in Request
      BY <3>1
    <3> QED
      BY <1>2, <3>2 DEF Request
  <2>2. fun'[queue[i].cell] = NotCompiled
    BY <1>1, <2>1 DEF RequestsCurrent, TypeOK
  <2>3. ASSUME NEW a \in Blocks, cell'[a] = queue[i].cell
        PROVE  instr'[a] = queue[i].instr
    <3>1. a # b
      BY <1>1, <2>1, <2>3 DEF TypeOK
    <3> QED
      BY <1>1, <2>3, <3>1 DEF RequestsCurrent, TypeOK
  <2> QED
    BY <2>2, <2>3
<1>7. StoreCurrent'
  <2> SUFFICES ASSUME compiler.at = "store"
               PROVE  /\ fun'[compiler.cell] = NotCompiled
                      /\ \A a \in Blocks :
                            cell'[a] = compiler.cell
                                => compiler.fun = JitFn(Trace(instr'[a]))
    BY DEF StoreCurrent
  <2>1. compiler.cell \in Cells
    BY DEF TypeOK, Idle, Dead, NoThread
  <2>2. fun'[compiler.cell] = NotCompiled
    BY <1>1, <1>2, <2>1 DEF StoreCurrent, TypeOK
  <2>3. ASSUME NEW a \in Blocks, cell'[a] = compiler.cell
        PROVE  compiler.fun = JitFn(Trace(instr'[a]))
    BY <1>1, <1>2, <2>3 DEF StoreCurrent, TypeOK
  <2> QED
    BY <2>2, <2>3
<1>8. ExecCurrent' /\ CalledFunctionMatchesBlock'
  BY DEF ExecCurrent, CalledFunctionMatchesBlock, Idle
<1>9. TargetMatchesBlock'
  BY <1>1, <1>2 DEF TargetMatchesBlock, TypeOK, Interpreted
<1> QED
  BY <1>3, <1>4, <1>5, <1>6, <1>7, <1>8, <1>9

(* No two kinds of dispatch function are equal.                            *)
LEMMA FunKinds ==
    /\ Interpreted.kind = "interpreted"
    /\ NotCompiled.kind = "not_compiled"
    /\ \A s : JitFn(s).kind = "jit" /\ JitFn(s).code = s
    /\ Interpreted \in Fun /\ NotCompiled \in Fun
BY DEF Interpreted, NotCompiled, JitFn, Fun, Code

LEMMA InitDispatchInv == Init => DispatchInv
<1> SUFFICES ASSUME Init PROVE DispatchInv
  OBVIOUS
<1> USE FunKinds DEF Init
<1>1. TypeOK
  BY JitAssumption DEF TypeOK, Code
<1>2. CellsNotShared
  BY DEF CellsNotShared
<1>3. RequestsDistinct /\ RequestsCurrent
  BY DEF RequestsDistinct, RequestsCurrent, Idle, NoThread
<1>4. StoreCurrent /\ ExecCurrent /\ CalledFunctionMatchesBlock
  BY DEF StoreCurrent, ExecCurrent, CalledFunctionMatchesBlock, Idle, NoThread
<1>5. TargetMatchesBlock
  BY DEF TargetMatchesBlock
<1> QED
  BY <1>1, <1>2, <1>3, <1>4, <1>5 DEF DispatchInv

(* Steps of the execution thread that run a block.                         *)
LEMMA RunPreserves ==
    ASSUME DispatchInv,
           \/ \E b \in Blocks : LoadTarget(b)
           \/ CallTarget \/ CallWarmup \/ CompileInline
           \/ SetNotCompiled \/ SendRequest
    PROVE  DispatchInv'
<1> USE FunKinds DEF DispatchInv
<1>1. ASSUME NEW b \in Blocks, LoadTarget(b)
      PROVE  DispatchInv'
  <2> USE <1>1 DEF LoadTarget
  <2>1. TypeOK'
    BY DEF TypeOK
  <2>2. CellsNotShared' /\ RequestsDistinct' /\ RequestsCurrent'
        /\ StoreCurrent' /\ TargetMatchesBlock'
    BY DEF CellsNotShared, RequestsDistinct, RequestsCurrent, StoreCurrent,
           TargetMatchesBlock
  <2>3. ExecCurrent' /\ CalledFunctionMatchesBlock'
    BY DEF ExecCurrent, CalledFunctionMatchesBlock, TargetMatchesBlock
  <2> QED
    BY <2>1, <2>2, <2>3
<1>2. CASE CallTarget \/ CallWarmup
  <2> USE <1>2 DEF CallTarget, CallWarmup
  <2>1. TypeOK'
    <3>1. exec.block \in Blocks
      BY DEF TypeOK, Idle
    <3>2. remaining[exec.block] \in 0..WARMUP /\ WARMUP \in Nat
      BY <3>1, JitAssumption DEF TypeOK
    <3>3. CASE CallTarget
      BY <3>3 DEF TypeOK
    <3>4. CASE CallWarmup
      <4>1. remaining[exec.block] - 1 \in 0..WARMUP
        BY <3>2, <3>4
      <4> QED
        BY <3>4, <4>1 DEF TypeOK
    <3> QED
      BY <3>3, <3>4
  <2>2. CellsNotShared' /\ RequestsDistinct' /\ RequestsCurrent'
        /\ StoreCurrent' /\ TargetMatchesBlock'
    BY DEF CellsNotShared, RequestsDistinct, RequestsCurrent, StoreCurrent,
           TargetMatchesBlock
  <2>3. ExecCurrent' /\ CalledFunctionMatchesBlock'
    BY DEF ExecCurrent, CalledFunctionMatchesBlock, Idle
  <2> QED
    BY <2>1, <2>2, <2>3
<1>3. CASE CompileInline
  <2> DEFINE b == exec.block
             f == Compile(instr[b])
  <2>1. /\ exec.at = "call" /\ exec.fun.kind = "interpreted"
        /\ fun' = [fun EXCEPT ![cell[b]] = f]
        /\ exec' = [exec EXCEPT !.fun = f]
        /\ UNCHANGED <<instr, cell, remaining, queue, compiler>>
    BY <1>3 DEF CompileInline
  <2>2. /\ b \in Blocks
        /\ exec \in [at : {"call"}, block : Blocks, fun : Fun]
    BY <2>1 DEF TypeOK, Idle
  <2>3. /\ f \in Fun
        /\ f.kind = "jit" => f.code = Trace(instr[b])
        /\ f.kind # "interpreted"
    BY <2>2, CompileResult DEF TypeOK
  <2>4. fun[cell[b]].kind = "interpreted"
    BY <2>1 DEF ExecCurrent
  <2> HIDE DEF f
  <2>5. TypeOK'
    BY <2>1, <2>2, <2>3 DEF TypeOK
  <2>6. CellsNotShared' /\ RequestsDistinct'
    BY <2>1 DEF CellsNotShared, RequestsDistinct
  <2>7. RequestsCurrent'
    BY <2>1, <2>2, <2>4 DEF RequestsCurrent, TypeOK, Request
  <2>8. StoreCurrent'
    BY <2>1, <2>2, <2>4 DEF StoreCurrent, TypeOK, Idle, Dead, NoThread
  <2>9. TargetMatchesBlock'
    BY <2>1, <2>2, <2>3 DEF TargetMatchesBlock, TypeOK, CellsNotShared
  <2>10. ExecCurrent' /\ CalledFunctionMatchesBlock'
    BY <2>1, <2>2, <2>3 DEF ExecCurrent, CalledFunctionMatchesBlock
  <2> QED
    BY <2>5, <2>6, <2>7, <2>8, <2>9, <2>10
<1>4. CASE SetNotCompiled
  <2> DEFINE b == exec.block
  <2>1. /\ exec.at = "call" /\ exec.fun.kind = "interpreted"
        /\ fun' = [fun EXCEPT ![cell[b]] = NotCompiled]
        /\ exec' = [at |-> "send", block |-> b]
        /\ UNCHANGED <<instr, cell, remaining, queue, compiler>>
    BY <1>4 DEF SetNotCompiled
  <2>2. b \in Blocks
    BY <2>1 DEF TypeOK, Idle
  <2>3. fun[cell[b]].kind = "interpreted"
    BY <2>1 DEF ExecCurrent
  <2>4. cell[b] \notin Outstanding
    BY <2>3 DEF Outstanding, RequestsCurrent, StoreCurrent
  <2>5. TypeOK'
    BY <2>1, <2>2 DEF TypeOK
  <2>6. CellsNotShared' /\ RequestsDistinct'
    BY <2>1 DEF CellsNotShared, RequestsDistinct
  <2>7. RequestsCurrent'
    BY <2>1, <2>2, <2>3 DEF RequestsCurrent, TypeOK, Request
  <2>8. StoreCurrent'
    BY <2>1, <2>2, <2>3 DEF StoreCurrent, TypeOK, Idle, Dead, NoThread
  <2>9. TargetMatchesBlock'
    BY <2>1, <2>2 DEF TargetMatchesBlock, TypeOK, CellsNotShared
  <2>10. ExecCurrent' /\ CalledFunctionMatchesBlock'
    BY <2>1, <2>2, <2>4
       DEF ExecCurrent, CalledFunctionMatchesBlock, TypeOK, Outstanding
  <2> QED
    BY <2>5, <2>6, <2>7, <2>8, <2>9, <2>10
<1>5. CASE SendRequest
  <2> DEFINE b == exec.block
             r == [instr |-> instr[b], cell |-> cell[b]]
  <2>1. /\ exec.at = "send"
        /\ queue' = IF compiler = Dead THEN queue ELSE Append(queue, r)
        /\ exec' = [at |-> "call", block |-> b, fun |-> NotCompiled]
        /\ UNCHANGED <<instr, cell, remaining, fun, compiler>>
    BY <1>5 DEF SendRequest
  <2>2. b \in Blocks
    BY <2>1 DEF TypeOK, Idle
  <2>3. /\ fun[cell[b]] = NotCompiled
        /\ \A i \in 1..Len(queue) : queue[i].cell # cell[b]
        /\ compiler.at = "store" => compiler.cell # cell[b]
    BY <2>1 DEF ExecCurrent, Outstanding
  <2>4. r \in Request /\ r.cell = cell[b] /\ r.instr = instr[b]
    BY <2>2 DEF TypeOK, Request
  <2> HIDE DEF r
  <2>5. /\ queue' \in Seq(Request)
        /\ \A i \in 1..Len(queue') :
              \/ i \in 1..Len(queue) /\ queue'[i] = queue[i]
              \/ i = Len(queue) + 1 /\ queue'[i] = r
        /\ Len(queue) \in Nat
    BY <2>1, <2>4, AppendProperties DEF TypeOK
  <2>6. TypeOK'
    BY <2>1, <2>2, <2>5 DEF TypeOK
  <2>7. RequestsDistinct'
    BY <2>1, <2>3, <2>4, <2>5 DEF RequestsDistinct
  <2>8. RequestsCurrent'
    BY <2>1, <2>2, <2>3, <2>4, <2>5 DEF RequestsCurrent, CellsNotShared
  <2>9. CellsNotShared' /\ StoreCurrent' /\ TargetMatchesBlock'
    BY <2>1 DEF CellsNotShared, StoreCurrent, TargetMatchesBlock
  <2>10. ExecCurrent' /\ CalledFunctionMatchesBlock'
    BY <2>1 DEF ExecCurrent, CalledFunctionMatchesBlock
  <2> QED
    BY <2>6, <2>7, <2>8, <2>9, <2>10
<1> QED
  BY <1>1, <1>2, <1>3, <1>4, <1>5

(* Steps of the compiler thread.                                           *)
LEMMA CompilerPreserves ==
    ASSUME DispatchInv, CompilerStep
    PROVE  DispatchInv'
<1> USE FunKinds DEF DispatchInv
<1>1. CASE ReceiveAndCompile
  <2> DEFINE r == Head(queue)
             f == Compile(r.instr)
  <2>1. /\ compiler = Idle /\ queue # << >>
        /\ compiler' = IF f = NotCompiled THEN Idle
                       ELSE [at |-> "store", cell |-> r.cell, fun |-> f]
        /\ queue' = Tail(queue)
        /\ UNCHANGED <<instr, cell, remaining, fun, exec>>
    BY <1>1 DEF ReceiveAndCompile
  <2>2. /\ r \in Request /\ r = queue[1] /\ 1 \in 1..Len(queue)
        /\ queue' \in Seq(Request)
        /\ Len(queue) \in Nat /\ Len(queue') = Len(queue) - 1
        /\ \A i \in 1..Len(queue') :
              /\ i + 1 \in 1..Len(queue)
              /\ queue'[i] = queue[i + 1]
    BY <2>1, HeadTailProperties DEF TypeOK
  <2>3. /\ f \in Fun
        /\ f = NotCompiled \/ f = JitFn(Trace(r.instr))
    BY <2>2, CompileResult DEF Request
  <2> HIDE DEF f, r
  <2>4. TypeOK'
    BY <2>1, <2>2, <2>3 DEF TypeOK, Request
  <2>5. RequestsDistinct'
    <3>1. \A i, j \in 1..Len(queue') : queue'[i].cell = queue'[j].cell => i = j
      <4> SUFFICES ASSUME NEW i \in 1..Len(queue'), NEW j \in 1..Len(queue'),
                          queue'[i].cell = queue'[j].cell
                   PROVE  i = j
        OBVIOUS
      <4>1. i + 1 = j + 1
        BY <2>2 DEF RequestsDistinct
      <4> QED
        BY <4>1
    <3>2. ASSUME NEW i \in 1..Len(queue')
          PROVE  queue'[i].cell # r.cell
      <4>1. i + 1 # 1 /\ queue'[i] = queue[i + 1] /\ i + 1 \in 1..Len(queue)
        BY <2>2
      <4> QED
        BY <4>1, <2>2 DEF RequestsDistinct
    <3>3. compiler'.at = "store" => compiler'.cell = r.cell
      BY <2>1 DEF Idle
    <3> QED
      BY <3>1, <3>2, <3>3 DEF RequestsDistinct
  <2>6. RequestsCurrent'
    BY <2>1, <2>2 DEF RequestsCurrent
  <2>7. StoreCurrent'
    BY <2>1, <2>2, <2>3 DEF StoreCurrent, RequestsCurrent, Idle
  <2>8. CellsNotShared' /\ TargetMatchesBlock' /\ CalledFunctionMatchesBlock'
    BY <2>1 DEF CellsNotShared, TargetMatchesBlock, CalledFunctionMatchesBlock
  <2>9. ExecCurrent'
    <3>1. Outstanding' \subseteq Outstanding
      BY <2>1, <2>2 DEF Outstanding, Idle
    <3> QED
      BY <2>1, <3>1 DEF ExecCurrent
  <2> QED
    BY <2>4, <2>5, <2>6, <2>7, <2>8, <2>9
<1>2. CASE StoreJitFn
  <2>1. /\ compiler.at = "store"
        /\ fun' = [fun EXCEPT ![compiler.cell] = compiler.fun]
        /\ compiler' = Idle
        /\ UNCHANGED <<instr, cell, remaining, queue, exec>>
    BY <1>2 DEF StoreJitFn
  <2>2. compiler.cell \in Cells /\ compiler.fun \in Fun
    BY <2>1 DEF TypeOK, Idle, Dead, NoThread
  <2>3. TypeOK'
    BY <2>1, <2>2 DEF TypeOK
  <2>4. RequestsDistinct' /\ StoreCurrent' /\ CellsNotShared'
        /\ CalledFunctionMatchesBlock'
    BY <2>1 DEF RequestsDistinct, StoreCurrent, CellsNotShared,
                CalledFunctionMatchesBlock, Idle
  <2>5. RequestsCurrent'
    BY <2>1, <2>2 DEF RequestsCurrent, RequestsDistinct, TypeOK
  <2>6. TargetMatchesBlock'
    BY <2>1, <2>2 DEF TargetMatchesBlock, StoreCurrent, TypeOK
  <2>7. ExecCurrent'
    <3>1. fun[compiler.cell] = NotCompiled
      BY <2>1 DEF StoreCurrent
    <3>2. Outstanding' \subseteq Outstanding /\ compiler.cell \in Outstanding
      BY <2>1 DEF Outstanding, Idle
    <3>3. ASSUME exec.at = "call", exec.fun.kind = "interpreted"
          PROVE  fun'[cell[exec.block]].kind = "interpreted"
      <4>1. cell[exec.block] # compiler.cell
        BY <3>1, <3>3 DEF ExecCurrent
      <4>2. exec.block \in Blocks
        BY <3>3 DEF TypeOK, Idle
      <4> QED
        BY <2>1, <3>3, <4>1, <4>2 DEF ExecCurrent, TypeOK
    <3>4. ASSUME exec.at = "send"
          PROVE  /\ fun'[cell[exec.block]] = NotCompiled
                 /\ cell[exec.block] \notin Outstanding'
      <4>1. exec.block \in Blocks
        BY <3>4 DEF TypeOK, Idle
      <4> QED
        BY <2>1, <3>2, <3>4, <4>1 DEF ExecCurrent, TypeOK
    <3> QED
      BY <2>1, <3>3, <3>4 DEF ExecCurrent
  <2> QED
    BY <2>3, <2>4, <2>5, <2>6, <2>7
<1>3. CASE CompilerPanic
  <2> USE <1>3 DEF CompilerPanic
  <2>1. TypeOK'
    BY DEF TypeOK
  <2>2. RequestsDistinct' /\ RequestsCurrent' /\ StoreCurrent'
    BY DEF RequestsDistinct, RequestsCurrent, StoreCurrent, Dead
  <2>3. CellsNotShared' /\ TargetMatchesBlock' /\ CalledFunctionMatchesBlock'
    BY DEF CellsNotShared, TargetMatchesBlock, CalledFunctionMatchesBlock
  <2>4. ExecCurrent'
    BY DEF ExecCurrent, Outstanding, Dead
  <2> QED
    BY <2>1, <2>2, <2>3, <2>4
<1> QED
  BY <1>1, <1>2, <1>3 DEF CompilerStep

LEMMA NextDispatchInv == DispatchInv /\ [Next]_vars => DispatchInv'
<1> SUFFICES ASSUME DispatchInv, [Next]_vars PROVE DispatchInv'
  OBVIOUS
<1>1. ASSUME NEW b \in Blocks, EmptyBlock(b) PROVE DispatchInv'
  <2>1. << >> \in Code /\ Len(<< >>) <= CACHE_INSTR
    BY JitAssumption DEF Code
  <2> QED
    BY <1>1, <2>1, ResetPreserves DEF EmptyBlock
<1>2. ASSUME NEW b \in Blocks, NEW i \in Instr, PushInstr(b, i) PROVE DispatchInv'
  <2>1. instr[b] \in Code /\ instr' = [instr EXCEPT ![b] = Append(instr[b], i)]
    BY <1>2 DEF PushInstr, DispatchInv, TypeOK
  <2>2. /\ Append(instr[b], i) \in Code
        /\ Len(Append(instr[b], i)) <= CACHE_INSTR
    BY <1>2, <2>1, AppendProperties, JitAssumption DEF PushInstr, Code
  <2> QED
    BY <1>2, <2>1, <2>2, ResetPreserves DEF PushInstr
<1>3. ASSUME NEW b \in Blocks, RebindBlock(b) PROVE DispatchInv'
  <2>1. /\ instr[b] \in Code /\ Len(instr[b]) <= CACHE_INSTR
        /\ instr' = [instr EXCEPT ![b] = instr[b]]
    BY <1>3 DEF RebindBlock, DispatchInv, TypeOK
  <2> QED
    BY <1>3, <2>1, ResetPreserves DEF RebindBlock
<1>4. CASE UNCHANGED vars
  <2> USE <1>4 DEF vars, DispatchInv
  <2>1. TypeOK'
    BY DEF TypeOK
  <2>2. CellsNotShared' /\ RequestsDistinct' /\ RequestsCurrent' /\ StoreCurrent'
    BY DEF CellsNotShared, RequestsDistinct, RequestsCurrent, StoreCurrent
  <2>3. ExecCurrent'
    BY DEF ExecCurrent, Outstanding
  <2>4. TargetMatchesBlock' /\ CalledFunctionMatchesBlock'
    BY DEF TargetMatchesBlock, CalledFunctionMatchesBlock
  <2> QED
    BY <2>1, <2>2, <2>3, <2>4
<1>5. CASE \/ \E b \in Blocks : LoadTarget(b)
           \/ CallTarget \/ CallWarmup \/ CompileInline
           \/ SetNotCompiled \/ SendRequest
  BY <1>5, RunPreserves
<1>6. CASE ReceiveAndCompile \/ StoreJitFn \/ CompilerPanic
  BY <1>6, CompilerPreserves DEF CompilerStep
<1> QED
  BY <1>1, <1>2, <1>3, <1>4, <1>5, <1>6 DEF Next

LEMMA DispatchInvariant == Spec => []DispatchInv
<1> QED
  BY InitDispatchInv, NextDispatchInv, PTL DEF Spec

(* Type correctness: in particular a block never outgrows CACHE_INSTR and  *)
(* the unchecked decrement of should_compile never underflows.             *)
THEOREM TypeCorrect == Spec => []TypeOK
<1>1. DispatchInv => TypeOK
  BY DEF DispatchInv
<1> QED
  BY DispatchInvariant, <1>1, PTL

(* However late the compiler thread stores, a block only reaches code      *)
(* compiled from its current instructions (DispatchTarget::reset).         *)
THEOREM CompiledCodeIsCurrent == Spec => []CompiledIsCurrent
<1>1. DispatchInv => CompiledIsCurrent
  BY DEF DispatchInv, CompiledIsCurrent
<1> QED
  BY DispatchInvariant, <1>1, PTL

(* The debug assertion of the compiler thread in OutlineCompiler::new      *)
(* never fails.                                                            *)
THEOREM StoreAssertionHolds == Spec => []StoreIntoNotCompiled
<1>1. DispatchInv => StoreIntoNotCompiled
  BY DEF DispatchInv, StoreCurrent, StoreIntoNotCompiled
<1> QED
  BY DispatchInvariant, <1>1, PTL
=============================================================================
