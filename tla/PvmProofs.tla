------------------------------ MODULE PvmProofs ------------------------------
(***************************************************************************)
(* Proofs, for programs, inboxes, bounds and counters of any size, of what *)
(* PvmStepper promises its callers, and of what the node knows of its PVM. *)
(***************************************************************************)
EXTENDS MCPvm, TLAPS

-----------------------------------------------------------------------------
(* PvmStepper *)

(* What a bound leaves, as a number of steps. *)
LEMMA BoundFacts ==
    ASSUME NEW b \in Bounds
    PROVE  /\ Steps(b) \in 0..USIZE_MAX
           /\ b.kind = "Unbounded" => LessThanBound(0, b)
           /\ b.kind # "Unbounded" => (LessThanBound(0, b) <=> Steps(b) > 0)
<1>1. /\ b.kind \in {"Included", "Excluded", "Unbounded"}
      /\ b.n \in 0..USIZE_MAX
  BY DEF Bounds
<1> QED BY <1>1, PvmAssumption DEF Steps, LessThanBound, SaturatingSub

LEMMA BoundSubFacts ==
    ASSUME NEW b \in Bounds, NEW s \in Nat
    PROVE  /\ BoundSaturatingSub(b, s) \in Bounds
           /\ BoundSaturatingSub(b, s).kind = b.kind
           /\ b.kind # "Unbounded" =>
                Steps(BoundSaturatingSub(b, s)) = SaturatingSub(Steps(b), s)
<1>1. /\ b.kind \in {"Included", "Excluded", "Unbounded"}
      /\ b.n \in 0..USIZE_MAX
      /\ b = [kind |-> b.kind, n |-> b.n]
  BY DEF Bounds
<1>2. SaturatingSub(b.n, s) \in 0..USIZE_MAX
  BY <1>1, PvmAssumption DEF SaturatingSub
<1>3. CASE b.kind = "Unbounded"
  BY <1>3 DEF BoundSaturatingSub
<1>4. CASE b.kind # "Unbounded"
  <2>1. /\ BoundSaturatingSub(b, s) \in Bounds
        /\ BoundSaturatingSub(b, s).kind = b.kind
        /\ BoundSaturatingSub(b, s).n = SaturatingSub(b.n, s)
    BY <1>1, <1>2, <1>4 DEF BoundSaturatingSub, Bounds
  <2>2. SaturatingSub(SaturatingSub(b.n, s), 1) = SaturatingSub(SaturatingSub(b.n, 1), s)
    BY <1>1, PvmAssumption DEF SaturatingSub
  <2> QED BY <2>1, <2>2 DEF Steps
<1> QED BY <1>3, <1>4

LEMMA ZeroBound == /\ Included(0) \in Bounds
                   /\ Included(0).kind = "Included"
                   /\ Steps(Included(0)) = 0
                   /\ ~LessThanBound(0, Included(0))
BY PvmAssumption DEF Included, Bounds, Steps, LessThanBound

(* A step of an evaluating program goes on evaluating, or leaves a request *)
(* whose arguments are in the registers.                                   *)
LEMMA ProgramStepFacts ==
    ASSUME TypeOK, ArgsFromRequest, status = "Evaluating",
           NEW goesOn \in BOOLEAN, ProgramStep(goesOn)
    PROVE  /\ status' \in Status
           /\ regs' \in {"program", "args", "answer"}
           /\ reveal_request' \in Requests \cup {"none"}
           /\ exited' \in BOOLEAN
           /\ (status' = "Evaluating") <=> (regs' # "args")
           /\ goesOn => status' = "Evaluating"
<1>1. /\ exited \in BOOLEAN
      /\ reveal_request \in Requests \cup {"none"}
  BY DEF TypeOK, PvmTypeOK
<1> QED
  BY <1>1 DEF ProgramStep, Instruction, LinuxCall, Exit, TezosCall, InboxNext,
              Reveal, Status

(* The account of a call after Running{steps}. *)
LEMMA ContinueFacts ==
    ASSUME StepperInv, call.on, NEW steps \in Nat, Continue(steps),
           steps = 0 => ~LessThanBound(0, call.bound),
           call.bound.kind = "Unbounded"
             \/ steps <= Steps(call.bound)
             \/ (steps = 1 /\ status' = "Evaluating" /\ status # "Evaluating")
    PROVE  /\ call' \in [on : BOOLEAN, asked : Bounds, bound : Bounds,
                         total : 0..USIZE_MAX]
           /\ result' \in [kind : {"None", "Running", "Exited"}, asked : Bounds,
                           total : 0..USIZE_MAX]
           /\ reported' = (reported + steps) % TICKS
           /\ CallAccount'
           /\ OvershootByOneAnswer'
           /\ RunsToTheBound'
<1> DEFINE asked == call.asked
           bound == call.bound
           total == call.total
<1>1. /\ asked \in Bounds /\ bound \in Bounds /\ total \in 0..USIZE_MAX
      /\ call = [on |-> TRUE, asked |-> asked, bound |-> bound, total |-> total]
      /\ result \in [kind : {"None", "Running", "Exited"}, asked : Bounds,
                     total : 0..USIZE_MAX]
  BY DEF StepperInv, TypeOK
<1>2. /\ bound.kind = asked.kind
      /\ asked.kind # "Unbounded" =>
            /\ Steps(bound) = SaturatingSub(Steps(asked), total)
            /\ total <= Steps(asked) + 1
            /\ total > Steps(asked) => status = "Evaluating"
  BY DEF StepperInv, CallAccount
<1>3. /\ Steps(asked) \in 0..USIZE_MAX
      /\ Steps(bound) \in 0..USIZE_MAX
      /\ bound.kind = "Unbounded" => LessThanBound(0, bound)
      /\ bound.kind # "Unbounded" => (LessThanBound(0, bound) <=> Steps(bound) > 0)
  BY <1>1, BoundFacts
<1>4. OvershootByOneAnswer /\ RunsToTheBound
  BY DEF StepperInv
<1>5. reported' = (reported + steps) % TICKS
  BY DEF Continue
<1>6. CASE steps < 1
  <2>1. /\ call' = Idle
        /\ result' = [kind |-> "Running", asked |-> asked, total |-> total]
    BY <1>6 DEF Continue, Return
  <2>2. Idle \in [on : BOOLEAN, asked : Bounds, bound : Bounds, total : 0..USIZE_MAX]
    BY ZeroBound, PvmAssumption DEF Idle
  <2>3. asked.kind # "Unbounded" /\ Steps(bound) = 0
    BY <1>2, <1>3, <1>6
  <2>4. total >= Steps(asked) /\ total <= Steps(asked) + 1
    BY <1>1, <1>2, <1>3, <2>3 DEF SaturatingSub
  <2>5. OvershootByOneAnswer' /\ RunsToTheBound'
    BY <2>1, <2>4 DEF OvershootByOneAnswer, RunsToTheBound, Steps
  <2>6. CallAccount'
    BY <2>1 DEF CallAccount, Idle
  <2> QED BY <1>1, <1>5, <2>1, <2>2, <2>5, <2>6
<1>7. CASE ~(steps < 1)
  <2> DEFINE bound2 == BoundSaturatingSub(bound, steps)
             total2 == SaturatingAdd(total, steps)
  <2>1. /\ call' = [call EXCEPT !.total = total2, !.bound = bound2]
        /\ result' = result
    BY <1>7 DEF Continue
  <2>2. /\ bound2 \in Bounds
        /\ bound2.kind = bound.kind
        /\ bound.kind # "Unbounded" => Steps(bound2) = SaturatingSub(Steps(bound), steps)
    BY <1>1, BoundSubFacts
  <2>3. total2 \in 0..USIZE_MAX
    BY <1>1, PvmAssumption DEF SaturatingAdd
  <2> HIDE DEF bound2
  <2>4. ASSUME asked.kind # "Unbounded"
        PROVE  /\ Steps(bound2) = SaturatingSub(Steps(asked), total2)
               /\ total2 <= Steps(asked) + 1
               /\ total2 > Steps(asked) => status' = "Evaluating"
    <3> DEFINE A == Steps(asked)
               B == Steps(bound)
    <3>1. /\ A \in 0..USIZE_MAX /\ B \in 0..USIZE_MAX
          /\ B = SaturatingSub(A, total)
          /\ total <= A + 1
          /\ Steps(bound2) = SaturatingSub(B, steps)
      BY <1>2, <1>3, <2>2, <2>4
    <3>2. CASE steps <= B
      <4> HIDE DEF A, B
      <4>1. total + steps <= A
        BY <1>1, <1>7, <3>1, <3>2, PvmAssumption DEF SaturatingSub
      <4>2. total2 = total + steps
        BY <1>1, <3>1, <4>1, PvmAssumption DEF SaturatingAdd
      <4>3. SaturatingSub(B, steps) = SaturatingSub(A, total + steps)
        BY <1>1, <3>1, <3>2, <4>1, PvmAssumption DEF SaturatingSub
      <4> QED BY <1>1, <3>1, <4>1, <4>2, <4>3, PvmAssumption DEF A
    <3>3. CASE ~(steps <= B)
      <4>1. steps = 1 /\ status' = "Evaluating" /\ status # "Evaluating"
        BY <1>2, <2>4, <3>3
      <4>2. total <= A
        BY <1>1, <1>2, <2>4, <3>1, <4>1, PvmAssumption
      <4> HIDE DEF A, B
      <4>3. B = 0 /\ total = A
        BY <1>1, <3>1, <3>3, <4>1, <4>2, PvmAssumption DEF SaturatingSub
      <4>4. SaturatingSub(B, steps) = 0 /\ SaturatingSub(A, total2) = 0
            /\ total2 <= A + 1
        BY <1>1, <3>1, <4>1, <4>3, PvmAssumption DEF SaturatingSub, SaturatingAdd
      <4> QED BY <3>1, <4>1, <4>4 DEF A
    <3> QED BY <3>2, <3>3
  <2>5. call' = [on |-> TRUE, asked |-> asked, bound |-> bound2, total |-> total2]
    BY <1>1, <2>1
  <2> HIDE DEF total2
  <2>6. CallAccount'
    BY <1>2, <2>2, <2>4, <2>5 DEF CallAccount, Steps
  <2>7. OvershootByOneAnswer' /\ RunsToTheBound'
    BY <1>4, <2>1 DEF OvershootByOneAnswer, RunsToTheBound, Steps
  <2> QED BY <1>1, <1>5, <2>1, <2>2, <2>3, <2>5, <2>6, <2>7
<1> QED BY <1>6, <1>7

-----------------------------------------------------------------------------
LEMMA InitInv == Init => StepperInv
<1> SUFFICES ASSUME Init PROVE StepperInv
  OBVIOUS
<1>1. NoEval \in [on : BOOLEAN, bound : Bounds, steps : 0..MAX_RUN] /\ ~NoEval.on
  BY ZeroBound, PvmAssumption DEF NoEval
<1>2. Idle \in [on : BOOLEAN, asked : Bounds, bound : Bounds, total : 0..USIZE_MAX]
      /\ ~Idle.on
  BY ZeroBound, PvmAssumption DEF Idle
<1>3. PvmTypeOK
  <2>1. 0 \in 0..(TICKS - 1) /\ 0 \in 0..(U32 - 1)
    BY PvmAssumption
  <2> QED BY <1>1, <2>1 DEF Init, PvmInit, PvmTypeOK, Status
<1>4. TypeOK
  BY <1>2, <1>3, ZeroBound, PvmAssumption, StepperAssumption DEF Init, TypeOK
<1>5. /\ ArgsFromRequest /\ TickCountsSteps /\ InboxInOrder
  BY DEF Init, PvmInit, ArgsFromRequest, TickCountsSteps, InboxInOrder
<1>6. EvalWithinCall /\ CallAccount
  BY <1>1, <1>2 DEF Init, PvmInit, EvalWithinCall, CallAccount
<1>7. OvershootByOneAnswer /\ RunsToTheBound
  BY ZeroBound DEF Init, OvershootByOneAnswer, RunsToTheBound
<1> QED BY <1>4, <1>5, <1>6, <1>7 DEF StepperInv

LEMMA TickType == \A x \in Int : x % TICKS \in 0..(TICKS - 1)
BY PvmAssumption

(* Ticks and reported steps advance together. *)
LEMMA TickFacts ==
    ASSUME StepperInv, NEW n \in Nat, AddTicks(n), reported' = (reported + n) % TICKS
    PROVE  tick' \in 0..(TICKS - 1) /\ reported' \in 0..(TICKS - 1) /\ TickCountsSteps'
<1>1. tick \in 0..(TICKS - 1) /\ tick = reported
  BY DEF StepperInv, TypeOK, PvmTypeOK, TickCountsSteps
<1>2. (tick + n) % TICKS \in 0..(TICKS - 1)
  BY <1>1, TickType, PvmAssumption
<1> QED BY <1>1, <1>2 DEF AddTicks, TickCountsSteps

(* A call starts, evaluation starts or steps, the state is bound again.    *)
LEMMA StepMaxInv == ASSUME StepperInv, NEW b \in CallBounds, StepMax(b)
                    PROVE  StepperInv'
<1>1. /\ b \in Bounds
      /\ call' = [on |-> TRUE, asked |-> b, bound |-> b, total |-> 0]
      /\ UNCHANGED <<pvmVars, consumed, result, reported>>
      /\ ~eval.on
  BY StepperAssumption DEF StepMax, StepperInv, EvalWithinCall
<1>2. TypeOK'
  BY <1>1, PvmAssumption DEF StepperInv, TypeOK, PvmTypeOK, pvmVars, inputVars
<1>3. ArgsFromRequest' /\ TickCountsSteps' /\ InboxInOrder'
  BY <1>1 DEF StepperInv, ArgsFromRequest, TickCountsSteps, InboxInOrder,
              pvmVars, inputVars
<1>4. EvalWithinCall'
  BY <1>1 DEF EvalWithinCall, pvmVars
<1>5. CallAccount'
  BY <1>1, BoundFacts, PvmAssumption DEF CallAccount, SaturatingSub, Steps
<1>6. OvershootByOneAnswer' /\ RunsToTheBound'
  BY <1>1 DEF StepperInv, OvershootByOneAnswer, RunsToTheBound, Steps, SaturatingSub
<1> QED BY <1>2, <1>3, <1>4, <1>5, <1>6 DEF StepperInv

(* step_max returns Exited: nothing else changes. *)
LEMMA ReturnExitedInv ==
    ASSUME StepperInv, call.on, ~eval.on, Return("Exited"),
           UNCHANGED <<pvmVars, consumed, reported>>
    PROVE  StepperInv'
<1>1. /\ call' = Idle
      /\ result' = [kind |-> "Exited", asked |-> call.asked, total |-> call.total]
      /\ call \in [on : BOOLEAN, asked : Bounds, bound : Bounds, total : 0..USIZE_MAX]
  BY DEF Return, StepperInv, TypeOK
<1>2. Idle \in [on : BOOLEAN, asked : Bounds, bound : Bounds, total : 0..USIZE_MAX]
      /\ ~Idle.on
  BY ZeroBound, PvmAssumption DEF Idle
<1>3. TypeOK'
  BY <1>1, <1>2 DEF StepperInv, TypeOK, PvmTypeOK, pvmVars, inputVars
<1>4. ArgsFromRequest' /\ TickCountsSteps' /\ InboxInOrder'
  BY DEF StepperInv, ArgsFromRequest, TickCountsSteps, InboxInOrder,
         pvmVars, inputVars
<1>5. EvalWithinCall' /\ CallAccount'
  BY <1>1, <1>2 DEF EvalWithinCall, CallAccount, pvmVars
<1>6. OvershootByOneAnswer'
  <2>1. call.asked.kind # "Unbounded" => call.total <= Steps(call.asked) + 1
    BY DEF StepperInv, CallAccount
  <2> QED BY <1>1, <2>1 DEF OvershootByOneAnswer, Steps, SaturatingSub
<1>7. RunsToTheBound'
  BY <1>1 DEF RunsToTheBound
<1> QED BY <1>3, <1>4, <1>5, <1>6, <1>7 DEF StepperInv

LEMMA FoundExitedInv == ASSUME StepperInv, FoundExited PROVE StepperInv'
BY ReturnExitedInv DEF FoundExited, Once

LEMMA FoundEvaluatingInv == ASSUME StepperInv, FoundEvaluating PROVE StepperInv'
<1>1. /\ call.on /\ ~eval.on /\ status = "Evaluating" /\ consumed' = consumed
      /\ call.bound \in Bounds
  BY DEF FoundEvaluating, Once, StepperInv, TypeOK
<1>2. CASE EvalMaxNothing(call.bound) /\ Continue(0)
  <2>1. ~LessThanBound(0, call.bound) /\ UNCHANGED pvmVars
    BY <1>2 DEF EvalMaxNothing
  <2>2. /\ call' \in [on : BOOLEAN, asked : Bounds, bound : Bounds, total : 0..USIZE_MAX]
        /\ result' \in [kind : {"None", "Running", "Exited"}, asked : Bounds,
                        total : 0..USIZE_MAX]
        /\ reported' = (reported + 0) % TICKS
        /\ CallAccount' /\ OvershootByOneAnswer' /\ RunsToTheBound'
    <3>1. 0 <= Steps(call.bound)
      BY <1>1, BoundFacts, PvmAssumption
    <3> QED BY <1>1, <1>2, <2>1, <3>1, ContinueFacts
  <2>3. reported' = reported
    <3>1. reported \in 0..(TICKS - 1)
      BY DEF StepperInv, TypeOK
    <3> QED BY <2>2, <3>1, PvmAssumption
  <2>4. TypeOK'
    BY <1>1, <2>1, <2>2, <2>3 DEF StepperInv, TypeOK, PvmTypeOK, pvmVars, inputVars
  <2>5. ArgsFromRequest' /\ TickCountsSteps' /\ InboxInOrder'
    BY <1>1, <2>1, <2>3 DEF StepperInv, ArgsFromRequest, TickCountsSteps, InboxInOrder,
           pvmVars, inputVars
  <2>6. EvalWithinCall'
    BY <1>1, <2>1 DEF EvalWithinCall, pvmVars
  <2> QED BY <2>2, <2>4, <2>5, <2>6 DEF StepperInv
<1>3. CASE EvalMaxStart(call.bound) /\ UNCHANGED <<call, result, reported>>
  <2>1. /\ LessThanBound(0, call.bound)
        /\ eval' = [on |-> TRUE, bound |-> call.bound, steps |-> 0]
        /\ UNCHANGED <<status, tick, inputVars, reveal_request, regs, exited,
                       call, result, reported>>
    BY <1>3 DEF EvalMaxStart
  <2>2. TypeOK'
    BY <1>1, <2>1, PvmAssumption DEF StepperInv, TypeOK, PvmTypeOK, inputVars
  <2>3. ArgsFromRequest' /\ TickCountsSteps' /\ InboxInOrder'
    BY <1>1, <2>1 DEF StepperInv, ArgsFromRequest, TickCountsSteps, InboxInOrder,
                      inputVars
  <2>4. EvalWithinCall'
    <3>1. call.asked.kind = call.bound.kind
      BY <1>1 DEF StepperInv, CallAccount
    <3>3. Steps(call.bound) \in 0..USIZE_MAX
      BY <1>1, BoundFacts
    <3>4. /\ eval'.bound = call.bound /\ eval'.steps = 0
          /\ LessThanBound(0, eval'.bound)
      BY <2>1
    <3> QED BY <1>1, <2>1, <3>1, <3>3, <3>4, PvmAssumption DEF EvalWithinCall, Steps,
                                                               LessThanBound
  <2>5. CallAccount' /\ OvershootByOneAnswer' /\ RunsToTheBound'
    BY <2>1 DEF StepperInv, CallAccount, OvershootByOneAnswer, RunsToTheBound,
                Steps, SaturatingSub
  <2> QED BY <2>2, <2>3, <2>4, <2>5 DEF StepperInv
<1> QED BY <1>2, <1>3 DEF FoundEvaluating

LEMMA EvaluateInv == ASSUME StepperInv, Evaluate PROVE StepperInv'
<1>1. PICK goesOn \in BOOLEAN :
         /\ ProgramStep(goesOn)
         /\ goesOn => eval.steps + 1 < MAX_RUN
         /\ eval' = [on |-> TRUE,
                     bound |-> IF goesOn THEN BoundSaturatingSub(eval.bound, 1)
                                         ELSE Included(0),
                     steps |-> eval.steps + 1]
  BY DEF Evaluate, EvalStep
<1>2. /\ eval.on /\ LessThanBound(0, eval.bound)
      /\ UNCHANGED <<tick, inputVars, consumed, call, result, reported>>
  BY DEF Evaluate, EvalStep
<1>3. /\ call.on /\ status = "Evaluating" /\ eval.steps < MAX_RUN
      /\ call.asked.kind # "Unbounded" =>
            /\ eval.bound.kind # "Unbounded"
            /\ eval.steps + Steps(eval.bound) <= Steps(call.bound)
  BY <1>2 DEF StepperInv, EvalWithinCall
<1>4. /\ status' \in Status
      /\ regs' \in {"program", "args", "answer"}
      /\ reveal_request' \in Requests \cup {"none"}
      /\ exited' \in BOOLEAN
      /\ (status' = "Evaluating") <=> (regs' # "args")
      /\ goesOn => status' = "Evaluating"
  BY <1>1, <1>3, ProgramStepFacts DEF StepperInv
<1>5. /\ eval.bound \in Bounds /\ eval.steps \in 0..MAX_RUN
      /\ call.bound \in Bounds
  BY DEF StepperInv, TypeOK, PvmTypeOK
<1> DEFINE left == IF goesOn THEN BoundSaturatingSub(eval.bound, 1) ELSE Included(0)
<1>6. /\ left \in Bounds
      /\ eval.bound.kind # "Unbounded" =>
            left.kind # "Unbounded" /\ Steps(left) <= SaturatingSub(Steps(eval.bound), 1)
      /\ LessThanBound(0, left) => goesOn
  <2>1. Steps(eval.bound) \in 0..USIZE_MAX
    BY <1>5, BoundFacts
  <2>2. CASE goesOn
    <3>1. /\ BoundSaturatingSub(eval.bound, 1) \in Bounds
          /\ BoundSaturatingSub(eval.bound, 1).kind = eval.bound.kind
          /\ eval.bound.kind # "Unbounded" =>
               Steps(BoundSaturatingSub(eval.bound,
                   1)) = SaturatingSub(Steps(eval.bound), 1)
      BY <1>5, BoundSubFacts
    <3>2. SaturatingSub(Steps(eval.bound), 1) <= SaturatingSub(Steps(eval.bound), 1)
      BY <2>1, PvmAssumption DEF SaturatingSub
    <3>3. left = BoundSaturatingSub(eval.bound, 1)
      BY <2>2
    <3> HIDE DEF left
    <3> QED BY <2>2, <3>1, <3>2, <3>3
  <2>3. CASE ~goesOn
    <3>1. 0 <= SaturatingSub(Steps(eval.bound), 1)
      BY <2>1, PvmAssumption DEF SaturatingSub
    <3>2. left = Included(0)
      BY <2>3
    <3> HIDE DEF left
    <3>3. /\ left \in Bounds /\ left.kind # "Unbounded" /\ Steps(left) = 0
          /\ ~LessThanBound(0, left)
      BY <3>2, ZeroBound
    <3> QED BY <3>1, <3>3
  <2> QED BY <2>2, <2>3
<1>7. eval' = [on |-> TRUE, bound |-> left, steps |-> eval.steps + 1]
  BY <1>1
<1> HIDE DEF left
<1>8. TypeOK'
  <2>1. eval.steps + 1 \in 0..MAX_RUN
    BY <1>3, <1>5, PvmAssumption
  <2> QED BY <1>2, <1>4, <1>6, <1>7, <2>1 DEF StepperInv, TypeOK, PvmTypeOK, inputVars
<1>9. ArgsFromRequest' /\ TickCountsSteps' /\ InboxInOrder'
  BY <1>2, <1>4 DEF StepperInv, ArgsFromRequest, TickCountsSteps, InboxInOrder, inputVars
<1>10. EvalWithinCall'
  <2>1. IF LessThanBound(0, left) THEN status' = "Evaluating" /\ eval.steps + 1 < MAX_RUN
                                  ELSE eval.steps + 1 >= 1
    BY <1>1, <1>4, <1>5, <1>6, PvmAssumption
  <2>2. ASSUME call.asked.kind # "Unbounded"
        PROVE  left.kind # "Unbounded" /\ eval.steps + 1 + Steps(left) <= Steps(call.bound)
    <3>1. /\ Steps(left) \in 0..USIZE_MAX /\ Steps(eval.bound) \in 0..USIZE_MAX
          /\ Steps(call.bound) \in 0..USIZE_MAX
          /\ Steps(eval.bound) > 0
          /\ Steps(left) <= SaturatingSub(Steps(eval.bound), 1)
          /\ eval.steps + Steps(eval.bound) <= Steps(call.bound)
      BY <1>2, <1>3, <1>5, <1>6, <2>2, BoundFacts
    <3>2. SaturatingSub(Steps(eval.bound), 1) = Steps(eval.bound) - 1
      BY <3>1, PvmAssumption DEF SaturatingSub
    <3> QED BY <1>3, <1>5, <1>6, <2>2, <3>1, <3>2, PvmAssumption
  <2>3. call' = call /\ eval'.on /\ eval'.bound = left /\ eval'.steps = eval.steps + 1
    BY <1>2, <1>7
  <2> QED BY <1>3, <2>1, <2>2, <2>3 DEF EvalWithinCall, Steps, LessThanBound
<1>11. CallAccount'
  <2>1. ASSUME call.asked.kind # "Unbounded"
        PROVE  call.total <= Steps(call.asked)
    <3>1. /\ Steps(call.bound) \in 0..USIZE_MAX
          /\ Steps(eval.bound) \in 0..USIZE_MAX
          /\ Steps(call.asked) \in 0..USIZE_MAX
          /\ call.total \in 0..USIZE_MAX
          /\ Steps(eval.bound) > 0
          /\ eval.steps + Steps(eval.bound) <= Steps(call.bound)
      BY <1>2, <1>3, <1>5, <2>1, BoundFacts DEF StepperInv, TypeOK
    <3>2. Steps(call.bound) = SaturatingSub(Steps(call.asked), call.total)
      BY <1>3, <2>1 DEF StepperInv, CallAccount
    <3> QED BY <1>5, <3>1, <3>2, PvmAssumption DEF SaturatingSub
  <2>2. /\ call' = call /\ call.asked \in Bounds /\ call.total \in 0..USIZE_MAX
        /\ Steps(call.asked) \in 0..USIZE_MAX
    BY <1>2, BoundFacts DEF StepperInv, TypeOK
  <2>3. call.asked.kind # "Unbounded" => ~(call.total > Steps(call.asked))
    BY <2>1, <2>2, PvmAssumption
  <2> QED BY <1>3, <2>2, <2>3 DEF StepperInv, CallAccount
<1>12. OvershootByOneAnswer' /\ RunsToTheBound'
  BY <1>2 DEF StepperInv, OvershootByOneAnswer, RunsToTheBound, Steps, SaturatingSub
<1> QED BY <1>8, <1>9, <1>10, <1>11, <1>12 DEF StepperInv

LEMMA EvaluateReturnInv == ASSUME StepperInv, EvaluateReturn PROVE StepperInv'
<1>1. /\ eval.on /\ ~LessThanBound(0, eval.bound)
      /\ AddTicks(eval.steps) /\ Continue(eval.steps)
      /\ eval' = NoEval
      /\ UNCHANGED <<status, inputVars, reveal_request, regs, exited, consumed>>
  BY DEF EvaluateReturn, EvalMaxReturn
<1>2. /\ call.on /\ eval.steps >= 1 /\ eval.steps \in Nat
      /\ call.bound \in Bounds /\ eval.bound \in Bounds
  BY <1>1, PvmAssumption DEF StepperInv, EvalWithinCall, TypeOK, PvmTypeOK
<1>3. call.bound.kind = "Unbounded" \/ eval.steps <= Steps(call.bound)
  <2>1. call.bound.kind = call.asked.kind
    BY <1>2 DEF StepperInv, CallAccount
  <2>2. call.asked.kind # "Unbounded" =>
          eval.steps + Steps(eval.bound) <= Steps(call.bound)
    BY <1>1 DEF StepperInv, EvalWithinCall
  <2>3. Steps(eval.bound) \in 0..USIZE_MAX /\ Steps(call.bound) \in 0..USIZE_MAX
    BY <1>2, BoundFacts
  <2> QED BY <1>2, <2>1, <2>2, <2>3, PvmAssumption
<1>4. /\ call' \in [on : BOOLEAN, asked : Bounds, bound : Bounds, total : 0..USIZE_MAX]
      /\ result' \in [kind : {"None", "Running", "Exited"}, asked : Bounds,
                      total : 0..USIZE_MAX]
      /\ reported' = (reported + eval.steps) % TICKS
      /\ CallAccount' /\ OvershootByOneAnswer' /\ RunsToTheBound'
  BY <1>1, <1>2, <1>3, ContinueFacts
<1>5. tick' \in 0..(TICKS - 1) /\ reported' \in 0..(TICKS - 1) /\ TickCountsSteps'
  BY <1>1, <1>2, <1>4, TickFacts
<1>6. NoEval \in [on : BOOLEAN, bound : Bounds, steps : 0..MAX_RUN] /\ ~NoEval.on
  BY ZeroBound, PvmAssumption DEF NoEval
<1>7. TypeOK'
  BY <1>1, <1>4, <1>5, <1>6 DEF StepperInv, TypeOK, PvmTypeOK, inputVars
<1>8. ArgsFromRequest' /\ InboxInOrder'
  BY <1>1 DEF StepperInv, ArgsFromRequest, InboxInOrder, inputVars
<1>9. EvalWithinCall'
  BY <1>1, <1>6 DEF EvalWithinCall
<1> QED BY <1>4, <1>5, <1>7, <1>8, <1>9 DEF StepperInv

(* An answer to a pending request, within the bound or one step past it.   *)
LEMMA AnswerFacts ==
    ASSUME StepperInv, Once, status # "Evaluating", status' = "Evaluating",
           regs' = "answer", AddTicks(1), Continue(1),
           UNCHANGED <<reveal_request, exited, eval>>,
           level' \in 0..(U32 - 1), message_counter' \in 0..(U32 - 1),
           level_is_set' \in BOOLEAN, consumed' \in 0..Len(Inbox), InboxInOrder'
    PROVE  StepperInv'
<1>1. call.on /\ ~eval.on
  BY DEF Once
<1>2. /\ call' \in [on : BOOLEAN, asked : Bounds, bound : Bounds, total : 0..USIZE_MAX]
      /\ result' \in [kind : {"None", "Running", "Exited"}, asked : Bounds,
                      total : 0..USIZE_MAX]
      /\ reported' = (reported + 1) % TICKS
      /\ CallAccount' /\ OvershootByOneAnswer' /\ RunsToTheBound'
  BY <1>1, ContinueFacts
<1>3. tick' \in 0..(TICKS - 1) /\ reported' \in 0..(TICKS - 1) /\ TickCountsSteps'
  BY <1>2, TickFacts
<1>4. TypeOK'
  BY <1>2, <1>3 DEF StepperInv, TypeOK, PvmTypeOK, Status
<1>5. ArgsFromRequest' /\ EvalWithinCall'
  BY <1>1 DEF ArgsFromRequest, EvalWithinCall
<1> QED BY <1>2, <1>3, <1>4, <1>5 DEF StepperInv

LEMMA FoundWaitingForInputInv ==
    ASSUME StepperInv, FoundWaitingForInput PROVE StepperInv'
<1>1. CASE consumed < Len(Inbox)
  <2> DEFINE msg == Inbox[consumed + 1]
  <2>1. /\ Once /\ status = "WaitingForInput"
        /\ consumed' = consumed + 1
        /\ ProvideInboxMessage(msg.level, msg.counter)
        /\ Continue(1) /\ UNCHANGED eval
    BY <1>1 DEF FoundWaitingForInput
  <2>2. /\ consumed \in 0..Len(Inbox) /\ Len(Inbox) \in Nat
        /\ Inbox \in Seq([level : 0..(U32 - 1), counter : 0..(U32 - 1)])
    BY StepperAssumption DEF StepperInv, TypeOK
  <2>3. consumed + 1 \in 1..Len(Inbox) /\ consumed + 1 > 0
    BY <1>1, <2>2
  <2> HIDE DEF msg
  <2>4. msg \in [level : 0..(U32 - 1), counter : 0..(U32 - 1)]
    <3> DEFINE S == [level : 0..(U32 - 1), counter : 0..(U32 - 1)]
    <3>1. Inbox \in Seq(S)
      BY <2>2
    <3> HIDE DEF S
    <3>2. msg \in S
      BY <2>3, <3>1 DEF msg
    <3> QED BY <3>2 DEF S
  <2>5. /\ status' = "Evaluating" /\ regs' = "answer" /\ AddTicks(1)
        /\ message_counter' = msg.counter /\ level_is_set' = TRUE
        /\ level' = msg.level
        /\ UNCHANGED <<reveal_request, exited>>
    BY <2>1 DEF ProvideInboxMessage
  <2>6. InboxInOrder'
    BY <2>1, <2>3, <2>5 DEF InboxInOrder, msg
  <2>7. consumed' \in 0..Len(Inbox)
    BY <2>1, <2>2, <2>3
  <2> QED BY <2>1, <2>4, <2>5, <2>6, <2>7, AnswerFacts
<1>2. CASE ~(consumed < Len(Inbox))
  BY <1>2, ReturnExitedInv DEF FoundWaitingForInput, Once
<1> QED BY <1>1, <1>2

LEMMA FoundWaitingForRevealInv ==
    ASSUME StepperInv, FoundWaitingForReveal PROVE StepperInv'
<1>1. /\ Once /\ status = "WaitingForReveal" /\ status' = "Evaluating"
      /\ regs' = "answer" /\ AddTicks(1) /\ Continue(1)
      /\ UNCHANGED <<inputVars, reveal_request, exited, consumed, eval>>
  BY DEF FoundWaitingForReveal, ProvideRevealResponse, ProvideRevealErrorResponse
<1>2. /\ level' \in 0..(U32 - 1) /\ message_counter' \in 0..(U32 - 1)
      /\ level_is_set' \in BOOLEAN /\ consumed' \in 0..Len(Inbox)
  BY <1>1 DEF inputVars, StepperInv, TypeOK, PvmTypeOK
<1>3. InboxInOrder'
  BY <1>1 DEF StepperInv, InboxInOrder, inputVars
<1> QED BY <1>1, <1>2, <1>3, AnswerFacts

LEMMA RebindInv == ASSUME StepperInv, RebindViaSerde PROVE StepperInv'
<1>1. /\ exited' = FALSE
      /\ UNCHANGED <<status, tick, inputVars, reveal_request, regs, eval,
                     consumed, call, result, reported>>
  BY DEF RebindViaSerde, Rebind
<1>2. TypeOK'
  BY <1>1 DEF StepperInv, TypeOK, PvmTypeOK, inputVars
<1>3. ArgsFromRequest' /\ TickCountsSteps' /\ InboxInOrder'
  BY <1>1 DEF StepperInv, ArgsFromRequest, TickCountsSteps, InboxInOrder, inputVars
<1>4. EvalWithinCall'
  BY <1>1 DEF StepperInv, EvalWithinCall, Steps, LessThanBound, SaturatingSub
<1>5. CallAccount' /\ OvershootByOneAnswer' /\ RunsToTheBound'
  BY <1>1 DEF StepperInv, CallAccount, OvershootByOneAnswer, RunsToTheBound,
              Steps, SaturatingSub
<1> QED BY <1>2, <1>3, <1>4, <1>5 DEF StepperInv

LEMMA StutterInv == ASSUME StepperInv, UNCHANGED vars PROVE StepperInv'
<1>1. UNCHANGED <<status, tick, message_counter, level, level_is_set, reveal_request,
                  regs, exited, eval, consumed, call, result, reported>>
  BY DEF vars, pvmVars, inputVars
<1>2. TypeOK'
  BY <1>1 DEF StepperInv, TypeOK, PvmTypeOK
<1>3. ArgsFromRequest' /\ TickCountsSteps' /\ InboxInOrder'
  BY <1>1 DEF StepperInv, ArgsFromRequest, TickCountsSteps, InboxInOrder
<1>4. EvalWithinCall'
  BY <1>1 DEF StepperInv, EvalWithinCall, Steps, LessThanBound, SaturatingSub
<1>5. CallAccount' /\ OvershootByOneAnswer' /\ RunsToTheBound'
  BY <1>1 DEF StepperInv, CallAccount, OvershootByOneAnswer, RunsToTheBound,
              Steps, SaturatingSub
<1> QED BY <1>2, <1>3, <1>4, <1>5 DEF StepperInv

-----------------------------------------------------------------------------
(* The stepper keeps its invariant, whatever the program does. *)
THEOREM StepperInvariant == Spec => []StepperInv
<1>1. Init => StepperInv
  BY InitInv
<1>2. StepperInv /\ [Next]_vars => StepperInv'
  <2> SUFFICES ASSUME StepperInv, [Next]_vars PROVE StepperInv'
    OBVIOUS
  <2>1. CASE \E b \in CallBounds : StepMax(b)
    BY <2>1, StepMaxInv
  <2>2. CASE FoundExited
    BY <2>2, FoundExitedInv
  <2>3. CASE FoundEvaluating
    BY <2>3, FoundEvaluatingInv
  <2>4. CASE Evaluate
    BY <2>4, EvaluateInv
  <2>5. CASE EvaluateReturn
    BY <2>5, EvaluateReturnInv
  <2>6. CASE FoundWaitingForInput
    BY <2>6, FoundWaitingForInputInv
  <2>7. CASE FoundWaitingForReveal
    BY <2>7, FoundWaitingForRevealInv
  <2>8. CASE RebindViaSerde
    BY <2>8, RebindInv
  <2>9. CASE UNCHANGED vars
    BY <2>9, StutterInv
  <2> QED BY <2>1, <2>2, <2>3, <2>4, <2>5, <2>6, <2>7, <2>8, <2>9 DEF Next
<1> QED BY <1>1, <1>2, PTL DEF Spec

(* The state of the stepper and of the call in progress is well typed. *)
THEOREM TypeCorrect == Spec => []TypeOK
<1>1. StepperInv => TypeOK
  BY DEF StepperInv
<1> QED BY <1>1, StepperInvariant, PTL

(* provide_input and provide_reveal_response find the arguments of the     *)
(* request in the registers: the stepper never runs the program between    *)
(* its request and the answer.                                             *)
THEOREM AnswersFindTheirArguments == Spec => []ArgsFromRequest
<1>1. StepperInv => ArgsFromRequest
  BY DEF StepperInv
<1> QED BY <1>1, StepperInvariant, PTL

(* The tick of the state is the number of steps reported to the callers.   *)
THEOREM TicksAreSteps == Spec => []TickCountsSteps
<1>1. StepperInv => TickCountsSteps
  BY DEF StepperInv
<1> QED BY <1>1, StepperInvariant, PTL

(* Messages are provided in order, none skipped and none twice. *)
THEOREM MessagesInOrder == Spec => []InboxInOrder
<1>1. StepperInv => InboxInOrder
  BY DEF StepperInv
<1> QED BY <1>1, StepperInvariant, PTL

(* step_max exceeds its bound by at most one answer, for bounds up to      *)
(* usize::MAX, where the count of steps saturates, and does not return     *)
(* Running with steps left.                                                *)
THEOREM StepMaxKeepsBound == Spec => []BoundKept
<1>1. StepperInv => BoundKept
  BY DEF StepperInv, BoundKept
<1> QED BY <1>1, StepperInvariant, PTL

-----------------------------------------------------------------------------
(* NodePvm *)

(* An evaluation that may still take a step is of a program that is not    *)
(* waiting for a reveal: eval_max answers a pending reveal before it       *)
(* starts, and a reveal ends the evaluation it happens in.                 *)
EvalNotRevealing ==
    (n_eval.on /\ Node!LessThanBound(0, n_eval.bound)) => n_status # "WaitingForReveal"

NodeInv == Node!NodeViewExact /\ EvalNotRevealing

(* handle_tezos_reveal is the only step of a program that makes the status *)
(* WaitingForReveal; it leaves the arguments in place and ends evaluation. *)
LEMMA NodeStepFacts ==
    ASSUME NEW goesOn \in BOOLEAN, Node!ProgramStep(goesOn), n_status # "WaitingForReveal"
    PROVE  Node!RevealArgsIntact' /\ (goesOn => n_status' # "WaitingForReveal")
<1>1. CASE Node!Reveal(goesOn)
  BY <1>1 DEF Node!Reveal, Node!RevealArgsIntact
<1>2. CASE Node!InboxNext(goesOn)
  BY <1>2 DEF Node!InboxNext, Node!RevealArgsIntact
<1>3. CASE \/ Node!Instruction(goesOn) \/ Node!LinuxCall(goesOn)
           \/ Node!Exit(goesOn) \/ Node!TezosCall(goesOn)
  BY <1>3 DEF Node!Instruction, Node!LinuxCall, Node!Exit, Node!TezosCall,
              Node!RevealArgsIntact
<1> QED BY <1>1, <1>2, <1>3 DEF Node!ProgramStep

(* Adding the same steps to the PVM's tick and to the node's account of it *)
(* keeps them equal.                                                       *)
LEMMA CountedAlike ==
    ASSUME NEW n, n_tick = told, Node!AddTicks(n), Node!Tell(n)
    PROVE  n_tick' = told'
BY DEF Node!AddTicks, Node!Tell

(* An exhausted bound allows no step. *)
LEMMA NothingLeft == ~Node!LessThanBound(0, Node!Included(0))
BY DEF Node!LessThanBound, Node!Included, Node!SaturatingSub

LEMMA NodeInvInit == Node!Init => NodeInv
BY DEF Node!Init, Node!PvmInit, Node!NoEval, NodeInv, Node!NodeViewExact,
       Node!RevealArgsIntact, EvalNotRevealing

LEMMA NodeInvNext == Node!NodeConstants /\ NodeInv /\ [Node!Next]_n_vars => NodeInv'
<1> SUFFICES ASSUME Node!NodeConstants, NodeInv, [Node!Next]_n_vars
             PROVE  NodeInv'
  OBVIOUS
<1> USE DEF NodeInv
<1> DEFINE Described == /\ n_level_is_set <=> accepted # Node!NoMessage
                        /\ n_level_is_set => /\ n_level = accepted.level
                                           /\ n_message_counter = accepted.counter % U32
<1>v. /\ n_tick = told /\ Described /\ Node!RevealArgsIntact
      /\ (n_tick' = told' /\ Described' /\ Node!RevealArgsIntact') => Node!NodeViewExact'
  BY DEF Node!NodeViewExact
<1>d. (UNCHANGED Node!inputVars /\ UNCHANGED accepted) => Described'
  BY <1>v DEF Node!inputVars
<1>r. n_status' = "Evaluating" => (Node!RevealArgsIntact' /\ EvalNotRevealing')
  BY DEF Node!RevealArgsIntact, EvalNotRevealing
<1> HIDE DEF Described
<1>1. CASE Node!ComputeStep
  <2>1. Node!Tell(1) /\ UNCHANGED accepted /\ ~n_eval.on /\ UNCHANGED n_eval
    BY <1>1 DEF Node!ComputeStep, Node!EvalOne
  <2>2. CASE n_status = "WaitingForReveal"
    <3>1. Node!ProvideRevealErrorResponse
      BY <1>1, <2>2 DEF Node!ComputeStep, Node!EvalOne
    <3> QED BY <3>1, <2>1, <1>v, <1>d, <1>r,
        CountedAlike DEF Node!ProvideRevealErrorResponse
  <2>3. CASE n_status # "WaitingForReveal"
    <3>1. /\ \E goesOn \in BOOLEAN : Node!ProgramStep(goesOn)
          /\ Node!AddTicks(1) /\ UNCHANGED Node!inputVars
      BY <1>1, <2>3 DEF Node!ComputeStep, Node!EvalOne
    <3>2. Node!RevealArgsIntact'
      BY <3>1, <2>3, NodeStepFacts
    <3>3. EvalNotRevealing'
      BY <2>1 DEF EvalNotRevealing
    <3> QED BY <3>1, <3>2, <3>3, <2>1, <1>v, <1>d, CountedAlike
  <2> QED BY <2>2, <2>3
<1>2. ASSUME NEW max \in MaxSteps, Node!ComputeStepMany(max)
      PROVE  NodeInv'
  <2>1. CASE Node!EvalMaxNothing(Node!Included(max)) /\ UNCHANGED told
    <3>1. UNCHANGED Node!vars
      BY <1>2, <2>1 DEF Node!ComputeStepMany, Node!EvalMaxNothing, Node!vars, Node!nodeVars
    <3> QED BY <3>1, <1>v, <1>d DEF Node!vars, Node!pvmVars, Node!nodeVars,
                                    Node!inputVars, Node!RevealArgsIntact,
                                    EvalNotRevealing
  <2>2. CASE Node!EvalMaxRevealError(Node!Included(max)) /\ Node!Tell(1)
    <3>1. Node!ProvideRevealErrorResponse /\ UNCHANGED accepted
      BY <1>2, <2>2 DEF Node!ComputeStepMany, Node!EvalMaxRevealError
    <3> QED BY <3>1, <2>2, <1>v, <1>d, <1>r,
        CountedAlike DEF Node!ProvideRevealErrorResponse
  <2>3. CASE Node!EvalMaxStart(Node!Included(max)) /\ UNCHANGED told
    <3>1. /\ UNCHANGED <<n_status, n_tick, told, accepted, Node!inputVars,
                       n_reveal_request, n_regs>>
          /\ n_status # "WaitingForReveal"
      BY <1>2, <2>3 DEF Node!ComputeStepMany, Node!EvalMaxStart
    <3> QED BY <3>1, <1>v, <1>d DEF Node!RevealArgsIntact, EvalNotRevealing
  <2> QED BY <1>2, <2>1, <2>2, <2>3 DEF Node!ComputeStepMany
<1>3. CASE Node!ComputeStepManyRun
  <2>1. /\ n_eval.on /\ Node!LessThanBound(0, n_eval.bound)
        /\ UNCHANGED <<n_tick, told, accepted, Node!inputVars>>
    BY <1>3 DEF Node!ComputeStepManyRun, Node!EvalStep, Node!nodeVars
  <2>2. n_status # "WaitingForReveal"
    BY <2>1 DEF EvalNotRevealing
  <2>3. PICK goesOn \in BOOLEAN :
          /\ Node!ProgramStep(goesOn)
          /\ ~goesOn => n_eval'.bound = Node!Included(0)
    BY <1>3 DEF Node!ComputeStepManyRun, Node!EvalStep
  <2>4. Node!RevealArgsIntact' /\ (goesOn => n_status' # "WaitingForReveal")
    BY <2>2, <2>3, NodeStepFacts
  <2>5. EvalNotRevealing'
    BY <2>3, <2>4, NothingLeft DEF EvalNotRevealing, Node!LessThanBound
  <2> QED BY <2>1, <2>4, <2>5, <1>v, <1>d
<1>4. CASE Node!ComputeStepManyReturn
  <2>1. /\ Node!AddTicks(n_eval.steps) /\ Node!Tell(n_eval.steps)
        /\ UNCHANGED <<accepted, n_status, Node!inputVars, n_reveal_request, n_regs>>
        /\ n_eval' = Node!NoEval
    BY <1>4 DEF Node!ComputeStepManyReturn, Node!EvalMaxReturn
  <2>2. Node!RevealArgsIntact' /\ EvalNotRevealing'
    BY <2>1, <1>v DEF Node!RevealArgsIntact, EvalNotRevealing, Node!NoEval
  <2> QED BY <2>1, <2>2, <1>v, <1>d, CountedAlike
<1>5. ASSUME NEW lvl \in Levels, NEW c \in Counters, Node!SetInputMessage(lvl, c)
      PROVE  NodeInv'
  <2>1. /\ Node!AddTicks(1) /\ Node!Tell(1) /\ n_status' = "Evaluating"
        /\ n_level_is_set' = TRUE /\ n_level' = lvl /\ n_message_counter' = c % U32
        /\ accepted' = [level |-> lvl, counter |-> c]
    BY <1>5 DEF Node!SetInputMessage, Node!ProvideInboxMessage
  <2>2. c # -1
    BY DEF Node!NodeConstants
  <2>3. Described'
    BY <2>1, <2>2 DEF Described, Node!NoMessage
  <2> QED BY <2>1, <2>3, <1>v, <1>r, CountedAlike
<1>6. CASE Node!SetInputReveal
  BY <1>6, <1>v, <1>d, <1>r, CountedAlike DEF Node!SetInputReveal,
                                              Node!ProvideRevealResponse
<1>7. CASE Node!InsertFailure
  BY <1>7, <1>v, <1>d DEF Node!InsertFailure, Node!pvmVars, Node!inputVars,
                          Node!RevealArgsIntact, EvalNotRevealing
<1>8. CASE Node!CommitAndCheckout
  BY <1>8, <1>v, <1>d DEF Node!CommitAndCheckout, Node!Rebind, Node!nodeVars,
                          Node!inputVars, Node!RevealArgsIntact,
                          EvalNotRevealing
<1>9. CASE UNCHANGED n_vars
  BY <1>9, <1>v, <1>d DEF n_vars, Node!inputVars, Node!RevealArgsIntact, EvalNotRevealing
<1> QED BY <1>1, <1>2, <1>3, <1>4, <1>5, <1>6, <1>7, <1>8, <1>9 DEF Node!Next

(* Whatever the node calls and in whatever order, the tick is the number   *)
(* of steps its calls told it, level and counter are those of the last     *)
(* message set_input accepted, and the arguments of a pending reveal are   *)
(* intact (node_pvm.rs over pvm/common.rs).                                *)
THEOREM NodeViewIsExact == MCSpec => []NodeViewExact
<1>1. MCInit => NodeInv
  BY NodeInvInit DEF MCInit
<1>2. NodeInv /\ [MCNext]_<<user, vars, n_vars>> => NodeInv'
  BY MCNodeConstants, NodeInvNext DEF MCNext
<1>3. NodeInv => NodeViewExact
  BY DEF NodeInv, NodeViewExact
<1> QED BY <1>1, <1>2, <1>3, PTL DEF MCSpec
=============================================================================
