----------------------------- MODULE PvmStepper -----------------------------
(***************************************************************************)
(* PvmStepper (stepper/pvm.rs): drives a PVM with a recorded inbox and a   *)
(* map of reveal responses, as the sandbox and the tests do.  One call of  *)
(* step_max is a sequence of calls of step_max_once.                       *)
(***************************************************************************)
EXTENDS Pvm, Sequences

CONSTANTS
    Inbox,        \* the messages, in order: [level, counter]
    Available,    \* the reveal requests that have a response
    CallBounds    \* bounds that step_max is called with

ASSUME StepperAssumption ==
    /\ Inbox \in Seq([level : 0..(U32 - 1), counter : 0..(U32 - 1)])
    /\ Available \subseteq Requests
    /\ CallBounds \subseteq Bounds

VARIABLES
    consumed,     \* messages taken from the inbox
    call,         \* the call of step_max in progress
    result,       \* what the last call returned
    reported      \* steps that all calls reported, modulo TICKS

vars == <<pvmVars, consumed, call, result, reported>>

Idle == [on |-> FALSE, asked |-> Included(0), bound |-> Included(0), total |-> 0]

Init ==
    /\ PvmInit
    /\ consumed = 0
    /\ call = Idle
    /\ result = [kind |-> "None", asked |-> Included(0), total |-> 0]
    /\ reported = 0

StepMax(b) ==
    /\ ~call.on
    /\ call' = [on |-> TRUE, asked |-> b, bound |-> b, total |-> 0]
    /\ UNCHANGED <<pvmVars, consumed, result, reported>>

SaturatingAdd(x, y) == IF x + y > USIZE_MAX THEN USIZE_MAX ELSE x + y

(* step_max ends with Running or Exited. *)
Return(kind) ==
    /\ call' = Idle
    /\ result' = [kind |-> kind, asked |-> call.asked, total |-> call.total]

(* Mutant: the bound is not reduced *)
ContinueSameBound(steps) ==
    /\ reported' = (reported + steps) % TICKS
    /\ IF steps < 1
       THEN Return("Running")
       ELSE /\ call' = [call EXCEPT !.total = SaturatingAdd(@, steps)]
            /\ UNCHANGED result

(* step_max_once reported Running{steps}: go on unless it made no progress. *)
Continue(steps) ==
    /\ reported' = (reported + steps) % TICKS
    /\ IF steps < 1
       THEN Return("Running")
       ELSE /\ call' = [call EXCEPT !.total = SaturatingAdd(@, steps),
                                    !.bound = BoundSaturatingSub(@, steps)]
            /\ UNCHANGED result

(* step_max_once, by what it finds. *)
Once == call.on /\ ~eval.on

FoundExited ==
    /\ Once
    /\ exited
    /\ Return("Exited")
    /\ UNCHANGED <<pvmVars, consumed, reported>>

FoundEvaluating ==
    /\ Once
    /\ ~exited
    /\ status = "Evaluating"
    /\ \/ EvalMaxNothing(call.bound) /\ Continue(0)
       \/ EvalMaxStart(call.bound) /\ UNCHANGED <<call, result, reported>>
    /\ UNCHANGED consumed

Evaluate == EvalStep /\ UNCHANGED <<consumed, call, result, reported>>

EvaluateReturn ==
    /\ EvalMaxReturn
    /\ Continue(eval.steps)
    /\ UNCHANGED consumed

FoundWaitingForInput ==
    /\ Once
    /\ ~exited
    /\ status = "WaitingForInput"
    /\ IF consumed < Len(Inbox)
       THEN /\ consumed' = consumed + 1
            /\ ProvideInboxMessage(Inbox[consumed + 1].level,
                                   Inbox[consumed + 1].counter)
            /\ Continue(1)
            /\ UNCHANGED eval
       ELSE /\ Return("Exited")
            /\ UNCHANGED <<pvmVars, consumed, reported>>

FoundWaitingForReveal ==
    /\ Once
    /\ ~exited
    /\ status = "WaitingForReveal"
    /\ IF reveal_request \in Available
       THEN ProvideRevealResponse
       ELSE ProvideRevealErrorResponse
    /\ Continue(1)
    /\ UNCHANGED <<consumed, eval>>

(* rebind_via_serde, between calls *)
RebindViaSerde ==
    /\ ~call.on
    /\ Rebind
    /\ UNCHANGED <<consumed, call, result, reported>>

Next ==
    \/ \E b \in CallBounds : StepMax(b)
    \/ FoundExited
    \/ FoundEvaluating
    \/ Evaluate
    \/ EvaluateReturn
    \/ FoundWaitingForInput
    \/ FoundWaitingForReveal
    \/ RebindViaSerde

(* A call of step_max is sequential code: once made, it keeps running. *)
InCall ==
    \/ FoundExited
    \/ FoundEvaluating
    \/ Evaluate
    \/ EvaluateReturn
    \/ FoundWaitingForInput
    \/ FoundWaitingForReveal

Spec == Init /\ [][Next]_vars
FairSpec == Spec /\ WF_vars(InCall)

-----------------------------------------------------------------------------
TypeOK ==
    /\ PvmTypeOK
    /\ consumed \in 0..Len(Inbox)
    /\ call \in [on : BOOLEAN, asked : Bounds, bound : Bounds,
                 total : 0..USIZE_MAX]
    /\ result \in [kind : {"None", "Running", "Exited"}, asked : Bounds,
                   total : 0..USIZE_MAX]
    /\ reported \in 0..(TICKS - 1)

(* Every step that step_max reports to its caller is one tick of the state *)
(* and the other way round, through evaluation, input, reveals, error      *)
(* responses and handled system calls: a proof for tick n is a proof for   *)
(* the n-th step.                                                          *)
TickCountsSteps == tick = reported

(* The state names the last message that was taken from the inbox, and     *)
(* only then a level at all: no message is skipped, or given twice.        *)
InboxInOrder ==
    /\ level_is_set <=> consumed > 0
    /\ level_is_set => /\ level = Inbox[consumed].level
                       /\ message_counter = Inbox[consumed].counter

Steps(b) == IF b.kind = "Excluded" THEN SaturatingSub(b.n, 1) ELSE b.n

(* A call may exceed its bound by one step: with the bound used up,        *)
(* step_max_once still answers a pending request.                          *)
OvershootByOneAnswer ==
    result.asked.kind # "Unbounded" => result.total <= Steps(result.asked) + 1

(* step_max stops early only when the program has exited or the inbox is   *)
(* drained; an unsupported system call, an input or a reveal on the way    *)
(* does not make it return with steps left.                                *)
RunsToTheBound ==
    result.kind = "Running" => result.total >= Steps(result.asked)

(* step_max keeps its bound from both sides: it returns Running with no    *)
(* step left, and at most one answer beyond.                               *)
BoundKept == OvershootByOneAnswer /\ RunsToTheBound

(* The running evaluation stays within what the call has left, and stops   *)
(* only after a step.                                                      *)
EvalWithinCall ==
    eval.on =>
      /\ call.on
      /\ IF LessThanBound(0, eval.bound)
         THEN status = "Evaluating" /\ eval.steps < MAX_RUN
         ELSE eval.steps >= 1
      /\ call.asked.kind # "Unbounded" =>
            /\ eval.bound.kind # "Unbounded"
            /\ eval.steps + Steps(eval.bound) <= Steps(call.bound)

(* What a call has left is what it was asked less what it has done; once   *)
(* it has done more, nothing is pending any more.                          *)
CallAccount ==
    call.on =>
      /\ call.bound.kind = call.asked.kind
      /\ call.asked.kind # "Unbounded" =>
            /\ Steps(call.bound) = SaturatingSub(Steps(call.asked), call.total)
            /\ call.total <= Steps(call.asked) + 1
            /\ call.total > Steps(call.asked) => status = "Evaluating"

StepperInv ==
    /\ TypeOK
    /\ ArgsFromRequest
    /\ TickCountsSteps
    /\ InboxInOrder
    /\ EvalWithinCall
    /\ CallAccount
    /\ OvershootByOneAnswer
    /\ RunsToTheBound

(* A call with a finite bound returns: each round of the loop takes a step *)
(* or is the last.                                                         *)
StepMaxReturns ==
    (call.on /\ call.asked.kind # "Unbounded") ~> ~call.on
=============================================================================
