--------------------------------- MODULE Pvm ----------------------------------
(***************************************************************************)
(* The PVM (pvm/common.rs, pvm/tezos.rs): the rollup's machine together    *)
(* with the status that tells the outside whether it evaluates or waits    *)
(* for an inbox message or a reveal, the tick counter and the level and    *)
(* counter of the last message.                                            *)
(*                                                                         *)
(* The program is any sequence of instructions and system calls.  Its      *)
(* argument registers are abstracted to what they hold: "args", the        *)
(* arguments of the request being waited for, exactly as the program       *)
(* passed them; "answer", what a system call returned; or "program", what  *)
(* other instructions computed.  provide_input and provide_reveal_response *)
(* read the arguments of the request from them when the answer arrives.    *)
(*                                                                         *)
(* This module holds the operations; PvmStepper and NodePvm call them.     *)
(***************************************************************************)
EXTENDS Integers

CONSTANTS
    TICKS,        \* number of values of the tick counter (2^64)
    U32,          \* number of values of a u32 (2^32)
    USIZE_MAX,    \* largest usize (2^64 - 1)
    Requests,     \* reveal requests a program can make
    MAX_RUN       \* no program of the model runs longer without stopping

ASSUME PvmAssumption ==
    /\ TICKS \in Nat \ {0}
    /\ U32 \in Nat \ {0}
    /\ USIZE_MAX \in Nat
    /\ MAX_RUN \in Nat \ {0}
    /\ "none" \notin Requests

VARIABLES
    status, tick, message_counter, level, level_is_set,
    reveal_request,  \* the request stored in the state
    regs,            \* what the argument registers hold
    exited,          \* SupervisorState::exited, which is not saved
    eval             \* the call of eval_max in progress

inputVars == <<message_counter, level, level_is_set>>
pvmVars == <<status, tick, inputVars, reveal_request, regs, exited, eval>>

Status == {"Evaluating", "WaitingForInput", "WaitingForReveal"}

(* Bound<usize> and range_utils.rs *)
Bounds == [kind : {"Included", "Excluded", "Unbounded"}, n : 0..USIZE_MAX]
Included(n) == [kind |-> "Included", n |-> n]

SaturatingSub(x, y) == IF x > y THEN x - y ELSE 0

BoundSaturatingSub(b, shift) ==
    IF b.kind = "Unbounded" THEN b ELSE [b EXCEPT !.n = SaturatingSub(@, shift)]

LessThanBound(num, b) ==
    \/ b.kind = "Unbounded"
    \/ b.kind = "Included" /\ num < b.n
    \/ b.kind = "Excluded" /\ num < SaturatingSub(b.n, 1)

NoEval == [on |-> FALSE, bound |-> Included(0), steps |-> 0]

PvmInit ==
    /\ status = "Evaluating"
    /\ tick = 0
    /\ message_counter = 0
    /\ level = 0
    /\ level_is_set = FALSE
    /\ reveal_request = "none"
    /\ regs = "program"
    /\ exited = FALSE
    /\ eval = NoEval

AddTicks(n) == tick' = (tick + n) % TICKS

-----------------------------------------------------------------------------
(* What one step of the program does.  goesOn tells whether evaluation may *)
(* continue, the answer of handle_system_call.                             *)

(* An instruction retires, or traps within the machine. *)
Instruction(goesOn) ==
    /\ goesOn
    /\ regs' = "program"
    /\ UNCHANGED <<status, reveal_request, exited>>

(* A Linux system call.  An unknown or unsupported one stops evaluation.   *)
LinuxCall(goesOn) ==
    /\ regs' = "answer"
    /\ UNCHANGED <<status, reveal_request, exited>>

Exit(goesOn) ==
    /\ ~goesOn
    /\ exited' = TRUE
    /\ regs' = "answer"
    /\ UNCHANGED <<status, reveal_request>>

(* handle_tezos for the SBI calls that are answered at once: the           *)
(* signature and hash functions, unknown functions, and a reveal whose     *)
(* request is not in readable memory.                                      *)
TezosCall(goesOn) ==
    /\ goesOn = (status = "Evaluating")
    /\ regs' = "answer"
    /\ UNCHANGED <<status, reveal_request, exited>>

(* handle_tezos_inbox_next *)
InboxNext(goesOn) ==
    /\ ~goesOn
    /\ status' = "WaitingForInput"
    /\ regs' = "args"
    /\ UNCHANGED <<reveal_request, exited>>

(* handle_tezos_reveal *)
Reveal(goesOn) ==
    /\ ~goesOn
    /\ reveal_request' \in Requests
    /\ status' = "WaitingForReveal"
    /\ regs' = "args"
    /\ UNCHANGED exited

ProgramStep(goesOn) ==
    \/ Instruction(goesOn)
    \/ LinuxCall(goesOn)
    \/ Exit(goesOn)
    \/ TezosCall(goesOn)
    \/ InboxNext(goesOn)
    \/ Reveal(goesOn)

-----------------------------------------------------------------------------
(* Mutant: the error response is not counted as a step *)
ProvideRevealErrorResponseUncounted ==
    /\ status' = "Evaluating"
    /\ regs' = "answer"
    /\ UNCHANGED <<tick, inputVars, reveal_request, exited>>

(* provide_reveal_error_response: it does not look at the status. *)
ProvideRevealErrorResponse ==
    /\ status' = "Evaluating"
    /\ regs' = "answer"
    /\ AddTicks(1)
    /\ UNCHANGED <<inputVars, reveal_request, exited>>

(* Mutant: the program runs on while a reveal is pending *)
EvalOneWithoutRevealCheck ==
    /\ \E goesOn \in BOOLEAN : ProgramStep(goesOn)
    /\ AddTicks(1)
    /\ UNCHANGED <<inputVars, eval>>

(* eval_one: a pending reveal request is answered with an error.  Nothing  *)
(* keeps the program from running while it waits for input.                *)
EvalOne ==
    /\ IF status = "WaitingForReveal"
       THEN ProvideRevealErrorResponse
       ELSE /\ \E goesOn \in BOOLEAN : ProgramStep(goesOn)
            /\ AddTicks(1)
            /\ UNCHANGED inputVars
    /\ UNCHANGED eval

(* eval_max(b) returns at once when b leaves no step, and when it has      *)
(* answered a pending reveal request with an error; otherwise it starts to *)
(* run the program.                                                        *)
EvalMaxNothing(b) ==
    /\ ~LessThanBound(0, b)
    /\ UNCHANGED pvmVars

EvalMaxRevealError(b) ==
    /\ LessThanBound(0, b)
    /\ status = "WaitingForReveal"
    /\ ProvideRevealErrorResponse
    /\ UNCHANGED eval

EvalMaxStart(b) ==
    /\ LessThanBound(0, b)
    /\ status # "WaitingForReveal"
    /\ eval' = [on |-> TRUE, bound |-> b, steps |-> 0]
    /\ UNCHANGED <<status, tick, inputVars, reveal_request, regs, exited>>

(* step_max_handle, one step of the program: a system call handled by the  *)
(* environment counts as a step, and ends the loop if the handler says so  *)
(* (bound 0).                                                              *)
EvalStep ==
    /\ eval.on
    /\ LessThanBound(0, eval.bound)
    /\ \E goesOn \in BOOLEAN :
          /\ ProgramStep(goesOn)
          /\ goesOn => eval.steps + 1 < MAX_RUN
          /\ eval' = [on |-> TRUE,
                      bound |-> IF goesOn THEN BoundSaturatingSub(eval.bound, 1)
                                          ELSE Included(0),
                      steps |-> eval.steps + 1]
    /\ UNCHANGED <<tick, inputVars>>

EvalMaxReturn ==
    /\ eval.on
    /\ ~LessThanBound(0, eval.bound)
    /\ AddTicks(eval.steps)
    /\ eval' = NoEval
    /\ UNCHANGED <<status, inputVars, reveal_request, regs, exited>>

(* Mutant: the level is set only once *)
ProvideInboxMessageSameLevel(lvl, counter) ==
    /\ status = "WaitingForInput"
    /\ status' = "Evaluating"
    /\ regs' = "answer"
    /\ AddTicks(1)
    /\ message_counter' = counter
    /\ level_is_set' = TRUE
    /\ level' = IF level_is_set THEN level ELSE lvl
    /\ UNCHANGED <<reveal_request, exited>>

(* provide_inbox_message, which does nothing unless the PVM waits for      *)
(* input.  The writes of payload, level and counter to memory may fault:   *)
(* a0 is then an error, and the rest happens all the same.                 *)
ProvideInboxMessage(lvl, counter) ==
    /\ status = "WaitingForInput"
    /\ status' = "Evaluating"
    /\ regs' = "answer"
    /\ AddTicks(1)
    /\ message_counter' = counter
    /\ level_is_set' = TRUE
    /\ level' = lvl
    /\ UNCHANGED <<reveal_request, exited>>

(* provide_reveal_response, which does nothing unless the PVM waits for a  *)
(* reveal.                                                                 *)
ProvideRevealResponse ==
    /\ status = "WaitingForReveal"
    /\ status' = "Evaluating"
    /\ regs' = "answer"
    /\ AddTicks(1)
    /\ UNCHANGED <<inputVars, reveal_request, exited>>

(* The state is saved and bound again: exited is not part of it. *)
Rebind ==
    /\ exited' = FALSE
    /\ UNCHANGED <<status, tick, inputVars, reveal_request, regs, eval>>

-----------------------------------------------------------------------------
PvmTypeOK ==
    /\ status \in Status
    /\ tick \in 0..(TICKS - 1)
    /\ message_counter \in 0..(U32 - 1)
    /\ level \in 0..(U32 - 1)
    /\ level_is_set \in BOOLEAN
    /\ reveal_request \in Requests \cup {"none"}
    /\ regs \in {"program", "args", "answer"}
    /\ exited \in BOOLEAN
    /\ eval \in [on : BOOLEAN, bound : Bounds, steps : 0..MAX_RUN]

(* The program runs on only with an answer: while a request is pending the *)
(* registers are as the program passed them (provide_input and             *)
(* provide_reveal_response take the buffer addresses from them, "These     *)
(* arguments should have been set by the previous SBI call"), and they are *)
(* not when the program evaluates.                                         *)
ArgsFromRequest == (status = "Evaluating") <=> (regs # "args")

(* For reveals this holds whatever the caller does: while a reveal is      *)
(* pending, no evaluation touches the registers or the request.            *)
RevealArgsIntact ==
    status = "WaitingForReveal" => regs = "args" /\ reveal_request \in Requests
=============================================================================
