------------------------------ MODULE NodePvm -------------------------------
(***************************************************************************)
(* NodePvm (pvm/node_pvm.rs): the operations of a PVM that the rollup node *)
(* calls.  The node is not part of the repository: it may call them in any *)
(* order, may answer a request or evaluate while one is pending, and may   *)
(* save the state and check it out again.                                  *)
(***************************************************************************)
EXTENDS Pvm

CONSTANTS
    Levels,        \* levels of the messages the node provides
    Counters,      \* their counters, u64 values that need not fit a u32
    MaxSteps,      \* bounds of compute_step_many
    INSTRETS       \* number of values of the instret register (2^64)

NodeConstants ==
    /\ Levels \subseteq 0..(U32 - 1)
    /\ Counters \subseteq Nat
    /\ MaxSteps \subseteq 0..USIZE_MAX
    /\ INSTRETS \in Nat \ {0}

VARIABLES
    instret,       \* how far insert_failure moved the instret register
    told,          \* the steps the calls told the node, modulo TICKS
    accepted       \* the last message that set_input accepted

nodeVars == <<instret, told, accepted>>
vars == <<pvmVars, nodeVars>>

NoMessage == [level |-> 0, counter |-> -1]

Init ==
    /\ PvmInit
    /\ instret = 0
    /\ told = 0
    /\ accepted = NoMessage

Tell(n) == told' = (told + n) % TICKS

ComputeStep ==
    /\ ~eval.on
    /\ EvalOne
    /\ Tell(1)
    /\ UNCHANGED <<instret, accepted>>

ComputeStepMany(max) ==
    /\ ~eval.on
    /\ \/ EvalMaxNothing(Included(max)) /\ UNCHANGED told
       \/ EvalMaxRevealError(Included(max)) /\ Tell(1)
       \/ EvalMaxStart(Included(max)) /\ UNCHANGED told
    /\ UNCHANGED <<instret, accepted>>

ComputeStepManyRun == EvalStep /\ UNCHANGED nodeVars

ComputeStepManyReturn ==
    /\ EvalMaxReturn
    /\ Tell(eval.steps)
    /\ UNCHANGED <<instret, accepted>>

(* set_input with a message: provide_input casts the counter to u32.  One *)
(* that is not expected is refused and changes nothing.                    *)
SetInputMessage(lvl, counter) ==
    /\ ~eval.on
    /\ ProvideInboxMessage(lvl, counter % U32)
    /\ accepted' = [level |-> lvl, counter |-> counter]
    /\ Tell(1)
    /\ UNCHANGED <<eval, instret>>

SetInputReveal ==
    /\ ~eval.on
    /\ ProvideRevealResponse
    /\ Tell(1)
    /\ UNCHANGED <<eval, instret, accepted>>

InsertFailure ==
    /\ ~eval.on
    /\ instret' = (instret + 1) % INSTRETS
    /\ UNCHANGED <<pvmVars, told, accepted>>

(* PvmStorage: commit, then checkout of what was committed. *)
CommitAndCheckout ==
    /\ ~eval.on
    /\ Rebind
    /\ UNCHANGED nodeVars

Next ==
    \/ ComputeStep
    \/ \E max \in MaxSteps : ComputeStepMany(max)
    \/ ComputeStepManyRun
    \/ ComputeStepManyReturn
    \/ \E lvl \in Levels, c \in Counters : SetInputMessage(lvl, c)
    \/ SetInputReveal
    \/ InsertFailure
    \/ CommitAndCheckout

Spec == Init /\ [][Next]_vars

-----------------------------------------------------------------------------
(* What the node knows of the PVM from its calls is what the state holds,  *)
(* in whatever order it calls.  The tick is the number of steps it was     *)
(* told of, an input being one.  get_current_level and get_message_counter *)
(* describe the last message that set_input accepted, the counter up to    *)
(* its cast to u32: evaluation and reveals never touch them and a refused  *)
(* message leaves no trace.  While a reveal is pending, no evaluation      *)
(* touches its arguments (RevealArgsIntact).                               *)
NodeViewExact ==
    /\ tick = told
    /\ level_is_set <=> accepted # NoMessage
    /\ level_is_set => /\ level = accepted.level
                       /\ message_counter = accepted.counter % U32
    /\ RevealArgsIntact
=============================================================================
