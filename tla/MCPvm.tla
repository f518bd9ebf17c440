-------------------------------- MODULE MCPvm --------------------------------
(***************************************************************************)
(* A PVM and either of its two users: the stepper, with an inbox of two    *)
(* levels, the second with two messages; or the rollup node, on a PVM of   *)
(* its own.  The user is chosen at the start.                              *)
(***************************************************************************)
EXTENDS PvmStepper

CONSTANTS available, unavailable

MCRequests == {available, unavailable}
MCAvailable == {available}

MCInbox == <<[level |-> 1, counter |-> 0],
             [level |-> 2, counter |-> 0],
             [level |-> 2, counter |-> 1]>>

MCBounds ==
    {Included(n) : n \in 0..3} \cup
    {[kind |-> "Excluded", n |-> n] : n \in 0..3} \cup
    {[kind |-> "Unbounded", n |-> 0]}

CONSTANTS Levels, Counters, MaxSteps, INSTRETS

VARIABLES
    user,
    n_status, n_tick, n_message_counter, n_level, n_level_is_set,
    n_reveal_request, n_regs, n_exited, n_eval, instret, told, accepted

n_vars ==
    <<n_status, n_tick, n_message_counter, n_level, n_level_is_set,
      n_reveal_request, n_regs, n_exited, n_eval, instret, told, accepted>>

Node == INSTANCE NodePvm
    WITH status <- n_status, tick <- n_tick, message_counter <- n_message_counter,
         level <- n_level, level_is_set <- n_level_is_set,
         reveal_request <- n_reveal_request, regs <- n_regs, exited <- n_exited,
         eval <- n_eval

(* What NodePvm assumes of its constants. *)
ASSUME MCNodeConstants == Node!NodeConstants

MCInit == Init /\ Node!Init /\ user \in {"stepper", "node"}

MCNext ==
    /\ UNCHANGED user
    /\ \/ user = "stepper" /\ Next /\ UNCHANGED n_vars
       \/ user = "node" /\ Node!Next /\ UNCHANGED vars

MCSpec == MCInit /\ [][MCNext]_<<user, vars, n_vars>> /\ WF_vars(InCall)

(* NodeViewExact of the node's PVM: ticks, level, message counter and the  *)
(* arguments of a pending reveal are as the calls of node_pvm.rs told the  *)
(* node.                                                                   *)
NodeViewExact == Node!NodeViewExact
==============================================================================
