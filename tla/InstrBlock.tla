----------------------------- MODULE InstrBlock -----------------------------
(***************************************************************************)
(* A block of decoded instructions, run in the two ways the machine has:   *)
(* interpreted, one instruction after another, or compiled, once, into one *)
(* function.  The builder of that function does not write pc as it goes.   *)
(* It keeps its dynamic values, the steps taken and how far pc has moved,   *)
(* for the point of the code it is generating, and every exit from the     *)
(* function writes what they were there.                                   *)
(***************************************************************************)
EXTENDS InstrDispatch

LOCAL INSTANCE SequencesExt

NoLib == [status |-> 0, value |-> 0]

\* Environment calls are the environment's to handle; every other exception
\* is, in place of a trap handler, a jump to address 0.
EnvironException == {"EnvCall"}

address_on_exception(h, exception, current_pc) ==
  IF exception \in EnvironException
  THEN [h |-> [h EXCEPT !.pc = current_pc], err |-> exception, pc |-> current_pc]
  ELSE [h |-> h, err |-> "none", pc |-> 0]

-----------------------------------------------------------------------------
(* Interpreted.  b is the state of the loop over the block: the hart, the  *)
(* pc of the instruction, the steps so far, whether the loop goes on, and  *)
(* the error it ended with.                                                *)

Entered(h) == [h |-> h, pc |-> h.pc, steps |-> 0, open |-> TRUE, err |-> "none"]

handle_step_result(b, exception) ==
  LET handled == address_on_exception(b.h, exception, b.pc) IN
  IF handled.err = "none"
  THEN [b EXCEPT !.h = [handled.h EXCEPT !.pc = handled.pc], !.steps = @ + 1]
  ELSE [b EXCEPT !.h = handled.h, !.err = handled.err]

\* What the loop does with the outcome of an instruction.
update_pc(b, out) ==
  CASE out.err # "none" ->
         [handle_step_result([b EXCEPT !.h = out.h], out.err) EXCEPT !.open = FALSE]
    [] out.err = "none" /\ out.pcu.update = "Next" ->
         LET next == add(b.pc, out.pcu.by, XLEN) IN
         [b EXCEPT !.h = [out.h EXCEPT !.pc = next], !.pc = next, !.steps = @ + 1]
    [] out.err = "none" /\ out.pcu.update = "Set" ->
         [b EXCEPT !.h = [out.h EXCEPT !.pc = out.pcu.to], !.steps = @ + 1,
                   !.open = FALSE]

run_instr(b, instr, lib) == update_pc(b, run(b.h, instr, lib))

\* An instruction that the block cache does not hold, p as it was parsed.  What
\* FenceI does to the block cache is in BudgetedMachine.
run_instr_uncacheable(b, p) ==
  update_pc(b,
    CASE p.op \in {"Fence", "FenceI"} -> Done(b.h, [width |-> 4])
      [] p.op = "FenceTso" -> [Done(b.h, [width |-> 4]) EXCEPT !.err = "IllegalInstruction"]
      [] p.op \in {"Ebreak", "CEbreak"} ->
           [Done(b.h, [width |-> 4]) EXCEPT !.err = "Breakpoint"])

-----------------------------------------------------------------------------
(* Compiled.  pc_val is relative to the pc the function is entered with.   *)

DynamicValues == [steps |-> 0, pc_val |-> 0, pc_offset |-> 0]

read_pc(d) == [d EXCEPT !.pc_val = @ + d.pc_offset, !.pc_offset = 0]

complete_step(d, offset) == [d EXCEPT !.steps = @ + 1, !.pc_offset = @ + offset]

jump_to_end(d) == [steps |-> d.steps, pc |-> read_pc(d).pc_val]

\* Mutant: the values of the branch are kept behind it
exit_on_branch_NoRestore(d, offset) ==
  [taken |-> jump_to_end(complete_step(d, offset)),
   fallthrough |-> read_pc(complete_step(d, offset))]

\* Code for the branch taken, which leaves the function, and the dynamic
\* values for the code after it, which are those from before the branch.
exit_on_branch(d, offset) ==
  [taken |-> jump_to_end(complete_step(d, offset)), fallthrough |-> d]

BranchOps == DOMAIN Branches \cup DOMAIN ZeroBranches
RaisingOps == {"ECall", "Unknown"}
PcReadingOps == {"AddImmediateToPC"}

\* One instruction lowered: the values its code sees, the exit its branch
\* takes, and the values after it.
lower(d, instr) ==
  LET split == exit_on_branch(d, instr.args.imm)
      after == CASE instr.opcode \in BranchOps -> split.fallthrough
                 [] instr.opcode \in PcReadingOps -> read_pc(d)
                 [] OTHER -> d IN
  [instr |-> instr, at |-> d, exit |-> split.taken,
   after |-> complete_step(after, instr.args.width)]

\* An instruction that has no lowering fails the block; one that always
\* raises or always jumps is the last to be compiled.
compile_instr(fn, instr) ==
  LET node == lower(fn.dynamic, instr) IN
  CASE ~fn.open -> fn
    [] fn.open /\ ~to_lowering(instr.opcode) -> [fn EXCEPT !.open = FALSE, !.ok = FALSE]
    [] fn.open /\ to_lowering(instr.opcode) ->
         [fn EXCEPT !.nodes = Append(@, node), !.dynamic = node.after,
                    !.open = instr.opcode \notin RaisingOps \cup JumpOps]

compile(code) ==
  FoldLeft(compile_instr,
           [nodes |-> <<>>, dynamic |-> DynamicValues, open |-> TRUE, ok |-> TRUE], code)

\* Running the function.  c has the hart, whose pc is written at an exit only,
\* and the outcome of the exit once there is one.
Exit(c, h, pc, steps, err) ==
  [c EXCEPT !.h = [h EXCEPT !.pc = pc % 2^XLEN], !.steps = steps, !.err = err,
            !.open = FALSE]

handle_exception(c, h, d, exception) ==
  LET current == (c.entry + read_pc(d).pc_val) % 2^XLEN
      handled == address_on_exception(h, exception, current) IN
  IF handled.err = "none" THEN Exit(c, h, handled.pc, d.steps + 1, "none")
                          ELSE Exit(c, handled.h, current, d.steps, handled.err)

\* The function goes on after a node, or leaves through one of its exits.
exits(c, node, out) ==
  LET h == [out.h EXCEPT !.pc = c.h.pc] IN
  CASE out.err # "none" -> handle_exception(c, h, node.at, out.err)
    [] out.err = "none" /\ out.pcu.update = "Next" -> [c EXCEPT !.h = h]
    [] out.err = "none" /\ out.pcu.update = "Exit" ->
         Exit(c, h, c.entry + node.exit.pc, node.exit.steps, "none")
    [] out.err = "none" /\ out.pcu.update = "Set" ->
         Exit(c, h, out.pcu.to, node.after.steps, "none")

run_node(c, node) ==
  LET current == (c.entry + read_pc(node.at).pc_val) % 2^XLEN IN
  IF c.open THEN exits(c, node, run([c.h EXCEPT !.pc = current], node.instr, NoLib))
            ELSE c

finalise_end_block(c, d) ==
  IF c.open THEN Exit(c, c.h, c.entry + jump_to_end(d).pc, jump_to_end(d).steps, "none")
            ELSE c

call(fn, h) ==
  finalise_end_block(
    FoldLeft(run_node,
             [h |-> h, entry |-> h.pc, steps |-> 0, err |-> "none", open |-> TRUE],
             fn.nodes),
    fn.dynamic)

=============================================================================
