---------------------------- MODULE InstrConvert ----------------------------
(***************************************************************************)
(* From the parsed instruction to the one the block cache holds: an opcode *)
(* and one argument record for every kind of instruction.  An operand that *)
(* is x0 selects another opcode, so that most opcodes read and write their *)
(* operands as registers that are not x0.                                  *)
(***************************************************************************)
EXTENDS Registers, TLC

Compressed == 2
Uncompressed == 4

DEFAULT ==
  [rd |-> ra, rs1 |-> ra, rs2 |-> ra, imm |-> 0, csr |-> 1, rs3f |-> 0,
   rm |-> 7, aq |-> 0, rl |-> 0, width |-> Uncompressed]

Instruction(op, args) == [opcode |-> op, args |-> args @@ DEFAULT]

\* The argument shapes the constructors share.
RArgs(rd, rs1, rs2, width) ==
  [rd |-> rd, rs1 |-> rs1, rs2 |-> rs2, width |-> width]
IArgs(rd, rs1, imm, width) ==
  [rd |-> rd, rs1 |-> rs1, imm |-> imm, width |-> width]
SArgs(rs1, rs2, imm, width) ==
  [rs1 |-> rs1, rs2 |-> rs2, imm |-> imm, width |-> width]
BArgs(rs1, imm, width) == [rs1 |-> rs1, imm |-> imm, width |-> width]
DArgs(rd, imm, width) == [rd |-> rd, imm |-> imm, width |-> width]
AArgs(rd, rs1, rs2, aq, rl, width) ==
  RArgs(rd, rs1, rs2, width) @@ [aq |-> aq, rl |-> rl]

-----------------------------------------------------------------------------
(* Constructors.                                                           *)

new_add(rd, rs1, rs2, width) == Instruction("Add", RArgs(rd, rs1, rs2, width))
new_add_word(rd, rs1, rs2, width) ==
  Instruction("AddWord", RArgs(rd, rs1, rs2, width))
new_add_word_immediate(rd, rs1, imm, width) ==
  Instruction("AddWordImmediate", IArgs(rd, rs1, imm, width))
new_sub(rd, rs1, rs2, width) == Instruction("Sub", RArgs(rd, rs1, rs2, width))
new_sub_word(rd, rs1, rs2, width) ==
  Instruction("SubWord", RArgs(rd, rs1, rs2, width))
new_neg(rd, rs2, width) ==
  Instruction("Neg", [rd |-> rd, rs2 |-> rs2, width |-> width])
new_mv(rd, rs2, width) ==
  Instruction("Mv", [rd |-> rd, rs2 |-> rs2, width |-> width])
new_li(rd, imm, width) == Instruction("Li", DArgs(rd, imm, width))
new_nop(width) == Instruction("Nop", [width |-> width])
new_unknown(width) == Instruction("Unknown", [width |-> width])
new_addi(rd, rs1, imm, width) ==
  Instruction("Addi", IArgs(rd, rs1, imm, width))
new_andi(rd, rs1, imm, width) ==
  Instruction("Andi", IArgs(rd, rs1, imm, width))
new_x64_or_immediate(rd, rs1, imm, width) ==
  Instruction("X64OrImm", IArgs(rd, rs1, imm, width))
new_x64_xor_immediate(rd, rs1, imm, width) ==
  Instruction("X64XorImm", IArgs(rd, rs1, imm, width))
new_shift_left_immediate(rd, rs1, imm, width) ==
  Instruction("ShiftLeftImmediate", IArgs(rd, rs1, imm, width))
new_shift_right_immediate_unsigned(rd, rs1, imm, width) ==
  Instruction("ShiftRightImmediateUnsigned", IArgs(rd, rs1, imm, width))
new_shift_right_immediate_signed(rd, rs1, imm, width) ==
  Instruction("ShiftRightImmediateSigned", IArgs(rd, rs1, imm, width))
new_x32_shift_left(rd, rs1, rs2, width) ==
  Instruction("X32ShiftLeft", RArgs(rd, rs1, rs2, width))
new_x32_shift_right_unsigned(rd, rs1, rs2, width) ==
  Instruction("X32ShiftRightUnsigned", RArgs(rd, rs1, rs2, width))
new_x32_shift_right_signed(rd, rs1, rs2, width) ==
  Instruction("X32ShiftRightSigned", RArgs(rd, rs1, rs2, width))
new_x32_shift_left_immediate(rd, rs1, imm, width) ==
  Instruction("X32ShiftLeftImm", IArgs(rd, rs1, imm, width))
new_x32_shift_right_immediate_unsigned(rd, rs1, imm, width) ==
  Instruction("X32ShiftRightImmUnsigned", IArgs(rd, rs1, imm, width))
new_x32_shift_right_immediate_signed(rd, rs1, imm, width) ==
  Instruction("X32ShiftRightImmSigned", IArgs(rd, rs1, imm, width))
new_set_less_than_signed(rd, rs1, rs2) ==
  Instruction("SetLessThanSigned", RArgs(rd, rs1, rs2, Uncompressed))
new_set_less_than_unsigned(rd, rs1, rs2) ==
  Instruction("SetLessThanUnsigned", RArgs(rd, rs1, rs2, Uncompressed))
new_set_less_than_immediate_signed(rd, rs1, imm) ==
  Instruction("SetLessThanImmediateSigned", IArgs(rd, rs1, imm, Uncompressed))
new_set_less_than_immediate_unsigned(rd, rs1, imm) ==
  Instruction("SetLessThanImmediateUnsigned", IArgs(rd, rs1, imm, Uncompressed))
new_and(rd, rs1, rs2, width) == Instruction("And", RArgs(rd, rs1, rs2, width))
new_or(rd, rs1, rs2, width) == Instruction("Or", RArgs(rd, rs1, rs2, width))
new_x64_xor(rd, rs1, rs2, width) ==
  Instruction("X64Xor", RArgs(rd, rs1, rs2, width))
new_shift_left(rd, rs1, rs2, width) ==
  Instruction("ShiftLeft", RArgs(rd, rs1, rs2, width))
new_shift_right_unsigned(rd, rs1, rs2, width) ==
  Instruction("ShiftRightUnsigned", RArgs(rd, rs1, rs2, width))
new_shift_right_signed(rd, rs1, rs2, width) ==
  Instruction("ShiftRightSigned", RArgs(rd, rs1, rs2, width))
new_j(imm, width) == Instruction("J", [imm |-> imm, width |-> width])
new_jal(rd, imm, width) == Instruction("Jal", DArgs(rd, imm, width))
new_branch_equal(rs1, rs2, imm, width) ==
  Instruction("BranchEqual", SArgs(rs1, rs2, imm, width))
new_branch_equal_zero(rs1, imm, width) ==
  Instruction("BranchEqualZero", BArgs(rs1, imm, width))
new_branch_not_equal(rs1, rs2, imm, width) ==
  Instruction("BranchNotEqual", SArgs(rs1, rs2, imm, width))
new_branch_not_equal_zero(rs1, imm, width) ==
  Instruction("BranchNotEqualZero", BArgs(rs1, imm, width))
new_j_absolute(imm, width) ==
  Instruction("JAbsolute", [imm |-> imm, width |-> width])
new_jalr_imm(rd, rs1, imm, width) ==
  Instruction("JalrImm", IArgs(rd, rs1, imm, width))
new_jalr_absolute(rd, imm, width) ==
  Instruction("JalrAbsolute", DArgs(rd, imm, width))
new_jr_imm(rs1, imm, width) == Instruction("JrImm", BArgs(rs1, imm, width))
new_jr(rs1, width) == Instruction("Jr", [rs1 |-> rs1, width |-> width])
new_jalr(rd, rs1, width) ==
  Instruction("Jalr", [rd |-> rd, rs1 |-> rs1, width |-> width])
new_x64_load_signed(rd, rs1, imm, width) ==
  Instruction("X64LoadSigned", IArgs(rd, rs1, imm, width))
new_x64_store(rs1, rs2, imm, width) ==
  Instruction("X64Store", SArgs(rs1, rs2, imm, width))
new_x32_load_signed(rd, rs1, imm, width) ==
  Instruction("X32LoadSigned", IArgs(rd, rs1, imm, width))
new_x32_load_unsigned(rd, rs1, imm, width) ==
  Instruction("X32LoadUnsigned", IArgs(rd, rs1, imm, width))
new_x32_store(rs1, rs2, imm, width) ==
  Instruction("X32Store", SArgs(rs1, rs2, imm, width))
new_x16_load_signed(rd, rs1, imm, width) ==
  Instruction("X16LoadSigned", IArgs(rd, rs1, imm, width))
new_x16_load_unsigned(rd, rs1, imm, width) ==
  Instruction("X16LoadUnsigned", IArgs(rd, rs1, imm, width))
new_x16_store(rs1, rs2, imm, width) ==
  Instruction("X16Store", SArgs(rs1, rs2, imm, width))
new_x8_load_signed(rd, rs1, imm, width) ==
  Instruction("X8LoadSigned", IArgs(rd, rs1, imm, width))
new_x8_load_unsigned(rd, rs1, imm, width) ==
  Instruction("X8LoadUnsigned", IArgs(rd, rs1, imm, width))
new_x8_store(rs1, rs2, imm, width) ==
  Instruction("X8Store", SArgs(rs1, rs2, imm, width))
new_branch_less_than_signed(rs1, rs2, imm, width) ==
  Instruction("BranchLessThanSigned", SArgs(rs1, rs2, imm, width))
new_branch_less_than_zero(rs1, imm, width) ==
  Instruction("BranchLessThanZero", BArgs(rs1, imm, width))
new_branch_less_than_or_equal_zero(rs1, imm, width) ==
  Instruction("BranchLessThanOrEqualZero", BArgs(rs1, imm, width))
new_branch_greater_than_or_equal_signed(rs1, rs2, imm, width) ==
  Instruction("BranchGreaterThanOrEqualSigned", SArgs(rs1, rs2, imm, width))
new_branch_greater_than_or_equal_zero(rs1, imm, width) ==
  Instruction("BranchGreaterThanOrEqualZero", BArgs(rs1, imm, width))
new_branch_greater_than_zero(rs1, imm, width) ==
  Instruction("BranchGreaterThanZero", BArgs(rs1, imm, width))
new_branch_less_than_unsigned(rs1, rs2, imm, width) ==
  Instruction("BranchLessThanUnsigned", SArgs(rs1, rs2, imm, width))
new_branch_greater_than_or_equal_unsigned(rs1, rs2, imm, width) ==
  Instruction("BranchGreaterThanOrEqualUnsigned", SArgs(rs1, rs2, imm, width))
new_add_immediate_to_pc(rd, imm, width) ==
  Instruction("AddImmediateToPC", DArgs(rd, imm, width))
new_mul(rd, rs1, rs2, width) == Instruction("Mul", RArgs(rd, rs1, rs2, width))
new_x32_mul(rd, rs1, rs2, width) ==
  Instruction("X32Mul", RArgs(rd, rs1, rs2, width))
new_x64_mul_high_signed(rd, rs1, rs2, width) ==
  Instruction("X64MulHighSigned", RArgs(rd, rs1, rs2, width))
new_x64_mul_high_signed_unsigned(rd, rs1, rs2, width) ==
  Instruction("X64MulHighSignedUnsigned", RArgs(rd, rs1, rs2, width))
new_x64_mul_high_unsigned(rd, rs1, rs2, width) ==
  Instruction("X64MulHighUnsigned", RArgs(rd, rs1, rs2, width))
new_x64_div_signed(rd, rs1, rs2, width) ==
  Instruction("X64DivSigned", RArgs(rd, rs1, rs2, width))
new_x64_div_unsigned(rd, rs1, rs2, width) ==
  Instruction("X64DivUnsigned", RArgs(rd, rs1, rs2, width))
new_x32_div_signed(rd, rs1, rs2, width) ==
  Instruction("X32DivSigned", RArgs(rd, rs1, rs2, width))
new_x32_div_unsigned(rd, rs1, rs2, width) ==
  Instruction("X32DivUnsigned", RArgs(rd, rs1, rs2, width))
new_ecall == Instruction("ECall", [width |-> Uncompressed])
new_x64_atomic_add(rd, rs1, rs2, aq, rl, width) ==
  Instruction("X64AtomicAdd", AArgs(rd, rs1, rs2, aq, rl, width))
new_x64_atomic_min_signed(rd, rs1, rs2, aq, rl, width) ==
  Instruction("X64AtomicMinSigned", AArgs(rd, rs1, rs2, aq, rl, width))
new_x32_atomic_load(rd, rs1, aq, rl, width) ==
  Instruction("X32AtomicLoad", AArgs(rd, rs1, ra, aq, rl, width))
new_x32_atomic_store(rd, rs1, rs2, aq, rl, width) ==
  Instruction("X32AtomicStore", AArgs(rd, rs1, rs2, aq, rl, width))
new_x64_atomic_load(rd, rs1, aq, rl, width) ==
  Instruction("X64AtomicLoad", AArgs(rd, rs1, ra, aq, rl, width))
new_x64_atomic_store(rd, rs1, rs2, aq, rl, width) ==
  Instruction("X64AtomicStore", AArgs(rd, rs1, rs2, aq, rl, width))
new_x64_rem_signed(rd, rs1, rs2, width) ==
  Instruction("X64RemSigned", RArgs(rd, rs1, rs2, width))
new_x64_rem_unsigned(rd, rs1, rs2, width) ==
  Instruction("X64RemUnsigned", RArgs(rd, rs1, rs2, width))
new_x32_rem_signed(rd, rs1, rs2, width) ==
  Instruction("X32RemSigned", RArgs(rd, rs1, rs2, width))
new_x32_rem_unsigned(rd, rs1, rs2, width) ==
  Instruction("X32RemUnsigned", RArgs(rd, rs1, rs2, width))
new_x32_atomic_swap(rd, rs1, rs2, aq, rl, width) ==
  Instruction("X32AtomicSwap", AArgs(rd, rs1, rs2, aq, rl, width))
new_x64_atomic_swap(rd, rs1, rs2, aq, rl, width) ==
  Instruction("X64AtomicSwap", AArgs(rd, rs1, rs2, aq, rl, width))

-----------------------------------------------------------------------------
(* Instructions whose opcode depends on which operands are x0.             *)

\* The sum, disjunction or exclusive or of two registers: with x0 it is a move.
from_ic_add(a) ==
  CASE a.rs1 = x0 /\ a.rs2 = x0 -> new_li(a.rd, 0, Uncompressed)
    [] a.rs1 # x0 /\ a.rs2 = x0 -> new_mv(a.rd, a.rs1, Uncompressed)
    [] a.rs1 = x0 /\ a.rs2 # x0 -> new_mv(a.rd, a.rs2, Uncompressed)
    [] OTHER -> new_add(a.rd, a.rs1, a.rs2, Uncompressed)

from_ic_or(a) ==
  CASE a.rs1 = x0 /\ a.rs2 = x0 -> new_li(a.rd, 0, Uncompressed)
    [] a.rs1 # x0 /\ a.rs2 = x0 -> new_mv(a.rd, a.rs1, Uncompressed)
    [] a.rs1 = x0 /\ a.rs2 # x0 -> new_mv(a.rd, a.rs2, Uncompressed)
    [] OTHER -> new_or(a.rd, a.rs1, a.rs2, Uncompressed)

from_ic_xor(a) ==
  CASE a.rs1 = x0 /\ a.rs2 = x0 -> new_li(a.rd, 0, Uncompressed)
    [] a.rs1 # x0 /\ a.rs2 = x0 -> new_mv(a.rd, a.rs1, Uncompressed)
    [] a.rs1 = x0 /\ a.rs2 # x0 -> new_mv(a.rd, a.rs2, Uncompressed)
    [] OTHER -> new_x64_xor(a.rd, a.rs1, a.rs2, Uncompressed)

\* Mutant: a subtraction from x0 is not made a negation
from_ic_sub_NoNeg(a) ==
  IF a.rs2 = x0 THEN new_mv(a.rd, a.rs1, Uncompressed)
                ELSE new_sub(a.rd, a.rs1, a.rs2, Uncompressed)

from_ic_sub(a) ==
  CASE a.rs1 = x0 /\ a.rs2 = x0 -> new_li(a.rd, 0, Uncompressed)
    [] a.rs1 # x0 /\ a.rs2 = x0 -> new_mv(a.rd, a.rs1, Uncompressed)
    [] a.rs1 = x0 /\ a.rs2 # x0 -> new_neg(a.rd, a.rs2, Uncompressed)
    [] OTHER -> new_sub(a.rd, a.rs1, a.rs2, Uncompressed)

from_ic_and(a) ==
  IF x0 \in {a.rs1, a.rs2} THEN new_li(a.rd, 0, Uncompressed)
                           ELSE new_and(a.rd, a.rs1, a.rs2, Uncompressed)

from_ic_sll(a) ==
  CASE a.rs1 = x0 -> new_li(a.rd, 0, Uncompressed)
    [] a.rs1 # x0 /\ a.rs2 = x0 -> new_mv(a.rd, a.rs1, Uncompressed)
    [] OTHER -> new_shift_left(a.rd, a.rs1, a.rs2, Uncompressed)

from_ic_srl(a) ==
  CASE a.rs1 = x0 -> new_li(a.rd, 0, Uncompressed)
    [] a.rs1 # x0 /\ a.rs2 = x0 -> new_mv(a.rd, a.rs1, Uncompressed)
    [] OTHER -> new_shift_right_unsigned(a.rd, a.rs1, a.rs2, Uncompressed)

from_ic_sra(a) ==
  CASE a.rs1 = x0 -> new_li(a.rd, 0, Uncompressed)
    [] a.rs1 # x0 /\ a.rs2 = x0 -> new_mv(a.rd, a.rs1, Uncompressed)
    [] OTHER -> new_shift_right_signed(a.rd, a.rs1, a.rs2, Uncompressed)

\* Immediate operands.
from_ic_addi(a) ==
  CASE a.rd = x0 -> new_nop(Uncompressed)
    [] a.rd # x0 /\ a.rs1 = x0 -> new_li(a.rd, a.imm, Uncompressed)
    [] OTHER -> new_addi(a.rd, a.rs1, a.imm, Uncompressed)

from_ic_andi(a) ==
  IF a.rs1 = x0 THEN new_li(a.rd, 0, Uncompressed)
                ELSE new_andi(a.rd, a.rs1, a.imm, Uncompressed)

from_ic_ori(a) ==
  IF a.rs1 = x0 THEN new_li(a.rd, a.imm, Uncompressed)
                ELSE new_x64_or_immediate(a.rd, a.rs1, a.imm, Uncompressed)

from_ic_xori(a) ==
  IF a.rs1 = x0 THEN new_li(a.rd, a.imm, Uncompressed)
                ELSE new_x64_xor_immediate(a.rd, a.rs1, a.imm, Uncompressed)

from_ic_slli(a) ==
  IF a.rs1 = x0
  THEN new_li(a.rd, 0, Uncompressed)
  ELSE new_shift_left_immediate(a.rd, a.rs1, a.imm, Uncompressed)

from_ic_srli(a) ==
  IF a.rs1 = x0
  THEN new_li(a.rd, 0, Uncompressed)
  ELSE new_shift_right_immediate_unsigned(a.rd, a.rs1, a.imm, Uncompressed)

from_ic_srai(a) ==
  IF a.rs1 = x0
  THEN new_li(a.rd, 0, Uncompressed)
  ELSE new_shift_right_immediate_signed(a.rd, a.rs1, a.imm, Uncompressed)

from_ic_x32_shift_left_immediate(a) ==
  IF a.rs1 = x0
  THEN new_li(a.rd, 0, Uncompressed)
  ELSE new_x32_shift_left_immediate(a.rd, a.rs1, a.imm, Uncompressed)

from_ic_x32_shift_right_immediate_unsigned(a) ==
  IF a.rs1 = x0
  THEN new_li(a.rd, 0, Uncompressed)
  ELSE new_x32_shift_right_immediate_unsigned(a.rd, a.rs1, a.imm, Uncompressed)

from_ic_x32_shift_right_immediate_signed(a) ==
  IF a.rs1 = x0
  THEN new_li(a.rd, 0, Uncompressed)
  ELSE new_x32_shift_right_immediate_signed(a.rd, a.rs1, a.imm, Uncompressed)

\* Jumps and branches: comparing a register with itself or with x0 is decided,
\* or becomes a comparison with zero.
from_ic_jal(a) ==
  IF a.rd = x0 THEN new_j(a.imm, Uncompressed)
               ELSE new_jal(a.rd, a.imm, Uncompressed)

from_ic_jalr(a) ==
  CASE a.rd = x0 /\ a.rs1 = x0 -> new_j_absolute(a.imm, Uncompressed)
    [] a.rd = x0 /\ a.rs1 # x0 /\ a.imm = 0 -> new_jr(a.rs1, Uncompressed)
    [] a.rd = x0 /\ a.rs1 # x0 /\ a.imm # 0 ->
         new_jr_imm(a.rs1, a.imm, Uncompressed)
    [] a.rd # x0 /\ a.rs1 = x0 -> new_jalr_absolute(a.rd, a.imm, Uncompressed)
    [] a.rd # x0 /\ a.rs1 # x0 /\ a.imm = 0 ->
         new_jalr(a.rd, a.rs1, Uncompressed)
    [] OTHER -> new_jalr_imm(a.rd, a.rs1, a.imm, Uncompressed)

from_ic_beq(a) ==
  CASE a.rs1 = a.rs2 -> new_j(a.imm, Uncompressed)
    [] a.rs1 # x0 /\ a.rs2 = x0 ->
         new_branch_equal_zero(a.rs1, a.imm, Uncompressed)
    [] a.rs1 = x0 /\ a.rs2 # x0 ->
         new_branch_equal_zero(a.rs2, a.imm, Uncompressed)
    [] OTHER -> new_branch_equal(a.rs1, a.rs2, a.imm, Uncompressed)

from_ic_bne(a) ==
  CASE a.rs1 = a.rs2 -> new_nop(Uncompressed)
    [] a.rs1 # x0 /\ a.rs2 = x0 ->
         new_branch_not_equal_zero(a.rs1, a.imm, Uncompressed)
    [] a.rs1 = x0 /\ a.rs2 # x0 ->
         new_branch_not_equal_zero(a.rs2, a.imm, Uncompressed)
    [] OTHER -> new_branch_not_equal(a.rs1, a.rs2, a.imm, Uncompressed)

\* Mutant: rs2 >= 0 in place of rs2 > 0 when rs1 is x0
from_ic_blt_Strictness(a) ==
  CASE a.rs1 = a.rs2 -> new_nop(Uncompressed)
    [] a.rs1 = x0 /\ a.rs2 # x0 ->
         new_branch_greater_than_or_equal_zero(a.rs2, a.imm, Uncompressed)
    [] a.rs1 # x0 /\ a.rs2 = x0 ->
         new_branch_less_than_zero(a.rs1, a.imm, Uncompressed)
    [] OTHER -> new_branch_less_than_signed(a.rs1, a.rs2, a.imm, Uncompressed)

from_ic_blt(a) ==
  CASE a.rs1 = a.rs2 -> new_nop(Uncompressed)
    [] a.rs1 = x0 /\ a.rs2 # x0 ->
         new_branch_greater_than_zero(a.rs2, a.imm, Uncompressed)
    [] a.rs1 # x0 /\ a.rs2 = x0 ->
         new_branch_less_than_zero(a.rs1, a.imm, Uncompressed)
    [] OTHER -> new_branch_less_than_signed(a.rs1, a.rs2, a.imm, Uncompressed)

from_ic_bge(a) ==
  CASE a.rs1 = a.rs2 -> new_j(a.imm, Uncompressed)
    [] a.rs1 = x0 /\ a.rs2 # x0 ->
         new_branch_less_than_or_equal_zero(a.rs2, a.imm, Uncompressed)
    [] a.rs1 # x0 /\ a.rs2 = x0 ->
         new_branch_greater_than_or_equal_zero(a.rs1, a.imm, Uncompressed)
    [] OTHER ->
         new_branch_greater_than_or_equal_signed(a.rs1, a.rs2, a.imm,
                                                 Uncompressed)

from_ic_bltu(a) ==
  CASE a.rs2 = x0 \/ a.rs1 = a.rs2 -> new_nop(Uncompressed)
    [] a.rs1 = x0 /\ a.rs2 # x0 ->
         new_branch_not_equal_zero(a.rs2, a.imm, Uncompressed)
    [] OTHER -> new_branch_less_than_unsigned(a.rs1, a.rs2, a.imm, Uncompressed)

from_ic_bgeu(a) ==
  CASE a.rs2 = x0 \/ a.rs1 = a.rs2 -> new_j(a.imm, Uncompressed)
    [] a.rs1 = x0 /\ a.rs2 # x0 ->
         new_branch_equal_zero(a.rs2, a.imm, Uncompressed)
    [] OTHER ->
         new_branch_greater_than_or_equal_unsigned(a.rs1, a.rs2, a.imm,
                                                   Uncompressed)

\* Multiplication and division: nothing to do for x0, and zero times anything.
from_ic_mul(a) ==
  CASE a.rd = x0 -> new_nop(Uncompressed)
    [] a.rd # x0 /\ x0 \in {a.rs1, a.rs2} -> new_li(a.rd, 0, Uncompressed)
    [] OTHER -> new_mul(a.rd, a.rs1, a.rs2, Uncompressed)

from_ic_mulh(a) ==
  CASE a.rd = x0 -> new_nop(Uncompressed)
    [] a.rd # x0 /\ x0 \in {a.rs1, a.rs2} -> new_li(a.rd, 0, Uncompressed)
    [] OTHER -> new_x64_mul_high_signed(a.rd, a.rs1, a.rs2, Uncompressed)

from_ic_mulhsu(a) ==
  CASE a.rd = x0 -> new_nop(Uncompressed)
    [] a.rd # x0 /\ x0 \in {a.rs1, a.rs2} -> new_li(a.rd, 0, Uncompressed)
    [] OTHER ->
         new_x64_mul_high_signed_unsigned(a.rd, a.rs1, a.rs2, Uncompressed)

from_ic_mulhu(a) ==
  CASE a.rd = x0 -> new_nop(Uncompressed)
    [] a.rd # x0 /\ x0 \in {a.rs1, a.rs2} -> new_li(a.rd, 0, Uncompressed)
    [] OTHER -> new_x64_mul_high_unsigned(a.rd, a.rs1, a.rs2, Uncompressed)

from_ic_div(a) ==
  IF a.rd = x0 THEN new_nop(Uncompressed)
               ELSE new_x64_div_signed(a.rd, a.rs1, a.rs2, Uncompressed)

from_ic_divu(a) ==
  IF a.rd = x0 THEN new_nop(Uncompressed)
               ELSE new_x64_div_unsigned(a.rd, a.rs1, a.rs2, Uncompressed)

from_ic_divw(a) ==
  IF a.rd = x0 THEN new_nop(Uncompressed)
               ELSE new_x32_div_signed(a.rd, a.rs1, a.rs2, Uncompressed)

from_ic_divuw(a) ==
  IF a.rd = x0 THEN new_nop(Uncompressed)
               ELSE new_x32_div_unsigned(a.rd, a.rs1, a.rs2, Uncompressed)

from_ic_rem(a) ==
  IF a.rd = x0 THEN new_nop(Uncompressed)
               ELSE new_x64_rem_signed(a.rd, a.rs1, a.rs2, Uncompressed)

from_ic_remu(a) ==
  IF a.rd = x0 THEN new_nop(Uncompressed)
               ELSE new_x64_rem_unsigned(a.rd, a.rs1, a.rs2, Uncompressed)

from_ic_remw(a) ==
  IF a.rd = x0 THEN new_nop(Uncompressed)
               ELSE new_x32_rem_signed(a.rd, a.rs1, a.rs2, Uncompressed)

from_ic_remuw(a) ==
  IF a.rd = x0 THEN new_nop(Uncompressed)
               ELSE new_x32_rem_unsigned(a.rd, a.rs1, a.rs2, Uncompressed)

\* Compressed forms: the destination is also the first source.
from_ic_caddw(a) ==
  IF a.rd_rs1 = x0 THEN new_nop(Compressed)
                   ELSE new_add_word(a.rd_rs1, a.rd_rs1, a.rs2, Compressed)

from_ic_csubw(a) ==
  IF a.rd_rs1 = x0 THEN new_nop(Compressed)
                   ELSE new_sub_word(a.rd_rs1, a.rd_rs1, a.rs2, Compressed)

from_ic_csub(a) ==
  IF x0 \in {a.rd_rs1, a.rs2}
  THEN new_nop(Compressed)
  ELSE new_sub(a.rd_rs1, a.rd_rs1, a.rs2, Compressed)

from_ic_cor(a) ==
  IF x0 \in {a.rd_rs1, a.rs2}
  THEN new_nop(Compressed)
  ELSE new_or(a.rd_rs1, a.rd_rs1, a.rs2, Compressed)

from_ic_cxor(a) ==
  IF x0 \in {a.rd_rs1, a.rs2}
  THEN new_nop(Compressed)
  ELSE new_x64_xor(a.rd_rs1, a.rd_rs1, a.rs2, Compressed)

from_ic_caddi4spn(a) ==
  IF a.rd_rs1 = x0 THEN new_nop(Compressed)
                   ELSE new_addi(a.rd_rs1, sp, a.imm, Compressed)

from_ic_candi(a) ==
  IF a.rd_rs1 = x0
  THEN new_nop(Compressed)
  ELSE new_andi(a.rd_rs1, a.rd_rs1, a.imm, Compressed)

from_ic_csrli(a) ==
  IF a.rd_rs1 = x0
  THEN new_nop(Compressed)
  ELSE new_shift_right_immediate_unsigned(a.rd_rs1, a.rd_rs1, a.imm, Compressed)

from_ic_csrai(a) ==
  IF a.rd_rs1 = x0
  THEN new_nop(Compressed)
  ELSE new_shift_right_immediate_signed(a.rd_rs1, a.rd_rs1, a.imm, Compressed)

from_ic_cand(a) ==
  CASE a.rd_rs1 = x0 -> new_nop(Compressed)
    [] a.rd_rs1 # x0 /\ a.rs2 = x0 -> new_li(a.rd_rs1, 0, Compressed)
    [] OTHER -> new_and(a.rd_rs1, a.rd_rs1, a.rs2, Compressed)

from_ic_cbeqz(a) ==
  IF a.rd_rs1 = x0 THEN new_j(a.imm, Compressed)
                   ELSE new_branch_equal_zero(a.rd_rs1, a.imm, Compressed)

from_ic_cbnez(a) ==
  IF a.rd_rs1 = x0 THEN new_nop(Compressed)
                   ELSE new_branch_not_equal_zero(a.rd_rs1, a.imm, Compressed)

-----------------------------------------------------------------------------
(* The arguments of a parsed instruction that keeps its opcode: the fields *)
(* it has, and the defaults.                                               *)

into(p) ==
  [f \in DOMAIN p \ {"op"} |-> p[f]] @@ [width |-> Uncompressed]

into_c(p) ==
  (IF "rd_rs1" \in DOMAIN p THEN [rd |-> p.rd_rs1, imm |-> p.imm]
                            ELSE [rs2 |-> p.rs2, imm |-> p.imm])
  @@ [width |-> Compressed]

to_args(p, width) ==
  [f \in DOMAIN p \ {"op"} |-> p[f]] @@ [width |-> width]

into_fp(p) ==
  [f \in DOMAIN p \ {"op", "rs3"} |-> p[f]]
  @@ (IF "rs3" \in DOMAIN p THEN [rs3f |-> p.rs3] ELSE << >>)
  @@ [width |-> Uncompressed]

convert_r_type(p) ==
  CASE p.op = "Add" -> from_ic_add(p)
    [] p.op = "Sub" -> from_ic_sub(p)
    [] p.op = "Xor" -> from_ic_xor(p)
    [] p.op = "Or" -> from_ic_or(p)
    [] p.op = "And" -> from_ic_and(p)
    [] p.op = "Sll" -> from_ic_sll(p)
    [] p.op = "Srl" -> from_ic_srl(p)
    [] p.op = "Sra" -> from_ic_sra(p)
    [] p.op = "Slt" -> new_set_less_than_signed(p.rd, p.rs1, p.rs2)
    [] p.op = "Sltu" -> new_set_less_than_unsigned(p.rd, p.rs1, p.rs2)
    [] p.op = "Addw" -> new_add_word(p.rd, p.rs1, p.rs2, Uncompressed)
    [] p.op = "Subw" -> new_sub_word(p.rd, p.rs1, p.rs2, Uncompressed)
    [] p.op = "Sllw" -> new_x32_shift_left(p.rd, p.rs1, p.rs2, Uncompressed)
    [] p.op = "Srlw" ->
         new_x32_shift_right_unsigned(p.rd, p.rs1, p.rs2, Uncompressed)
    [] p.op = "Sraw" ->
         new_x32_shift_right_signed(p.rd, p.rs1, p.rs2, Uncompressed)

convert_i_type(p) ==
  CASE p.op = "Addi" -> from_ic_addi(p)
    [] p.op = "Addiw" -> new_add_word_immediate(p.rd, p.rs1, p.imm, Uncompressed)
    [] p.op = "Xori" -> from_ic_xori(p)
    [] p.op = "Ori" -> from_ic_ori(p)
    [] p.op = "Andi" -> from_ic_andi(p)
    [] p.op = "Slli" -> from_ic_slli(p)
    [] p.op = "Srli" -> from_ic_srli(p)
    [] p.op = "Srai" -> from_ic_srai(p)
    [] p.op = "Slliw" -> from_ic_x32_shift_left_immediate(p)
    [] p.op = "Srliw" -> from_ic_x32_shift_right_immediate_unsigned(p)
    [] p.op = "Sraiw" -> from_ic_x32_shift_right_immediate_signed(p)
    [] p.op = "Slti" -> new_set_less_than_immediate_signed(p.rd, p.rs1, p.imm)
    [] p.op = "Sltiu" ->
         new_set_less_than_immediate_unsigned(p.rd, p.rs1, p.imm)

convert_load_store(p) ==
  CASE p.op = "Lb" -> new_x8_load_signed(p.rd, p.rs1, p.imm, Uncompressed)
    [] p.op = "Lh" -> new_x16_load_signed(p.rd, p.rs1, p.imm, Uncompressed)
    [] p.op = "Lw" -> new_x32_load_signed(p.rd, p.rs1, p.imm, Uncompressed)
    [] p.op = "Lbu" -> new_x8_load_unsigned(p.rd, p.rs1, p.imm, Uncompressed)
    [] p.op = "Lhu" -> new_x16_load_unsigned(p.rd, p.rs1, p.imm, Uncompressed)
    [] p.op = "Lwu" -> new_x32_load_unsigned(p.rd, p.rs1, p.imm, Uncompressed)
    [] p.op = "Ld" -> new_x64_load_signed(p.rd, p.rs1, p.imm, Uncompressed)
    [] p.op = "Sb" -> new_x8_store(p.rs1, p.rs2, p.imm, Uncompressed)
    [] p.op = "Sh" -> new_x16_store(p.rs1, p.rs2, p.imm, Uncompressed)
    [] p.op = "Sw" -> new_x32_store(p.rs1, p.rs2, p.imm, Uncompressed)
    [] p.op = "Sd" -> new_x64_store(p.rs1, p.rs2, p.imm, Uncompressed)

convert_branch_jump(p) ==
  CASE p.op = "Beq" -> from_ic_beq(p)
    [] p.op = "Bne" -> from_ic_bne(p)
    [] p.op = "Blt" -> from_ic_blt(p)
    [] p.op = "Bge" -> from_ic_bge(p)
    [] p.op = "Bltu" -> from_ic_bltu(p)
    [] p.op = "Bgeu" -> from_ic_bgeu(p)
    [] p.op = "Lui" -> new_li(p.rd, p.imm, Uncompressed)
    [] p.op = "Auipc" -> new_add_immediate_to_pc(p.rd, p.imm, Uncompressed)
    [] p.op = "Jal" -> from_ic_jal(p)
    [] p.op = "Jalr" -> from_ic_jalr(p)

convert_amo(p) ==
  CASE p.op = "Lrw" -> new_x32_atomic_load(p.rd, p.rs1, p.aq, p.rl, Uncompressed)
    [] p.op = "Lrd" -> new_x64_atomic_load(p.rd, p.rs1, p.aq, p.rl, Uncompressed)
    [] p.op = "Scw" ->
         new_x32_atomic_store(p.rd, p.rs1, p.rs2, p.aq, p.rl, Uncompressed)
    [] p.op = "Scd" ->
         new_x64_atomic_store(p.rd, p.rs1, p.rs2, p.aq, p.rl, Uncompressed)
    [] p.op = "Amoswapw" ->
         new_x32_atomic_swap(p.rd, p.rs1, p.rs2, p.aq, p.rl, Uncompressed)
    [] p.op = "Amoswapd" ->
         new_x64_atomic_swap(p.rd, p.rs1, p.rs2, p.aq, p.rl, Uncompressed)
    [] p.op = "Amoaddd" ->
         new_x64_atomic_add(p.rd, p.rs1, p.rs2, p.aq, p.rl, Uncompressed)
    [] p.op = "Amomind" ->
         new_x64_atomic_min_signed(p.rd, p.rs1, p.rs2, p.aq, p.rl, Uncompressed)
    [] OTHER -> Instruction(p.op, into(p))

convert_m(p) ==
  CASE p.op = "Rem" -> from_ic_rem(p)
    [] p.op = "Remu" -> from_ic_remu(p)
    [] p.op = "Remw" -> from_ic_remw(p)
    [] p.op = "Remuw" -> from_ic_remuw(p)
    [] p.op = "Div" -> from_ic_div(p)
    [] p.op = "Divu" -> from_ic_divu(p)
    [] p.op = "Divw" -> from_ic_divw(p)
    [] p.op = "Divuw" -> from_ic_divuw(p)
    [] p.op = "Mul" -> from_ic_mul(p)
    [] p.op = "Mulh" -> from_ic_mulh(p)
    [] p.op = "Mulhsu" -> from_ic_mulhsu(p)
    [] p.op = "Mulhu" -> from_ic_mulhu(p)
    [] p.op = "Mulw" -> new_x32_mul(p.rd, p.rs1, p.rs2, Uncompressed)

\* Single and double precision, and Zicsr: the opcode is the instruction's own.
convert_f(p) ==
  Instruction(p.op, IF p.op \in {"Flw", "Fsw"} THEN to_args(p, Uncompressed)
                                               ELSE into_fp(p))

convert_d(p) ==
  Instruction(p.op, IF p.op \in {"Fld", "Fsd"} THEN to_args(p, Uncompressed)
                                               ELSE into_fp(p))

convert_zicsr(p) == Instruction(p.op, into(p))

convert_rv32c(p) ==
  CASE p.op = "CLw" -> new_x32_load_signed(p.rd, p.rs1, p.imm, Compressed)
    [] p.op = "CLwsp" -> new_x32_load_signed(p.rd_rs1, sp, p.imm, Compressed)
    [] p.op = "CSw" -> new_x32_store(p.rs1, p.rs2, p.imm, Compressed)
    [] p.op = "CSwsp" -> new_x32_store(sp, p.rs2, p.imm, Compressed)
    [] p.op = "CJ" -> new_j(p.imm, Compressed)
    [] p.op = "CJr" -> new_jr(p.rs1, Compressed)
    [] p.op = "CJalr" -> new_jalr(ra, p.rs1, Compressed)
    [] p.op = "CBeqz" -> from_ic_cbeqz(p)
    [] p.op = "CBnez" -> from_ic_cbnez(p)
    [] p.op \in {"CLi", "CLui"} -> new_li(p.rd_rs1, p.imm, Compressed)
    [] p.op = "CAddi" -> new_addi(p.rd_rs1, p.rd_rs1, p.imm, Compressed)
    [] p.op = "CAddi16sp" -> new_addi(sp, sp, p.imm, Compressed)
    [] p.op = "CAddi4spn" -> from_ic_caddi4spn(p)
    [] p.op = "CSlli" ->
         new_shift_left_immediate(p.rd_rs1, p.rd_rs1, p.imm, Compressed)
    [] p.op = "CSrli" -> from_ic_csrli(p)
    [] p.op = "CSrai" -> from_ic_csrai(p)
    [] p.op = "CAndi" -> from_ic_candi(p)
    [] p.op = "CMv" -> new_mv(p.rd_rs1, p.rs2, Compressed)
    [] p.op = "CAdd" -> new_add(p.rd_rs1, p.rd_rs1, p.rs2, Compressed)
    [] p.op = "CAnd" -> from_ic_cand(p)
    [] p.op = "CXor" -> from_ic_cxor(p)
    [] p.op = "COr" -> from_ic_cor(p)
    [] p.op = "CSub" -> from_ic_csub(p)
    [] p.op = "CNop" -> new_nop(Compressed)

convert_rv64c(p) ==
  CASE p.op = "CLd" -> new_x64_load_signed(p.rd, p.rs1, p.imm, Compressed)
    [] p.op = "CLdsp" -> new_x64_load_signed(p.rd_rs1, sp, p.imm, Compressed)
    [] p.op = "CSd" -> new_x64_store(p.rs1, p.rs2, p.imm, Compressed)
    [] p.op = "CSdsp" -> new_x64_store(sp, p.rs2, p.imm, Compressed)
    [] p.op = "CAddiw" ->
         new_add_word_immediate(p.rd_rs1, p.rd_rs1, p.imm, Compressed)
    [] p.op = "CAddw" -> from_ic_caddw(p)
    [] p.op = "CSubw" -> from_ic_csubw(p)

convert_dc(p) ==
  Instruction(p.op, IF p.op \in {"CFld", "CFsd"} THEN to_args(p, Compressed)
                                                 ELSE into_c(p))

convert_rest(p) ==
  CASE p.op = "Unknown" -> new_unknown(Uncompressed)
    [] p.op = "UnknownCompressed" -> new_unknown(Compressed)
    [] p.op \in {"Hint", "Wfi"} -> new_nop(Uncompressed)
    [] p.op = "HintCompressed" -> new_nop(Compressed)
    [] p.op = "Ecall" -> new_ecall

\* The instructions of each group, as the match arms list them.
RType == {"Add", "Sub", "Xor", "Or", "And", "Sll", "Srl", "Sra", "Slt", "Sltu",
          "Addw", "Subw", "Sllw", "Srlw", "Sraw"}
IType == {"Addi", "Addiw", "Xori", "Ori", "Andi", "Slli", "Srli", "Srai",
          "Slliw", "Srliw", "Sraiw", "Slti", "Sltiu"}
LoadStore == {"Lb", "Lh", "Lw", "Lbu", "Lhu", "Lwu", "Ld", "Sb", "Sh", "Sw", "Sd"}
BranchJump == {"Beq", "Bne", "Blt", "Bge", "Bltu", "Bgeu", "Lui", "Auipc", "Jal",
               "Jalr"}
Amo == {"Lrw", "Scw", "Amoswapw", "Amoaddw", "Amoxorw", "Amoandw", "Amoorw",
        "Amominw", "Amomaxw", "Amominuw", "Amomaxuw",
        "Lrd", "Scd", "Amoswapd", "Amoaddd", "Amoxord", "Amoandd", "Amoord",
        "Amomind", "Amomaxd", "Amominud", "Amomaxud"}
MulDiv == {"Rem", "Remu", "Remw", "Remuw", "Div", "Divu", "Divw", "Divuw",
           "Mul", "Mulh", "Mulhsu", "Mulhu", "Mulw"}
Float == {"Flw", "Fsw", "Feqs", "Fles", "Flts", "Fadds", "Fsubs", "Fmuls",
          "Fdivs", "Fsqrts", "Fmins", "Fmaxs", "Fsgnjs", "Fsgnjns", "Fsgnjxs",
          "Fmadds", "Fmsubs", "Fnmsubs", "Fnmadds", "FclassS", "FmvXW", "FmvWX",
          "Fcvtsw", "Fcvtswu", "Fcvtsl", "Fcvtslu", "Fcvtws", "Fcvtwus",
          "Fcvtls", "Fcvtlus"}
Double == {"Fld", "Fsd", "Feqd", "Fled", "Fltd", "Faddd", "Fsubd", "Fmuld",
           "Fdivd", "Fsqrtd", "Fmind", "Fmaxd", "Fsgnjd", "Fsgnjnd", "Fsgnjxd",
           "Fcvtds", "Fcvtsd", "Fmaddd", "Fmsubd", "Fnmsubd", "Fnmaddd",
           "FclassD", "Fcvtdw", "Fcvtdwu", "Fcvtdl", "Fcvtdlu", "Fcvtwd",
           "Fcvtwud", "Fcvtld", "Fcvtlud", "FmvXD", "FmvDX"}
Zicsr == {"Csrrw", "Csrrs", "Csrrc", "Csrrwi", "Csrrsi", "Csrrci"}
Rv64C == {"CLd", "CLdsp", "CSd", "CSdsp", "CAddiw", "CAddw", "CSubw"}
Rv64DC == {"CFld", "CFldsp", "CFsd", "CFsdsp"}
Rest == {"Unknown", "UnknownCompressed", "Hint", "HintCompressed", "Wfi", "Ecall"}

convert(p) ==
  CASE p.op \in RType -> convert_r_type(p)
    [] p.op \in IType -> convert_i_type(p)
    [] p.op \in LoadStore -> convert_load_store(p)
    [] p.op \in BranchJump -> convert_branch_jump(p)
    [] p.op \in Amo -> convert_amo(p)
    [] p.op \in MulDiv -> convert_m(p)
    [] p.op \in Float -> convert_f(p)
    [] p.op \in Double -> convert_d(p)
    [] p.op \in Zicsr -> convert_zicsr(p)
    [] p.op \in Rv64C -> convert_rv64c(p)
    [] p.op \in Rv64DC -> convert_dc(p)
    [] p.op \in Rest -> convert_rest(p)
    [] OTHER -> convert_rv32c(p)

=============================================================================
