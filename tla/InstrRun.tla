------------------------------ MODULE InstrRun ------------------------------
(***************************************************************************)
(* The instructions themselves, one operator per function, over the        *)
(* interface of InstrContext: integer arithmetic, jumps and branches, loads *)
(* and stores, and atomics.                                                *)
(***************************************************************************)
EXTENDS InstrContext

-----------------------------------------------------------------------------
(* Integers.  Registers are read and written as known not to be x0 (nz) or *)
(* not, as each function's signature says.                                 *)

run_neg(h, rd, rs2) ==
  xregister_write_nz(h, rd, negate(xregister_read_nz(h, rs2), XLEN))
run_mv(h, rd, rs2) == xregister_write_nz(h, rd, xregister_read_nz(h, rs2))
run_nop(h) == h

run_add(h, rs1, rs2, rd) ==
  xregister_write_nz(h, rd,
    add(xregister_read_nz(h, rs1), xregister_read_nz(h, rs2), XLEN))
run_sub(h, rs1, rs2, rd) ==
  xregister_write_nz(h, rd,
    sub(xregister_read_nz(h, rs1), xregister_read_nz(h, rs2), XLEN))
run_and(h, rs1, rs2, rd) ==
  xregister_write_nz(h, rd,
    and(xregister_read_nz(h, rs1), xregister_read_nz(h, rs2)))
run_or(h, rs1, rs2, rd) ==
  xregister_write_nz(h, rd,
    or(xregister_read_nz(h, rs1), xregister_read_nz(h, rs2)))
run_x64_xor(h, rs1, rs2, rd) ==
  xregister_write_nz(h, rd,
    xor(xregister_read_nz(h, rs1), xregister_read_nz(h, rs2)))
run_mul(h, rs1, rs2, rd) ==
  xregister_write_nz(h, rd,
    mul(xregister_read_nz(h, rs1), xregister_read_nz(h, rs2), XLEN))

\* The sum or difference at full width, then narrowed and sign-extended.
run_add_word(h, rs1, rs2, rd) ==
  xregister_write_nz(h, rd, extend_signed(narrow(
    add(xregister_read(h, rs1), xregister_read(h, rs2), XLEN))))
run_sub_word(h, rs1, rs2, rd) ==
  xregister_write_nz(h, rd, extend_signed(narrow(
    sub(xregister_read(h, rs1), xregister_read(h, rs2), XLEN))))
run_add_word_immediate(h, imm, rs1, rd) ==
  xregister_write_nz(h, rd, extend_signed(narrow(
    add(xregister_read(h, rs1), xvalue_of_imm(imm), XLEN))))

run_addi(h, imm, rs1, rd) ==
  xregister_write_nz(h, rd, add(xregister_read_nz(h, rs1), xvalue_of_imm(imm), XLEN))
run_andi(h, imm, rs1, rd) ==
  xregister_write_nz(h, rd, and(xregister_read_nz(h, rs1), xvalue_of_imm(imm)))
run_x64_or_immediate(h, imm, rs1, rd) ==
  xregister_write_nz(h, rd, or(xregister_read_nz(h, rs1), xvalue_of_imm(imm)))
run_x64_xor_immediate(h, imm, rs1, rd) ==
  xregister_write_nz(h, rd, xor(xregister_read_nz(h, rs1), xvalue_of_imm(imm)))

SetLessThan(h, rd, x, y, predicate) ==
  xregister_write_nz(h, rd, xvalue_from_bool(compare(x, y, predicate, XLEN)))

run_set_less_than_immediate_signed(h, imm, rs1, rd) ==
  SetLessThan(h, rd, xregister_read(h, rs1), xvalue_of_imm(imm), "LessThanSigned")
run_set_less_than_immediate_unsigned(h, imm, rs1, rd) ==
  SetLessThan(h, rd, xregister_read(h, rs1), xvalue_of_imm(imm), "LessThanUnsigned")
run_set_less_than_signed(h, rs1, rs2, rd) ==
  SetLessThan(h, rd, xregister_read(h, rs1), xregister_read(h, rs2), "LessThanSigned")
run_set_less_than_unsigned(h, rs1, rs2, rd) ==
  SetLessThan(h, rd, xregister_read(h, rs1), xregister_read(h, rs2), "LessThanUnsigned")

run_x32_mul(h, rs1, rs2, rd) ==
  xregister_write_nz(h, rd, extend_signed(
    mul(narrow(xregister_read(h, rs1)), narrow(xregister_read(h, rs2)), WLEN)))
run_x64_mul_high(h, rs1, rs2, rd, type) ==
  xregister_write_nz(h, rd,
    mul_high(xregister_read_nz(h, rs1), xregister_read_nz(h, rs2), type))

\* A branch_merge on the divisor keeps the division away from its traps.
DivSigned(x, y, w) ==
  IF y = 0 THEN 2^w - 1
  ELSE IF y = 2^w - 1 /\ x = 2^(w - 1) THEN x
  ELSE div_signed(x, y, w)
DivUnsigned(x, y, w) == IF y = 0 THEN 2^w - 1 ELSE div_unsigned(x, y, w)
RemSigned(x, y, w) ==
  IF y = 0 THEN x
  ELSE IF y = 2^w - 1 /\ x = 2^(w - 1) THEN 0
  ELSE modulus_signed(x, y, w)
RemUnsigned(x, y, w) == IF y = 0 THEN x ELSE modulus_unsigned(x, y, w)

run_x64_div_signed(h, rs1, rs2, rd) ==
  xregister_write_nz(h, rd,
    DivSigned(xregister_read(h, rs1), xregister_read(h, rs2), XLEN))
run_x64_div_unsigned(h, rs1, rs2, rd) ==
  xregister_write_nz(h, rd,
    DivUnsigned(xregister_read(h, rs1), xregister_read(h, rs2), XLEN))
run_x32_div_signed(h, rs1, rs2, rd) ==
  xregister_write_nz(h, rd, extend_signed(
    DivSigned(narrow(xregister_read(h, rs1)), narrow(xregister_read(h, rs2)), WLEN)))
run_x32_div_unsigned(h, rs1, rs2, rd) ==
  xregister_write_nz(h, rd, extend_signed(
    DivUnsigned(narrow(xregister_read(h, rs1)), narrow(xregister_read(h, rs2)), WLEN)))
run_x64_rem_signed(h, rs1, rs2, rd) ==
  xregister_write_nz(h, rd,
    RemSigned(xregister_read(h, rs1), xregister_read(h, rs2), XLEN))
run_x64_rem_unsigned(h, rs1, rs2, rd) ==
  xregister_write_nz(h, rd,
    RemUnsigned(xregister_read(h, rs1), xregister_read(h, rs2), XLEN))
run_x32_rem_signed(h, rs1, rs2, rd) ==
  xregister_write_nz(h, rd, extend_signed(
    RemSigned(narrow(xregister_read(h, rs1)), narrow(xregister_read(h, rs2)), WLEN)))
run_x32_rem_unsigned(h, rs1, rs2, rd) ==
  xregister_write_nz(h, rd, extend_signed(
    RemUnsigned(narrow(xregister_read(h, rs1)), narrow(xregister_read(h, rs2)), WLEN)))

\* Only the amount taken from a register, and the word forms, are masked.
run_shift(h, kind, rs1, rs2, rd) ==
  xregister_write_nz(h, rd,
    shift(kind, xregister_read_nz(h, rs1),
          and(xregister_read_nz(h, rs2), XLEN - 1), XLEN))
run_shift_immediate(h, kind, imm, rs1, rd) ==
  xregister_write_nz(h, rd,
    shift(kind, xregister_read_nz(h, rs1), xvalue_of_imm(imm), XLEN))
run_x32_shift(h, kind, rs1, rs2, rd) ==
  xregister_write_nz(h, rd, extend_signed(
    shift(kind, narrow(xregister_read(h, rs1)),
          narrow(and(xregister_read(h, rs2), WLEN - 1)), WLEN)))
run_x32_shift_immediate(h, kind, imm, rs1, rd) ==
  xregister_write_nz(h, rd, extend_signed(
    shift(kind, narrow(xregister_read_nz(h, rs1)), and(imm, WLEN - 1), WLEN)))

-----------------------------------------------------------------------------
(* Jumps and branches.  A target's lowest bit is cleared.                  *)

Even(addr) == addr - (addr % 2)

run_j(h, imm) == SetPc(add(pc_read(h), xvalue_of_imm(imm), XLEN))
run_jr(h, rs1) == SetPc(Even(xregister_read_nz(h, rs1)))
run_jr_imm(h, imm, rs1) ==
  SetPc(Even(add(xregister_read_nz(h, rs1), xvalue_of_imm(imm), XLEN)))
run_j_absolute(h, imm) == SetPc(Even(xvalue_of_imm(imm)))

\* The linking jumps yield the hart and the update.  The return address is
\* written after the target has been read, for rd may be rs1.
Link(h, rd, width) == xregister_write_nz(h, rd, add(pc_read(h), width, XLEN))

run_jal(h, imm, rd, width) == [h |-> Link(h, rd, width), pcu |-> run_j(h, imm)]
run_jalr(h, rs1, rd, width) == [h |-> Link(h, rd, width), pcu |-> run_jr(h, rs1)]
run_jalr_imm(h, imm, rs1, rd, width) ==
  [h |-> Link(h, rd, width), pcu |-> run_jr_imm(h, imm, rs1)]
run_jalr_absolute(h, imm, rd, width) ==
  [h |-> Link(h, rd, width), pcu |-> run_j_absolute(h, imm)]

run_add_immediate_to_pc(h, imm, rd) ==
  xregister_write_nz(h, rd, add(pc_read(h), xvalue_of_imm(imm), XLEN))

run_branch(h, predicate, imm, rs1, rs2, width) ==
  branch(h, compare(xregister_read_nz(h, rs1), xregister_read_nz(h, rs2), predicate, XLEN),
         xvalue_of_imm(imm), width)
run_branch_compare_zero(h, predicate, imm, rs1, width) ==
  branch(h, compare(xregister_read_nz(h, rs1), 0, predicate, XLEN),
         xvalue_of_imm(imm), width)

-----------------------------------------------------------------------------
(* Loads and stores of n bytes.                                            *)

run_li(h, imm, rd) == xregister_write_nz(h, rd, xvalue_of_imm(imm))

run_store(h, imm, rs1, rs2, n) ==
  main_memory_store(h, add(xregister_read(h, rs1), xvalue_of_imm(imm), XLEN),
                    xregister_read(h, rs2), n)

run_load(h, imm, rs1, rd, n, signed) ==
  LET loaded == main_memory_load(h,
        add(xregister_read(h, rs1), xvalue_of_imm(imm), XLEN), n, signed) IN
  IF loaded.err = "none" THEN Ok(xregister_write(h, rd, loaded.val)) ELSE loaded

-----------------------------------------------------------------------------
(* Atomics.  Every one of them guards the alignment, then loads; a failure *)
(* ends it with that exception.                                            *)

SC_SUCCESS == 0
SC_FAILURE == 1

GuardedLoad(h, rs1, n) ==
  LET addr == xregister_read(h, rs1)
      guard == atomic_access_fault_guard(h, addr, n, FALSE) IN
  IF guard.err = "none" THEN main_memory_load(h, addr, n, TRUE) ELSE guard

\* Read, write the old value to rd, and only then store: a store that faults
\* leaves rd written.
ReadModifyWrite(h, rs1, rd, n, loaded, new) ==
  IF loaded.err = "none"
  THEN main_memory_store(xregister_write(h, rd, loaded.val),
                         xregister_read(h, rs1), new, n)
  ELSE loaded

\* The binary operation of an AMO, at width w, on unsigned representations.
AmoOp(op, x, y, w) ==
  CASE op = "add" -> add(x, y, w)
    [] op = "xor" -> xor(x, y)
    [] op = "and" -> and(x, y)
    [] op = "or" -> or(x, y)
    [] op = "min" -> min_signed(x, y, w)
    [] op = "max" -> IF Signed(x, w) >= Signed(y, w) THEN x ELSE y
    [] op = "minu" -> IF x <= y THEN x ELSE y
    [] op = "maxu" -> IF x >= y THEN x ELSE y

run_amo(h, rs1, rs2, rd, op, n) ==
  LET w == n * BYTE
      loaded == GuardedLoad(h, rs1, n) IN
  ReadModifyWrite(h, rs1, rd, n, loaded,
    AmoOp(op, loaded.val % 2^w, xregister_read(h, rs2) % 2^w, w))

run_amo_w(h, rs1, rs2, rd, op) == run_amo(h, rs1, rs2, rd, op, 4)
run_amo_d(h, rs1, rs2, rd, op) == run_amo(h, rs1, rs2, rd, op, 8)

run_amoaddw(h, rs1, rs2, rd) == run_amo_w(h, rs1, rs2, rd, "add")
run_amoxorw(h, rs1, rs2, rd) == run_amo_w(h, rs1, rs2, rd, "xor")
run_amoandw(h, rs1, rs2, rd) == run_amo_w(h, rs1, rs2, rd, "and")
run_amoorw(h, rs1, rs2, rd) == run_amo_w(h, rs1, rs2, rd, "or")
run_amominw(h, rs1, rs2, rd) == run_amo_w(h, rs1, rs2, rd, "min")
run_amomaxw(h, rs1, rs2, rd) == run_amo_w(h, rs1, rs2, rd, "max")
run_amominuw(h, rs1, rs2, rd) == run_amo_w(h, rs1, rs2, rd, "minu")
run_amomaxuw(h, rs1, rs2, rd) == run_amo_w(h, rs1, rs2, rd, "maxu")
run_amoxord(h, rs1, rs2, rd) == run_amo_d(h, rs1, rs2, rd, "xor")
run_amoandd(h, rs1, rs2, rd) == run_amo_d(h, rs1, rs2, rd, "and")
run_amoord(h, rs1, rs2, rd) == run_amo_d(h, rs1, rs2, rd, "or")
run_amomaxd(h, rs1, rs2, rd) == run_amo_d(h, rs1, rs2, rd, "max")
run_amominud(h, rs1, rs2, rd) == run_amo_d(h, rs1, rs2, rd, "minu")
run_amomaxud(h, rs1, rs2, rd) == run_amo_d(h, rs1, rs2, rd, "maxu")

\* The two that the JIT can lower as well.
run_x64_atomic(h, rs1, rs2, rd, op) ==
  LET loaded == GuardedLoad(h, rs1, 8) IN
  ReadModifyWrite(h, rs1, rd, 8, loaded,
    AmoOp(op, loaded.val, xregister_read(h, rs2), XLEN))
run_x64_atomic_add(h, rs1, rs2, rd) == run_x64_atomic(h, rs1, rs2, rd, "add")
run_x64_atomic_min_signed(h, rs1, rs2, rd) == run_x64_atomic(h, rs1, rs2, rd, "min")

run_atomic_load(h, rs1, rd, n) ==
  LET loaded == GuardedLoad(h, rs1, n)
      reserved == reservation_set_write(h, reservation_set_align_address(xregister_read(h, rs1))) IN
  IF loaded.err = "none" THEN Ok(xregister_write(reserved, rd, loaded.val))
                         ELSE loaded

\* Mutant: a reservation of another address stays
test_and_unset_reservation_set_Kept(h, addr) ==
  [h |-> IF reservation_set_align_address(addr) = reservation_set_read(h)
         THEN reset_reservation_set(h) ELSE h,
   valid |-> reservation_set_align_address(addr) = reservation_set_read(h)]

\* Whatever the outcome, the reservation is gone afterwards.
test_and_unset_reservation_set(h, addr) ==
  [h |-> reset_reservation_set(h),
   valid |-> /\ reservation_set_read(h) # UNSET_VALUE
             /\ reservation_set_align_address(addr) = reservation_set_read(h)]

run_atomic_store(h, rs1, rs2, rd, n) ==
  LET addr == xregister_read(h, rs1)
      guard == atomic_access_fault_guard(h, addr, n, TRUE)
      test == test_and_unset_reservation_set(h, addr) IN
  CASE guard.err # "none" -> guard
    [] guard.err = "none" /\ test.valid ->
         main_memory_store(xregister_write(test.h, rd, SC_SUCCESS), addr,
                           xregister_read(h, rs2), n)
    [] guard.err = "none" /\ ~test.valid -> Ok(xregister_write(test.h, rd, SC_FAILURE))

run_atomic_swap(h, rs1, rs2, rd, n) ==
  ReadModifyWrite(h, rs1, rd, n, GuardedLoad(h, rs1, n), xregister_read(h, rs2))

run_x32_atomic_load(h, rs1, rs2, rd) == run_atomic_load(h, rs1, rd, 4)
run_x64_atomic_load(h, rs1, rs2, rd) == run_atomic_load(h, rs1, rd, 8)
run_x32_atomic_store(h, rs1, rs2, rd) == run_atomic_store(h, rs1, rs2, rd, 4)
run_x64_atomic_store(h, rs1, rs2, rd) == run_atomic_store(h, rs1, rs2, rd, 8)
run_x32_atomic_swap(h, rs1, rs2, rd) == run_atomic_swap(h, rs1, rs2, rd, 4)
run_x64_atomic_swap(h, rs1, rs2, rd) == run_atomic_swap(h, rs1, rs2, rd, 8)

=============================================================================
