---------------------------- MODULE InstrContext ----------------------------
(***************************************************************************)
(* The interface that the instructions are written against, once (the      *)
(* trait ICB), and the two contexts they run in: the interpreter (JIT =    *)
(* FALSE), which computes with Rust integers, and the code the JIT         *)
(* generates (JIT = TRUE), which computes with Cranelift's.                *)
(***************************************************************************)
EXTENDS JitContext

CONSTANT JIT   \* the context: generated code, or the interpreter

-----------------------------------------------------------------------------
(* Arithmetic at width w, for XValue and XValue32 alike.                   *)

add(x, y, w) == IF JIT THEN jit_add(x, y, w) ELSE (x + y) % 2^w
sub(x, y, w) == IF JIT THEN jit_sub(x, y, w) ELSE (x - y) % 2^w
mul(x, y, w) == IF JIT THEN jit_mul(x, y, w) ELSE (x * y) % 2^w
and(x, y) == IF JIT THEN jit_and(x, y) ELSE x & y
or(x, y) == IF JIT THEN jit_or(x, y) ELSE x | y
xor(x, y) == IF JIT THEN jit_xor(x, y) ELSE x ^^ y
negate(x, w) == IF JIT THEN jit_negate(x, w) ELSE (0 - x) % 2^w

\* Division by zero panics, and so does -2^(w-1) / -1.
div_unsigned(x, y, w) ==
  CASE JIT -> jit_div_unsigned(x, y, w)
    [] ~JIT /\ y = 0 -> Trap
    [] ~JIT /\ y # 0 -> x \div y

div_signed(x, y, w) ==
  LET a == Signed(x, w)
      b == Signed(y, w)
      panics == b = 0 \/ (b = -1 /\ a = 0 - 2^(w - 1)) IN
  CASE JIT -> jit_div_signed(x, y, w)
    [] ~JIT /\ panics -> Trap
    [] ~JIT /\ ~panics -> Quotient(a, b) % 2^w

modulus_unsigned(x, y, w) ==
  CASE JIT -> jit_modulus_unsigned(x, y, w)
    [] ~JIT /\ y = 0 -> Trap
    [] ~JIT /\ y # 0 -> x % y

\* wrapping_rem: the remainder by -1 is 0, whatever the dividend.
modulus_signed(x, y, w) ==
  LET a == Signed(x, w)
      b == Signed(y, w) IN
  CASE JIT -> jit_modulus_signed(x, y, w)
    [] ~JIT /\ b = 0 -> Trap
    [] ~JIT /\ b # 0 -> (a - b * Quotient(a, b)) % 2^w

min_signed(x, y, w) ==
  CASE JIT -> jit_min_signed(x, y, w)
    [] ~JIT /\ Signed(x, w) <= Signed(y, w) -> x
    [] ~JIT /\ Signed(x, w) > Signed(y, w) -> y

\* Rust panics on an amount that is not below the width.
shift(kind, x, amount, w) ==
  CASE JIT -> jit_shift(kind, x, amount, w)
    [] ~JIT /\ amount >= w -> Trap
    [] ~JIT /\ amount < w -> Shifted(kind, x, amount, w)

compare(x, y, predicate, w) ==
  LET a == Signed(x, w)
      b == Signed(y, w) IN
  CASE JIT -> jit_compare(x, y, predicate, w)
    [] ~JIT /\ predicate = "Equal" -> x = y
    [] ~JIT /\ predicate = "NotEqual" -> x # y
    [] ~JIT /\ predicate = "LessThanSigned" -> a < b
    [] ~JIT /\ predicate = "LessThanUnsigned" -> x < y
    [] ~JIT /\ predicate = "LessThanOrEqualSigned" -> a <= b
    [] ~JIT /\ predicate = "GreaterThanSigned" -> a > b
    [] ~JIT /\ predicate = "GreaterThanOrEqualSigned" -> a >= b
    [] ~JIT /\ predicate = "GreaterThanOrEqualUnsigned" -> x >= y

\* Between the two widths.  A trap has no value to convert.
narrow(x) == IF JIT THEN jit_narrow(x) ELSE x % 2^WLEN
extend_signed(x) ==
  CASE JIT -> jit_extend_signed(x)
    [] ~JIT /\ x = Trap -> Trap
    [] ~JIT /\ x # Trap -> Signed(x, WLEN) % 2^XLEN
extend_unsigned(x) == IF JIT THEN jit_extend_unsigned(x) ELSE x

mul_high(x, y, type) ==
  LET a == IF type = "Unsigned" THEN x ELSE Signed(x, XLEN)
      b == IF type = "Signed" THEN Signed(y, XLEN) ELSE y IN
  IF JIT THEN jit_mul_high(x, y, type) ELSE ((a * b) \div 2^XLEN) % 2^XLEN

xvalue_of_imm(imm) == IF JIT THEN jit_xvalue_of_imm(imm) ELSE imm % 2^XLEN
xvalue_from_bool(b) == IF b THEN 1 ELSE 0

-----------------------------------------------------------------------------
(* Updates of the program counter, and exceptions.                         *)

NextPc(width) == [update |-> "Next", by |-> width]
SetPc(addr) == [update |-> "Set", to |-> addr]
\* In generated code a taken branch leaves the block, at an offset to pc.
ExitBy(offset) == [update |-> "Exit", by |-> offset]

branch(h, predicate, offset, width) ==
  CASE ~predicate -> NextPc(width)
    [] predicate /\ JIT -> ExitBy(offset)
    [] predicate /\ ~JIT -> SetPc(add(pc_read(h), offset, XLEN))

err_illegal_instruction(h) == Err(h, "IllegalInstruction", 0)
ecall(h) == Err(h, "EnvCall", 0)

-----------------------------------------------------------------------------
(* Memory, and the reservation set.                                        *)

main_memory_load(h, addr, n, signed) ==
  LET out == memory_read(h, addr, n) IN
  CASE JIT -> jit_memory_load(h, addr, n, signed)
    [] ~JIT /\ out.err = "none" /\ signed -> OkWith(h, Signed(out.val, n * BYTE) % 2^XLEN)
    [] ~JIT /\ ~(out.err = "none" /\ signed) -> out

main_memory_store(h, addr, v, n) ==
  IF JIT THEN jit_memory_store(h, addr, v, n)
         ELSE memory_write(h, addr, v % 2^(n * BYTE), n)

\* An atomic access must be aligned to its width; reset says whether a fault
\* also drops the reservation.
atomic_access_fault_guard(h, addr, n, reset) ==
  CASE JIT -> jit_atomic_access_fault_guard(h, addr, n, reset)
    [] ~JIT /\ addr % n = 0 -> Ok(h)
    [] ~JIT /\ addr % n # 0 ->
         Err(IF reset THEN reset_reservation_set(h) ELSE h, "StoreAMOAccessFault", addr)

=============================================================================
