----------------------------- MODULE JitContext -----------------------------
(***************************************************************************)
(* The context of generated code (the trait ICB for the JIT's Builder):    *)
(* each operation as the Cranelift instructions it emits.  What those      *)
(* compute is Cranelift's, and is given first.                             *)
(***************************************************************************)
EXTENDS InstrHart, Bitwise

iadd(x, y, w) == (x + y) % 2^w
isub(x, y, w) == (x - y) % 2^w
imul(x, y, w) == (Signed(x, w) * Signed(y, w)) % 2^w
ineg(x, w) == isub(0, x, w)
band(x, y) == x & y
bor(x, y) == x | y
bxor(x, y) == x ^^ y

\* Division by zero traps; so does a quotient that does not fit, but not the
\* remainder that goes with it.
udiv(x, y, w) == IF y = 0 THEN Trap ELSE x \div y
urem(x, y, w) == IF y = 0 THEN Trap ELSE x % y
sdiv(x, y, w) ==
  IF y = 0 \/ Quotient(Signed(x, w), Signed(y, w)) = 2^(w - 1) THEN Trap
  ELSE Quotient(Signed(x, w), Signed(y, w)) % 2^w
srem(x, y, w) ==
  IF y = 0 THEN Trap
  ELSE (Signed(x, w) - Signed(y, w) * Quotient(Signed(x, w), Signed(y, w))) % 2^w

smin(x, y, w) == IF Signed(x, w) < Signed(y, w) THEN x ELSE y

\* The amount is taken modulo the width.
ishl(x, n, w) == Shifted("Left", x, n % w, w)
ushr(x, n, w) == Shifted("RightUnsigned", x, n % w, w)
sshr(x, n, w) == Shifted("RightSigned", x, n % w, w)

icmp(cc, x, y, w) ==
  CASE cc = "Equal" -> x = y
    [] cc = "NotEqual" -> x # y
    [] cc = "UnsignedLessThan" -> x < y
    [] cc = "UnsignedGreaterThanOrEqual" -> x >= y
    [] cc = "SignedLessThan" -> Signed(x, w) < Signed(y, w)
    [] cc = "SignedLessThanOrEqual" -> Signed(x, w) <= Signed(y, w)
    [] cc = "SignedGreaterThan" -> Signed(x, w) > Signed(y, w)
    [] cc = "SignedGreaterThanOrEqual" -> Signed(x, w) >= Signed(y, w)

iconst(w, imm) == imm % 2^w
ireduce(w, x) == x % 2^w
uextend(x) == x
sextend(w, x, from) == IF x = Trap THEN Trap ELSE Signed(x, from) % 2^w
isplit(w, x) == <<x % 2^w, x \div 2^w>>

-----------------------------------------------------------------------------
(* Arithmetic at width w, for X64 and X32 alike.                           *)

jit_add(x, y, w) == iadd(x, y, w)
jit_sub(x, y, w) == isub(x, y, w)
jit_and(x, y) == band(x, y)
jit_or(x, y) == bor(x, y)
jit_xor(x, y) == bxor(x, y)
jit_mul(x, y, w) == imul(x, y, w)
jit_div_unsigned(x, y, w) == udiv(x, y, w)
jit_div_signed(x, y, w) == sdiv(x, y, w)
jit_negate(x, w) == ineg(x, w)
jit_modulus_unsigned(x, y, w) == urem(x, y, w)
jit_modulus_signed(x, y, w) == srem(x, y, w)
jit_min_signed(x, y, w) == smin(x, y, w)

jit_shift(kind, x, amount, w) ==
  CASE kind = "Left" -> ishl(x, amount, w)
    [] kind = "RightUnsigned" -> ushr(x, amount, w)
    [] kind = "RightSigned" -> sshr(x, amount, w)

IntCC == [Equal |-> "Equal", NotEqual |-> "NotEqual",
          LessThanSigned |-> "SignedLessThan", LessThanUnsigned |-> "UnsignedLessThan",
          LessThanOrEqualSigned |-> "SignedLessThanOrEqual",
          GreaterThanSigned |-> "SignedGreaterThan",
          GreaterThanOrEqualSigned |-> "SignedGreaterThanOrEqual",
          GreaterThanOrEqualUnsigned |-> "UnsignedGreaterThanOrEqual"]

jit_compare(x, y, predicate, w) == icmp(IntCC[predicate], x, y, w)

jit_narrow(x) == ireduce(WLEN, x)
jit_extend_signed(x) == sextend(XLEN, x, WLEN)
jit_extend_unsigned(x) == uextend(x)

jit_mul_high(x, y, type) ==
  LET lhs == IF type = "Unsigned" THEN uextend(x) ELSE sextend(2 * XLEN, x, XLEN)
      rhs == IF type = "Signed" THEN sextend(2 * XLEN, y, XLEN) ELSE uextend(y) IN
  isplit(XLEN, imul(lhs, rhs, 2 * XLEN))[2]

jit_xvalue_of_imm(imm) == iconst(XLEN, imm)

-----------------------------------------------------------------------------
(* Calls back into the state.  A value narrower than a register is reduced *)
(* before it is stored, and extended after it is loaded.                   *)

jit_memory_store(h, addr, v, n) ==
  memory_write(h, addr, IF n = 8 THEN v ELSE ireduce(n * BYTE, v), n)

jit_memory_load(h, addr, n, signed) ==
  LET out == memory_read(h, addr, n) IN
  IF out.err # "none" \/ n = 8 THEN out
  ELSE OkWith(h, IF signed THEN sextend(XLEN, out.val, n * BYTE) ELSE uextend(out.val))

\* In the branch that raises, the reservation is dropped if it is to be.
AtomicAccessGuard(h, addr, reset) ==
  Err(IF reset THEN reset_reservation_set(h) ELSE h, "StoreAMOAccessFault", addr)

jit_atomic_access_fault_guard(h, addr, n, reset) ==
  IF jit_compare(jit_modulus_unsigned(addr, jit_xvalue_of_imm(n), XLEN),
                 jit_xvalue_of_imm(0), "NotEqual", XLEN)
  THEN AtomicAccessGuard(h, addr, reset)
  ELSE Ok(h)

=============================================================================
