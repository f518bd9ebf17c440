----------------------------- MODULE InstrFloat -----------------------------
(***************************************************************************)
(* Control and status registers, and floating point.  fflags and frm are   *)
(* shadows of fields of fcsr; the counters are separate registers, all     *)
(* read-only, and are one register here.                                   *)
(*                                                                         *)
(* Of floating point: what surrounds the arithmetic.  The arithmetic       *)
(* itself is a library's (rustc_apfloat, ieee_apsqrt): an operation asks   *)
(* it for a result, and lib, a status and a value, is what it answers, any *)
(* answer.  Classification, comparison and sign are exact.  A format has   *)
(* len bits: a sign, an exponent, and man bits of mantissa.                *)
(***************************************************************************)
EXTENDS InstrContext, Sequences

CONSTANTS MAN32,   \* mantissa bits of a single, 23 in the machine
          MAN64    \* mantissa bits of a double, 52 in the machine

fflags == 1
frm == 2
fcsr == 3
Counters == 3072 .. 3103      \* cycle, time, instret, hpmcounter3 .. 31

CSRegister == {fflags, frm, fcsr} \cup Counters

is_read_only(reg) == (reg \div 1024) % 4 = 3

\* The register that holds the value of another.
RootCSRegister(reg) == IF reg \in Counters THEN "counter" ELSE "fcsr"

default_value(root) == 0

FRM_SHIFT == 5
FRM_MASK == 224
FFLAGS_MASK == 31
FCSR_MASK == 255

check_write(reg) == ~is_read_only(reg)

\* No register has reserved (WPRI), WARL or WLRL fields: every value is legal.
make_value_writable(reg, value) == value

\* The new value of the root, when value is written to one of its shadows.
transform_write(csr, reg, value) ==
  CASE reg = fcsr -> value & FCSR_MASK
    [] reg = frm -> ((value * 2^FRM_SHIFT) & FRM_MASK) | (csr["fcsr"] & FFLAGS_MASK)
    [] reg = fflags -> (value & FFLAGS_MASK) | (csr["fcsr"] & FRM_MASK)
    [] OTHER -> value

transform_read(reg, root) ==
  CASE reg = fcsr -> root & FCSR_MASK
    [] reg = frm -> (root & FRM_MASK) \div 2^FRM_SHIFT
    [] reg = fflags -> root & FFLAGS_MASK
    [] OTHER -> root

csr_read(h, reg) == transform_read(reg, h.csr[RootCSRegister(reg)])

csr_write(h, reg, value) ==
  [h EXCEPT !.csr[RootCSRegister(reg)] =
     transform_write(h.csr, reg, make_value_writable(reg, value))]

\* Operations that write also yield the value before.
replace(h, reg, value) == [h |-> csr_write(h, reg, value), old |-> csr_read(h, reg)]

set_bits(h, reg, bits) ==
  [h |-> csr_write(h, reg, csr_read(h, reg) | bits), old |-> csr_read(h, reg)]

clear_bits(h, reg, bits) ==
  LET old == csr_read(h, reg) IN
  [h |-> csr_write(h, reg, old - (old & bits)), old |-> old]

-----------------------------------------------------------------------------
(* Zicsr.                                                                  *)

\* With rd = x0 the register is not read.
csr_replace(h, csr, value, rd) ==
  LET replaced == replace(h, csr, value) IN
  CASE ~check_write(csr) -> err_illegal_instruction(h)
    [] check_write(csr) /\ rd = x0 -> Ok(csr_write(h, csr, value))
    [] check_write(csr) /\ rd # x0 -> Ok(xregister_write(replaced.h, rd, replaced.old))

run_csrrw(h, csr, rs1, rd) == csr_replace(h, csr, xregister_read(h, rs1), rd)
run_csrrwi(h, csr, imm, rd) == csr_replace(h, csr, imm & 31, rd)

\* With nothing to set or clear the register is not written, so that it may
\* be a read-only one.
ReadOnly(h, csr, rd) == Ok(xregister_write(h, rd, csr_read(h, csr)))
Updated(h, csr, rd, update) ==
  IF check_write(csr) THEN Ok(xregister_write(update.h, rd, update.old))
                      ELSE err_illegal_instruction(h)

run_csrrs(h, csr, rs1, rd) ==
  IF rs1 = x0 THEN ReadOnly(h, csr, rd)
  ELSE Updated(h, csr, rd, set_bits(h, csr, xregister_read(h, rs1)))
run_csrrsi(h, csr, imm, rd) ==
  IF imm & 31 = 0 THEN ReadOnly(h, csr, rd)
  ELSE Updated(h, csr, rd, set_bits(h, csr, imm & 31))
run_csrrc(h, csr, rs1, rd) ==
  IF rs1 = x0 THEN ReadOnly(h, csr, rd)
  ELSE Updated(h, csr, rd, clear_bits(h, csr, xregister_read(h, rs1)))
run_csrrci(h, csr, imm, rd) ==
  IF imm & 31 = 0 THEN ReadOnly(h, csr, rd)
  ELSE Updated(h, csr, rd, clear_bits(h, csr, imm & 31))

-----------------------------------------------------------------------------
(* Formats.                                                                *)

Single == [len |-> WLEN, man |-> MAN32]
Double == [len |-> XLEN, man |-> MAN64]

Sign(F, v) == v \div 2^(F.len - 1)
Magnitude(F, v) == v % 2^(F.len - 1)
Infinity(F) == 2^(F.len - 1) - 2^F.man

is_negative(F, v) == Sign(F, v) = 1
is_nan(F, v) == Magnitude(F, v) > Infinity(F)
is_signaling(F, v) == is_nan(F, v) /\ (v \div 2^(F.man - 1)) % 2 = 0
is_infinite(F, v) == Magnitude(F, v) = Infinity(F)
is_zero(F, v) == Magnitude(F, v) = 0
is_denormal(F, v) == Magnitude(F, v) \in 1 .. 2^F.man - 1
is_normal(F, v) == Magnitude(F, v) \in 2^F.man .. Infinity(F) - 1
neg(F, v) == Magnitude(F, v) + (1 - Sign(F, v)) * 2^(F.len - 1)

\* The number's place among those that are no NaN; both zeroes are equal.
Rank(F, v) == IF is_negative(F, v) THEN 0 - Magnitude(F, v) ELSE Magnitude(F, v)
\* The same with -0 below +0, as minimum and maximum have it.
StrictRank(F, v) == IF is_negative(F, v) THEN 0 - Magnitude(F, v) - 1 ELSE Magnitude(F, v)

canonical_nan(F) == Infinity(F) + 2^(F.man - 1)
canonicalise(F, v) == IF is_nan(F, v) THEN canonical_nan(F) ELSE v

-----------------------------------------------------------------------------
(* A register holds a double, or a single below a half of ones; a single   *)
(* that is not boxed in this way reads as a NaN.                           *)

\* Mutant: the upper half is not set
f32_to_fvalue_Unboxed(v) == v

f32_to_fvalue(v) == v + 2^XLEN - 2^WLEN

fvalue_to_f32_bits(v) ==
  IF v \div 2^WLEN = 2^(XLEN - WLEN) - 1 THEN v % 2^WLEN ELSE canonical_nan(Single)

ReadAs(F, h, reg) ==
  IF F = Single THEN fvalue_to_f32_bits(fregister_read(h, reg))
                ELSE fregister_read(h, reg)
WriteAs(F, h, reg, v) ==
  fregister_write(h, reg, IF F = Single THEN f32_to_fvalue(v) ELSE v)

-----------------------------------------------------------------------------
(* Exception flags and rounding modes.                                     *)

NV == 4
set_exception_flag(h, flag) == set_bits(h, fflags, 2^flag).h

\* The library's five status bits are fflags' in the opposite order.
status_to_bits(status) ==
  MapThenSumSet(LAMBDA i : ((status \div 2^i) % 2) * 2^(4 - i), 0 .. 4)

set_exception_flag_status(h, status) ==
  IF status = 0 THEN h ELSE set_bits(h, fflags, status_to_bits(status)).h

Dynamic == 7
Rounds == <<"NearestTiesToEven", "TowardZero", "TowardNegative", "TowardPositive",
            "NearestTiesToAway">>

RoundingMode(h, rm) == IF rm = Dynamic THEN csr_read(h, frm) ELSE rm

\* No rounding mode: the instruction is illegal.
f_rounding_mode(h, rm) ==
  IF RoundingMode(h, rm) \in 0 .. 4 THEN Rounds[RoundingMode(h, rm) + 1] ELSE "none"

-----------------------------------------------------------------------------
(* What the library is asked for, and the result with it.                  *)

Asking(out, ask) == [out EXCEPT !.val = ask]

\* The rounding mode is resolved before anything changes.
Rounded(h, rm, ask, out) ==
  IF f_rounding_mode(h, rm) = "none" THEN err_illegal_instruction(h)
  ELSE Asking(Ok(out), Append(ask, f_rounding_mode(h, rm)))

f_arith(F, h, rm, rd, lib, ask) ==
  Rounded(h, rm, ask,
    WriteAs(F, set_exception_flag_status(h, lib.status), rd,
            canonicalise(F, lib.value % 2^F.len)))

f_arith_2(F, h, rs1, rs2, rm, rd, lib, op) ==
  f_arith(F, h, rm, rd, lib, <<op, ReadAs(F, h, rs1), ReadAs(F, h, rs2)>>)

run_fadd(F, h, rs1, rs2, rm, rd, lib) == f_arith_2(F, h, rs1, rs2, rm, rd, lib, "add_r")
run_fsub(F, h, rs1, rs2, rm, rd, lib) == f_arith_2(F, h, rs1, rs2, rm, rd, lib, "sub_r")
run_fmul(F, h, rs1, rs2, rm, rd, lib) == f_arith_2(F, h, rs1, rs2, rm, rd, lib, "mul_r")
run_fdiv(F, h, rs1, rs2, rm, rd, lib) == f_arith_2(F, h, rs1, rs2, rm, rd, lib, "div_r")

f_arith_3(F, h, v1, v2, v3, rm, rd, lib) ==
  f_arith(F, h, rm, rd, lib, <<"mul_add_r", v1, v2, v3>>)

run_fmadd(F, h, rs1, rs2, rs3, rm, rd, lib) ==
  f_arith_3(F, h, ReadAs(F, h, rs1), ReadAs(F, h, rs2), ReadAs(F, h, rs3), rm, rd, lib)
run_fmsub(F, h, rs1, rs2, rs3, rm, rd, lib) ==
  f_arith_3(F, h, ReadAs(F, h, rs1), ReadAs(F, h, rs2), neg(F, ReadAs(F, h, rs3)),
            rm, rd, lib)
run_fnmsub(F, h, rs1, rs2, rs3, rm, rd, lib) ==
  f_arith_3(F, h, neg(F, ReadAs(F, h, rs1)), ReadAs(F, h, rs2), ReadAs(F, h, rs3),
            rm, rd, lib)
run_fnmadd(F, h, rs1, rs2, rs3, rm, rd, lib) ==
  f_arith_3(F, h, neg(F, ReadAs(F, h, rs1)), ReadAs(F, h, rs2),
            neg(F, ReadAs(F, h, rs3)), rm, rd, lib)

\* The square root's result is not made canonical here: the library's is.
run_fsqrt(F, h, rs1, rm, rd, lib) ==
  Rounded(h, rm, <<"sqrt", ReadAs(F, h, rs1)>>,
    WriteAs(F, set_exception_flag_status(h, lib.status), rd, lib.value % 2^F.len))

\* To a format from an integer, from another format, and to an integer.
run_fcvt_int_fmt(F, h, rs1, rm, rd, lib, cast) ==
  Rounded(h, rm, <<"from_int", cast>>,
    WriteAs(F, set_exception_flag_status(h, lib.status), rd, lib.value % 2^F.len))

run_fcvt_fmt_fmt(F, T, h, rs1, rm, rd, lib) ==
  Rounded(h, rm, <<"convert_r", ReadAs(F, h, rs1)>>,
    WriteAs(T, set_exception_flag_status(h, lib.status), rd,
            canonicalise(T, lib.value % 2^T.len)))

\* A NaN converts as positive infinity does.
run_fcvt_fmt_int(F, h, rs1, rm, rd, lib, op, w) ==
  LET v == ReadAs(F, h, rs1)
      asked == IF is_nan(F, v) THEN Infinity(F) ELSE v
      flagged == set_exception_flag_status(h, lib.status) IN
  Rounded(h, rm, <<op, asked>>,
    xregister_write(flagged, rd, IF w = WLEN THEN extend_signed(narrow(lib.value))
                                             ELSE lib.value % 2^XLEN))

-----------------------------------------------------------------------------
(* Exact operations.                                                       *)

run_fclass(F, h, rs1, rd) ==
  LET v == ReadAs(F, h, rs1)
      n == is_negative(F, v)
      class == CASE is_infinite(F, v) /\ n -> 0
                 [] n /\ is_normal(F, v) -> 1
                 [] n /\ is_denormal(F, v) -> 2
                 [] is_zero(F, v) /\ n -> 3
                 [] is_zero(F, v) /\ ~n -> 4
                 [] is_denormal(F, v) /\ ~n -> 5
                 [] is_normal(F, v) /\ ~n -> 6
                 [] is_infinite(F, v) /\ ~n -> 7
                 [] is_signaling(F, v) -> 8
                 [] OTHER -> 9 IN
  Ok(xregister_write(h, rd, 2^class % 2^XLEN))

\* Equality is quiet: only a signaling NaN raises the flag.
run_feq(F, h, rs1, rs2, rd) ==
  LET v1 == ReadAs(F, h, rs1)
      v2 == ReadAs(F, h, rs2)
      flagged == IF is_signaling(F, v1) \/ is_signaling(F, v2)
                 THEN set_exception_flag(h, NV) ELSE h IN
  Ok(xregister_write(flagged, rd, xvalue_from_bool(
       ~is_nan(F, v1) /\ ~is_nan(F, v2) /\ Rank(F, v1) = Rank(F, v2))))

FlagNan(F, h, rs1, rs2) ==
  IF is_nan(F, ReadAs(F, h, rs1)) \/ is_nan(F, ReadAs(F, h, rs2))
  THEN set_exception_flag(h, NV) ELSE h
AreNumbers(F, h, rs1, rs2) ==
  ~is_nan(F, ReadAs(F, h, rs1)) /\ ~is_nan(F, ReadAs(F, h, rs2))

run_flt(F, h, rs1, rs2, rd) ==
  Ok(xregister_write(FlagNan(F, h, rs1, rs2), rd, xvalue_from_bool(
       /\ AreNumbers(F, h, rs1, rs2)
       /\ Rank(F, ReadAs(F, h, rs1)) < Rank(F, ReadAs(F, h, rs2)))))
\* Mutant: compares as the minimum does, -0 below +0 and NaNs included
run_fle_Total(F, h, rs1, rs2, rd) ==
  Ok(xregister_write(FlagNan(F, h, rs1, rs2), rd, xvalue_from_bool(
       StrictRank(F, ReadAs(F, h, rs1)) <= StrictRank(F, ReadAs(F, h, rs2)))))

run_fle(F, h, rs1, rs2, rd) ==
  Ok(xregister_write(FlagNan(F, h, rs1, rs2), rd, xvalue_from_bool(
       /\ AreNumbers(F, h, rs1, rs2)
       /\ Rank(F, ReadAs(F, h, rs1)) <= Rank(F, ReadAs(F, h, rs2)))))

\* One NaN gives way to the other operand; two give the canonical one.
min_max(F, h, rs1, rs2, rd, least) ==
  LET v1 == ReadAs(F, h, rs1)
      v2 == ReadAs(F, h, rs2)
      lo == IF StrictRank(F, v1) <= StrictRank(F, v2) THEN v1 ELSE v2
      hi == IF StrictRank(F, v1) <= StrictRank(F, v2) THEN v2 ELSE v1
      res == CASE is_nan(F, v1) /\ is_nan(F, v2) -> canonical_nan(F)
               [] is_nan(F, v1) /\ ~is_nan(F, v2) -> v2
               [] ~is_nan(F, v1) /\ is_nan(F, v2) -> v1
               [] OTHER -> IF least THEN lo ELSE hi
      flagged == IF is_signaling(F, v1) \/ is_signaling(F, v2)
                 THEN set_exception_flag(h, NV) ELSE h IN
  Ok(WriteAs(F, flagged, rd, res))

run_fmin(F, h, rs1, rs2, rd) == min_max(F, h, rs1, rs2, rd, TRUE)
run_fmax(F, h, rs1, rs2, rd) == min_max(F, h, rs1, rs2, rd, FALSE)

f_sign_injection(F, h, rs1, rs2, rd, sign) ==
  LET v == ReadAs(F, h, rs1) IN
  Ok(WriteAs(F, h, rd, IF sign = is_negative(F, v) THEN v ELSE neg(F, v)))

run_fsgnj(F, h, rs1, rs2, rd) ==
  f_sign_injection(F, h, rs1, rs2, rd, is_negative(F, ReadAs(F, h, rs2)))
run_fsgnjn(F, h, rs1, rs2, rd) ==
  f_sign_injection(F, h, rs1, rs2, rd, ~is_negative(F, ReadAs(F, h, rs2)))
run_fsgnjx(F, h, rs1, rs2, rd) ==
  f_sign_injection(F, h, rs1, rs2, rd,
    is_negative(F, ReadAs(F, h, rs1)) # is_negative(F, ReadAs(F, h, rs2)))

-----------------------------------------------------------------------------
(* The instructions of each format.                                        *)

run_fclass_s(h, rs1, rd) == run_fclass(Single, h, rs1, rd)
run_feq_s(h, rs1, rs2, rd) == run_feq(Single, h, rs1, rs2, rd)
run_fle_s(h, rs1, rs2, rd) == run_fle(Single, h, rs1, rs2, rd)
run_flt_s(h, rs1, rs2, rd) == run_flt(Single, h, rs1, rs2, rd)
run_fmin_s(h, rs1, rs2, rd) == run_fmin(Single, h, rs1, rs2, rd)
run_fmax_s(h, rs1, rs2, rd) == run_fmax(Single, h, rs1, rs2, rd)
run_fsgnj_s(h, rs1, rs2, rd) == run_fsgnj(Single, h, rs1, rs2, rd)
run_fsgnjn_s(h, rs1, rs2, rd) == run_fsgnjn(Single, h, rs1, rs2, rd)
run_fsgnjx_s(h, rs1, rs2, rd) == run_fsgnjx(Single, h, rs1, rs2, rd)
run_fadd_s(h, rs1, rs2, rm, rd, lib) == run_fadd(Single, h, rs1, rs2, rm, rd, lib)
run_fsub_s(h, rs1, rs2, rm, rd, lib) == run_fsub(Single, h, rs1, rs2, rm, rd, lib)
run_fmul_s(h, rs1, rs2, rm, rd, lib) == run_fmul(Single, h, rs1, rs2, rm, rd, lib)
run_fdiv_s(h, rs1, rs2, rm, rd, lib) == run_fdiv(Single, h, rs1, rs2, rm, rd, lib)
run_fmadd_s(h, rs1, rs2, rs3, rm, rd, lib) ==
  run_fmadd(Single, h, rs1, rs2, rs3, rm, rd, lib)
run_fmsub_s(h, rs1, rs2, rs3, rm, rd, lib) ==
  run_fmsub(Single, h, rs1, rs2, rs3, rm, rd, lib)
run_fnmsub_s(h, rs1, rs2, rs3, rm, rd, lib) ==
  run_fnmsub(Single, h, rs1, rs2, rs3, rm, rd, lib)
run_fnmadd_s(h, rs1, rs2, rs3, rm, rd, lib) ==
  run_fnmadd(Single, h, rs1, rs2, rs3, rm, rd, lib)
run_fsqrt_s(h, rs1, rm, rd, lib) == run_fsqrt(Single, h, rs1, rm, rd, lib)
run_fcvt_s_w(h, rs1, rm, rd, lib) ==
  run_fcvt_int_fmt(Single, h, rs1, rm, rd, lib, Signed(narrow(xregister_read(h, rs1)), WLEN))
run_fcvt_s_wu(h, rs1, rm, rd, lib) ==
  run_fcvt_int_fmt(Single, h, rs1, rm, rd, lib, narrow(xregister_read(h, rs1)))
run_fcvt_s_l(h, rs1, rm, rd, lib) ==
  run_fcvt_int_fmt(Single, h, rs1, rm, rd, lib, Signed(xregister_read(h, rs1), XLEN))
run_fcvt_s_lu(h, rs1, rm, rd, lib) ==
  run_fcvt_int_fmt(Single, h, rs1, rm, rd, lib, xregister_read(h, rs1))
run_fcvt_w_s(h, rs1, rm, rd, lib) ==
  run_fcvt_fmt_int(Single, h, rs1, rm, rd, lib, "to_i128_r", WLEN)
run_fcvt_wu_s(h, rs1, rm, rd, lib) ==
  run_fcvt_fmt_int(Single, h, rs1, rm, rd, lib, "to_u128_r", WLEN)
run_fcvt_l_s(h, rs1, rm, rd, lib) ==
  run_fcvt_fmt_int(Single, h, rs1, rm, rd, lib, "to_i128_r", XLEN)
run_fcvt_lu_s(h, rs1, rm, rd, lib) ==
  run_fcvt_fmt_int(Single, h, rs1, rm, rd, lib, "to_u128_r", XLEN)

run_fclass_d(h, rs1, rd) == run_fclass(Double, h, rs1, rd)
run_feq_d(h, rs1, rs2, rd) == run_feq(Double, h, rs1, rs2, rd)
run_fle_d(h, rs1, rs2, rd) == run_fle(Double, h, rs1, rs2, rd)
run_flt_d(h, rs1, rs2, rd) == run_flt(Double, h, rs1, rs2, rd)
run_fmin_d(h, rs1, rs2, rd) == run_fmin(Double, h, rs1, rs2, rd)
run_fmax_d(h, rs1, rs2, rd) == run_fmax(Double, h, rs1, rs2, rd)
run_fsgnj_d(h, rs1, rs2, rd) == run_fsgnj(Double, h, rs1, rs2, rd)
run_fsgnjn_d(h, rs1, rs2, rd) == run_fsgnjn(Double, h, rs1, rs2, rd)
run_fsgnjx_d(h, rs1, rs2, rd) == run_fsgnjx(Double, h, rs1, rs2, rd)
run_fadd_d(h, rs1, rs2, rm, rd, lib) == run_fadd(Double, h, rs1, rs2, rm, rd, lib)
run_fsub_d(h, rs1, rs2, rm, rd, lib) == run_fsub(Double, h, rs1, rs2, rm, rd, lib)
run_fmul_d(h, rs1, rs2, rm, rd, lib) == run_fmul(Double, h, rs1, rs2, rm, rd, lib)
run_fdiv_d(h, rs1, rs2, rm, rd, lib) == run_fdiv(Double, h, rs1, rs2, rm, rd, lib)
run_fmadd_d(h, rs1, rs2, rs3, rm, rd, lib) ==
  run_fmadd(Double, h, rs1, rs2, rs3, rm, rd, lib)
run_fmsub_d(h, rs1, rs2, rs3, rm, rd, lib) ==
  run_fmsub(Double, h, rs1, rs2, rs3, rm, rd, lib)
run_fnmsub_d(h, rs1, rs2, rs3, rm, rd, lib) ==
  run_fnmsub(Double, h, rs1, rs2, rs3, rm, rd, lib)
run_fnmadd_d(h, rs1, rs2, rs3, rm, rd, lib) ==
  run_fnmadd(Double, h, rs1, rs2, rs3, rm, rd, lib)
run_fsqrt_d(h, rs1, rm, rd, lib) == run_fsqrt(Double, h, rs1, rm, rd, lib)
run_fcvt_d_w(h, rs1, rm, rd, lib) ==
  run_fcvt_int_fmt(Double, h, rs1, rm, rd, lib, Signed(narrow(xregister_read(h, rs1)), WLEN))
run_fcvt_d_wu(h, rs1, rm, rd, lib) ==
  run_fcvt_int_fmt(Double, h, rs1, rm, rd, lib, narrow(xregister_read(h, rs1)))
run_fcvt_d_l(h, rs1, rm, rd, lib) ==
  run_fcvt_int_fmt(Double, h, rs1, rm, rd, lib, Signed(xregister_read(h, rs1), XLEN))
run_fcvt_d_lu(h, rs1, rm, rd, lib) ==
  run_fcvt_int_fmt(Double, h, rs1, rm, rd, lib, xregister_read(h, rs1))
run_fcvt_w_d(h, rs1, rm, rd, lib) ==
  run_fcvt_fmt_int(Double, h, rs1, rm, rd, lib, "to_i128_r", WLEN)
run_fcvt_wu_d(h, rs1, rm, rd, lib) ==
  run_fcvt_fmt_int(Double, h, rs1, rm, rd, lib, "to_u128_r", WLEN)
run_fcvt_l_d(h, rs1, rm, rd, lib) ==
  run_fcvt_fmt_int(Double, h, rs1, rm, rd, lib, "to_i128_r", XLEN)
run_fcvt_lu_d(h, rs1, rm, rd, lib) ==
  run_fcvt_fmt_int(Double, h, rs1, rm, rd, lib, "to_u128_r", XLEN)

run_fcvt_d_s(h, rs1, rm, rd, lib) == run_fcvt_fmt_fmt(Single, Double, h, rs1, rm, rd, lib)
run_fcvt_s_d(h, rs1, rm, rd, lib) == run_fcvt_fmt_fmt(Double, Single, h, rs1, rm, rd, lib)

\* Moves of a register's bits.
run_fmv_x_w(h, rs1, rd) ==
  Ok(xregister_write(h, rd, extend_signed(narrow(fregister_read(h, rs1)))))
run_fmv_w_x(h, rs1, rd) ==
  Ok(fregister_write(h, rd, f32_to_fvalue(narrow(xregister_read(h, rs1)))))
run_fmv_x_d(h, rs1, rd) == Ok(xregister_write(h, rd, fregister_read(h, rs1)))
run_fmv_d_x(h, rs1, rd) == Ok(fregister_write(h, rd, xregister_read(h, rs1)))

\* Loads and stores, at val(rs1) + imm.
BusAddress(h, imm, rs1) == add(xregister_read(h, rs1), xvalue_of_imm(imm), XLEN)
read_from_bus(h, imm, rs1, n) == main_memory_load(h, BusAddress(h, imm, rs1), n, FALSE)
write_to_bus(h, imm, rs1, v, n) == main_memory_store(h, BusAddress(h, imm, rs1), v, n)

run_flw(h, imm, rs1, rd) ==
  LET loaded == read_from_bus(h, imm, rs1, 4) IN
  IF loaded.err = "none" THEN Ok(fregister_write(h, rd, f32_to_fvalue(loaded.val)))
                         ELSE loaded
run_fsw(h, imm, rs1, rs2) == write_to_bus(h, imm, rs1, narrow(fregister_read(h, rs2)), 4)
run_fld(h, imm, rs1, rd) ==
  LET loaded == read_from_bus(h, imm, rs1, 8) IN
  IF loaded.err = "none" THEN Ok(fregister_write(h, rd, loaded.val)) ELSE loaded
run_fsd(h, imm, rs1, rs2) == write_to_bus(h, imm, rs1, fregister_read(h, rs2), 8)

run_cfld(h, imm, rs1, rd) == run_fld(h, imm, rs1, rd)
run_cfldsp(h, imm, rd_rs1) == run_fld(h, imm, sp, rd_rs1)
run_cfsd(h, imm, rs1, rs2) == run_fsd(h, imm, rs1, rs2)
run_cfsdsp(h, imm, rs2) == run_fsd(h, imm, sp, rs2)
=============================================================================
