---------------------------- MODULE InstrPipeline ----------------------------
(***************************************************************************)
(* An instruction's way through the machine: its halfwords are fetched,    *)
(* parsed, converted into the form that blocks are made of, and run, both  *)
(* interpreted and compiled.                                               *)
(*                                                                         *)
(* The machine is scaled down (see InstrContext): bytes of one bit for     *)
(* integers, so registers of 8 bits and words of 4, and bytes of two bits  *)
(* for floating point, so singles of 8 bits and doubles of 16.  Encodings  *)
(* and immediates are at full width.                                       *)
(***************************************************************************)
EXTENDS InstrEncoding

CONSTANTS
  Singles,        \* instructions that are run as a block of one
  Blockable,      \* instructions that blocks of several are made of
  FloatSingles,   \* floating-point instructions, run as a block of one
  DecodeOnly,     \* instructions that the scaled machine cannot run
  MAX_BLOCK,      \* instructions in a block
  Harts, BlockHarts, FloatHarts,  \* harts that enter a block of each kind
  Libs,           \* answers of the floating-point library
  Readable, Writable,             \* addresses
  None                            \* no value yet

Parser == INSTANCE InstrParser
Parsed == INSTANCE ParsedInstr
Conversion == INSTANCE InstrConvert
Interpreter == INSTANCE InstrBlock
                 WITH BYTE <- 1, JIT <- FALSE, MAN32 <- 1, MAN64 <- 4
Jit == INSTANCE InstrBlock WITH BYTE <- 1, JIT <- TRUE, MAN32 <- 1, MAN64 <- 4
Float == INSTANCE InstrBlock WITH BYTE <- 2, JIT <- FALSE, MAN32 <- 3, MAN64 <- 10
Isa == INSTANCE InstrIsa WITH BYTE <- 1, JIT <- FALSE

VARIABLES
  asm,       \* the block's instructions as encoded
  parsed,    \* the same, parsed
  code,      \* and converted, None for an instruction that is not cacheable
  loop,      \* the state of the interpreter's loop over the block
  pos,       \* instructions interpreted so far
  compiled,  \* what the compiled block did from the same hart
  lr         \* the doubleword of the last load-reserved, if still reserved

vars == <<asm, parsed, code, loop, pos, compiled, lr>>

Init ==
  /\ asm = <<>> /\ parsed = <<>> /\ code = <<>>
  /\ loop = None /\ pos = 0 /\ compiled = None /\ lr = None

decode(p) == IF p.op \in Parsed!InstrUncacheable THEN None ELSE Conversion!convert(p)

IsFloat(a) == a \in FloatSingles

Extends(a) ==
  \/ asm = <<>>
  \/ /\ a \in Blockable
     /\ Len(asm) < MAX_BLOCK
     /\ \A i \in DOMAIN asm : asm[i] \in Blockable

Fetch(a) ==
  /\ loop = None
  /\ Extends(a)
  /\ asm' = Append(asm, a)
  /\ parsed' = LET e == Encode(a) IN Append(parsed, Parser!parse(e.lo, e.hi))
  /\ code' = Append(code, decode(parsed'[Len(parsed')]))
  /\ UNCHANGED <<loop, pos, compiled, lr>>

\* The doubleword of an address, which is what a reservation is for.
Line(addr) == addr - (addr % 8)

\* The hart enters the block, maybe with a reservation from before it.  The
\* compiled block is called with a copy of the hart.
Enter(h) ==
  /\ loop = None
  /\ asm # <<>>
  /\ asm[1] \notin DecodeOnly
  /\ loop' = Interpreter!Entered(h)
  /\ compiled' = LET fn == Jit!compile(code) IN
                 IF code[1] # None /\ fn.ok THEN Jit!call(fn, h) ELSE None
  /\ lr' = IF h.res = Line(h.res) THEN h.res ELSE None
  /\ UNCHANGED <<asm, parsed, code, pos>>

Open == loop # None /\ loop.open /\ pos < Len(code)

\* The reservation as a program sees it.
Reserved(a, h) ==
  CASE a.m \in {"lr_w", "lr_d"} /\ loop'.open -> Line(Isa!X(h, a.rs1))
    [] a.m \in {"sc_w", "sc_d"} -> None
    [] OTHER -> lr

RunInstr ==
  /\ Open
  /\ ~IsFloat(asm[1])
  /\ loop' = IF code[pos + 1] = None
             THEN Interpreter!run_instr_uncacheable(loop, parsed[pos + 1])
             ELSE Interpreter!run_instr(loop, code[pos + 1], Interpreter!NoLib)
  /\ lr' = Reserved(asm[pos + 1], loop.h)
  /\ pos' = pos + 1
  /\ UNCHANGED <<asm, parsed, code, compiled>>

RunFloat(lib) ==
  /\ Open
  /\ IsFloat(asm[1])
  /\ loop' = Float!run_instr(loop, code[pos + 1], lib)
  /\ pos' = pos + 1
  /\ UNCHANGED <<asm, parsed, code, compiled, lr>>

\* The block is left, or was decoded only.
Leave ==
  /\ IF loop = None THEN asm # <<>> /\ asm[1] \in DecodeOnly ELSE ~Open
  /\ asm' = <<>> /\ parsed' = <<>> /\ code' = <<>>
  /\ loop' = None /\ pos' = 0 /\ compiled' = None /\ lr' = None

Next ==
  \/ \E a \in Singles \cup Blockable \cup FloatSingles \cup DecodeOnly : Fetch(a)
  \/ \E h \in CASE asm = <<>> -> {}
                [] asm # <<>> /\ IsFloat(asm[1]) -> FloatHarts
                [] asm # <<>> /\ Len(asm) > 1 -> BlockHarts
                [] OTHER -> Harts : Enter(h)
  \/ RunInstr
  \/ \E lib \in Libs : RunFloat(lib)
  \/ Leave

Spec == Init /\ [][Next]_vars

-----------------------------------------------------------------------------
(* Properties.                                                             *)

\* The instruction decoded last, and whether it is cacheable.
Decoded == IF loop = None /\ asm # <<>> THEN {Len(asm)} ELSE {}
Cacheable == {i \in Decoded : code[i] # None}

\* Registers that an instruction cannot run with x0 are given a type without
\* it, by an unchecked conversion or a panicking one, and the functions that run
\* instructions read them through a union and index the register file without
\* a check.  Every parsed instruction has the arguments of its variant, and
\* every register a converted instruction is run with, and its tagged form
\* stores, is one of the type it is read as.
RegistersFitTheirView ==
  /\ \A i \in Decoded :
       parsed[i].op \in Parsed!InstrUncacheable \/ Parsed!InstrCacheable(parsed[i])
  /\ \A i \in Cacheable :
       LET op == code[i].opcode
           args == code[i].args
           shape == Interpreter!opcode_to_argsshape(op) IN
       /\ \A f \in Interpreter!NonZeroFields(op) : args[f] \in Interpreter!NonZeroXRegister
       /\ \A f \in DOMAIN shape : args[f] \in Interpreter!RegistersOf(shape[f])

\* The opcodes whose immediate is the encoded one.
WithImmediate ==
  DOMAIN Interpreter!Loads \cup DOMAIN Interpreter!Stores \cup Interpreter!BranchOps
  \cup Interpreter!ITypeOps \cup Interpreter!FLoadOps \cup Interpreter!FStoreOps
  \cup {"J", "Jal", "JrImm", "JalrImm", "JAbsolute", "JalrAbsolute", "AddImmediateToPC",
        "CFldsp", "CFsdsp"}

\* The parser gathers an immediate from the fields it is scattered over, and
\* sign-extends it: it is the number that was encoded, whatever simplified
\* form the instruction is converted to.  A shift of words keeps the bits above
\* the amount, and masks them when it runs.  The width that the variant and
\* the converted instruction give is the number of bytes that were fetched.
DecodedAsEncoded ==
  /\ \A i \in Decoded : Parsed!width(parsed[i]) = Width(asm[i])
  /\ \A i \in Cacheable :
       LET op == code[i].opcode
           imm == code[i].args.imm IN
       /\ code[i].args.width = Width(asm[i])
       /\ op \in WithImmediate => imm = asm[i].imm
       /\ op = "Li" /\ Expanded(asm[i]).m \in {"addi", "lui"} => imm = asm[i].imm
       /\ op \in {"X32ShiftLeftImm", "X32ShiftRightImmUnsigned", "X32ShiftRightImmSigned"}
            => imm % 32 = asm[i].imm

\* A step of the interpreter has the effect the RISC-V specification gives the
\* instruction as encoded, although it runs the converted one: a compressed
\* instruction as the one it stands for, x0 as a register that reads zero, an
\* addition to x0 as a load of the immediate and so on.
ExecutesAsIsa ==
  [][(pos' = pos + 1 /\ ~IsFloat(asm[1]) /\ Isa!Specified(loop.h, asm[pos'])) =>
       LET step == Isa!IsaStep(loop.h, asm[pos'])
           h == loop'.h IN
       /\ <<h.xs, h.mem, h.csr>> = <<step.h.xs, step.h.mem, step.h.csr>>
       /\ CASE step.err = "none" -> h.pc = step.h.pc
            [] step.err = "EnvCall" -> h.pc = loop.h.pc /\ loop'.err = "EnvCall"
            [] OTHER -> h.pc = 0 /\ loop'.err = "none"]_vars

\* A store-conditional that may write its address succeeds exactly when the
\* program holds a reservation of that doubleword: it has load-reserved it and
\* has not tried a store-conditional since.  Only then does it store.
StoreConditionalPairs ==
  [][(pos' = pos + 1 /\ asm[pos'].m \in {"sc_w", "sc_d"}) =>
       LET a == asm[pos']
           n == Isa!AmoSize(a.m)
           addr == Isa!X(loop.h, a.rs1)
           may == addr % n = 0 /\ Isa!Bytes(addr, n) \subseteq Writable
           h == loop'.h IN
       /\ ~(may /\ lr = Line(addr)) => h.mem = loop.h.mem
       /\ may => Isa!X(h, a.rd) = IF a.rd = 0 \/ lr = Line(addr) THEN 0 ELSE 1]_vars

\* A compiled block leaves the hart, its pc, memory and reservation included,
\* the number of steps and the error as interpreting the block from the same
\* hart does, wherever it is left: at its end, at a branch, or by an exception.
CompiledAsInterpreted ==
  (loop # None /\ ~Open /\ compiled # None) =>
    /\ compiled.h = loop.h
    /\ compiled.steps = loop.steps
    /\ compiled.err = loop.err

-----------------------------------------------------------------------------
(* Floating point.                                                         *)

SingleDest == {"fadd_s", "fsub_s", "fmul_s", "fdiv_s", "fsqrt_s", "fmadd_s", "fmsub_s",
               "fnmsub_s", "fnmadd_s", "fsgnj_s", "fsgnjn_s", "fsgnjx_s", "fmin_s",
               "fmax_s", "fcvt_s_w", "fcvt_s_wu", "fcvt_s_l", "fcvt_s_lu", "fcvt_s_d",
               "fmv_w_x", "flw"}
DoubleDest == {"fadd_d", "fsub_d", "fmul_d", "fdiv_d", "fsqrt_d", "fmadd_d", "fmsub_d",
               "fnmsub_d", "fnmadd_d", "fsgnj_d", "fsgnjn_d", "fsgnjx_d", "fmin_d",
               "fmax_d", "fcvt_d_w", "fcvt_d_wu", "fcvt_d_l", "fcvt_d_lu", "fcvt_d_s",
               "fmv_d_x", "fld"}
\* Results that are computed, and not copied or converted from an integer.
\* The square root is the library's own.
Computed == (DOMAIN FArithType \cup DOMAIN FusedType \cup
             {"fmin_s", "fmax_s", "fmin_d", "fmax_d", "fcvt_s_d", "fcvt_d_s"})

Rounding == DOMAIN FArithType \cup DOMAIN FusedType \cup DOMAIN FConvertType
Mode(a, h) == IF a.rm = 7 THEN (h.csr.fcsr \div 2^5) % 2^3 ELSE a.rm

\* A floating-point step: with a reserved rounding mode, given or dynamic, it is
\* illegal and changes nothing, the flags included; otherwise the accrued
\* flags only grow and the rounding mode stays, no register but the
\* destination changes, a single is written boxed, so that every later read
\* finds it, and a computed NaN is the canonical one.
FloatStepSound ==
  [][(pos' = pos + 1 /\ IsFloat(asm[1])) =>
       LET a == Expanded(asm[1])
           h == loop.h
           g == loop'.h
           F == IF a.m \in SingleDest THEN Float!Single ELSE Float!Double
           floats == a.m \in SingleDest \cup DoubleDest
           faulted == g.pc = 0 IN
       /\ a.m \in Rounding => (faulted <=> Mode(a, h) > 4)
       /\ faulted => [g EXCEPT !.pc = h.pc] = h
       /\ Float!and(h.csr.fcsr, g.csr.fcsr) = h.csr.fcsr
       /\ g.csr.fcsr \div 2^5 = h.csr.fcsr \div 2^5
       /\ \A r \in DOMAIN h.fs : ~floats \/ r # a.rd => g.fs[r] = h.fs[r]
       /\ \A r \in DOMAIN h.xs : floats \/ r # a.rd - 1 => g.xs[r] = h.xs[r]
       /\ (a.m \in SingleDest /\ ~faulted) => g.fs[a.rd] \div 2^8 = 2^8 - 1
       /\ (a.m \in Computed /\ ~faulted /\ Float!is_nan(F, Float!ReadAs(F, g, a.rd))) =>
            Float!ReadAs(F, g, a.rd) = Float!canonical_nan(F)]_vars

\* The comparisons, the minimum and maximum and the classes agree on the order
\* of the numbers in f0 and f1, single and double: for two numbers exactly one
\* of less, equal and greater holds, fle is flt or feq, fmin and fmax are the
\* two operands in that order; for a NaN none holds.  A value is in one class,
\* and is negative, zero or positive as its class is.
OrderAgrees ==
  (loop # None /\ pos = 0 /\ asm[1].m = "feq_s") =>
    \A F \in {Float!Single, Float!Double} :
      LET h == loop.h
          zero == Float!WriteAs(F, h, 2, 0)
          bit(out) == out.h.xs[0] = 1
          lt(r, s) == bit(Float!run_flt(F, zero, r, s, 0))
          le(r, s) == bit(Float!run_fle(F, zero, r, s, 0))
          eq(r, s) == bit(Float!run_feq(F, zero, r, s, 0))
          value(r) == Float!ReadAs(F, h, r)
          min == Float!ReadAs(F, Float!run_fmin(F, h, 0, 1, 1).h, 1)
          max == Float!ReadAs(F, Float!run_fmax(F, h, 0, 1, 1).h, 1)
          class == Float!run_fclass(F, h, 0, 0).h.xs[0]
          number(r) == ~Float!is_nan(F, value(r)) IN
      /\ number(0) /\ number(1) =>
           /\ Cardinality({c \in {1, 2, 3} : <<lt(0, 1), eq(0, 1), lt(1, 0)>>[c]}) = 1
           /\ {min, max} = {value(0), value(1)}
           /\ lt(0, 1) => min = value(0)
           /\ lt(1, 0) => min = value(1)
      /\ ~(number(0) /\ number(1)) => ~lt(0, 1) /\ ~eq(0, 1) /\ ~lt(1, 0)
      /\ le(0, 1) = (lt(0, 1) \/ eq(0, 1))
      /\ lt(0, 2) = (class \in {2^0, 2^1, 2^2})
      /\ eq(0, 2) = (class \in {2^3, 2^4})
      /\ lt(2, 0) = (class \in {2^5, 2^6, 2^7})
      /\ ~number(0) = (class \in {2^8, 2^9})

=============================================================================
