----------------------------- MODULE InstrParser -----------------------------
(***************************************************************************)
(* The instruction parser: from the halfwords of an instruction to the     *)
(* parsed instruction, at full width.  A 32-bit word is the pair of its     *)
(* halfwords, [lo, hi], as the caller fetches them; a parsed instruction   *)
(* is a record with the variant's name in op and the fields of its         *)
(* argument type.  Immediates are signed integers.                         *)
(***************************************************************************)
EXTENDS Registers, TLC

\* The 12-bit numbers of the registers there are: fflags, frm and fcsr, and
\* the 32 read-only counters from cycle to hpmcounter31.
try_parse == 1..3 \cup 3072..3103

-----------------------------------------------------------------------------
(* Fields of a word.                                                       *)

bits(w, pos, n) ==
  IF pos >= 16 THEN (w.hi \div 2^(pos - 16)) % 2^n
               ELSE (w.lo \div 2^pos + (w.hi % 2^n) * 2^(16 - pos)) % 2^n

\* The n-bit field v read as a two's complement number.
signed(v, n) == IF v >= 2^(n - 1) THEN v - 2^n ELSE v

opcode(w) == bits(w, 0, 7)
funct3(w) == bits(w, 12, 3)
funct5(w) == bits(w, 27, 5)
funct7(w) == bits(w, 25, 7)
rd(w) == parse_xregister(bits(w, 7, 5))
rd_f(w) == parse_fregister(bits(w, 7, 5))
rs1_bits(w) == bits(w, 15, 5)
rs1(w) == parse_xregister(rs1_bits(w))
rs1_f(w) == parse_fregister(rs1_bits(w))
rs2_bits(w) == bits(w, 20, 5)
rs2(w) == parse_xregister(rs2_bits(w))
rs2_f(w) == parse_fregister(rs2_bits(w))
rs3_f(w) == parse_fregister(bits(w, 27, 5))
imm_11_6(w) == bits(w, 26, 6) * 2
fm(w) == bits(w, 28, 4)
fmt(w) == bits(w, 25, 2)
width(w) == bits(w, 12, 3)
csr(w) == bits(w, 20, 12)

i_imm(w) == signed(bits(w, 20, 12), 12)

shift_imm(w) == i_imm(w) % 64

s_imm(w) == signed(bits(w, 25, 7), 7) * 2^5 + bits(w, 7, 5)

\* Mutant: bit 7 is not moved to bit 11
b_imm_BitSeven(w) ==
  - bits(w, 31, 1) * 2^12 + bits(w, 25, 6) * 2^5 + bits(w, 7, 5)

b_imm(w) ==
  - bits(w, 31, 1) * 2^12 + bits(w, 7, 1) * 2^11 + bits(w, 25, 6) * 2^5
  + bits(w, 8, 4) * 2

u_imm(w) == signed(bits(w, 12, 20), 20) * 2^12

j_imm(w) ==
  - bits(w, 31, 1) * 2^20 + bits(w, 12, 8) * 2^12 + bits(w, 20, 1) * 2^11
  + bits(w, 21, 10) * 2

-----------------------------------------------------------------------------
(* The argument types, one constructor per macro of the parser.            *)

Unknown == [op |-> "Unknown"]
Hint == [op |-> "Hint"]

r_instr(op, w) == [op |-> op, rd |-> rd(w), rs1 |-> rs1(w), rs2 |-> rs2(w)]

i_instr(op, w) == [op |-> op, rd |-> rd(w), rs1 |-> rs1(w), imm |-> i_imm(w)]

s_instr(op, w) == [op |-> op, rs1 |-> rs1(w), rs2 |-> rs2(w), imm |-> s_imm(w)]

b_instr(op, w) == [op |-> op, rs1 |-> rs1(w), rs2 |-> rs2(w), imm |-> b_imm(w)]

u_instr(op, w) == [op |-> op, rd |-> rd(w), imm |-> u_imm(w)]

j_instr(op, w) == [op |-> op, rd |-> rd(w), imm |-> j_imm(w)]

fl_instr(op, w) == [op |-> op, rd |-> rd_f(w), rs1 |-> rs1(w), imm |-> i_imm(w)]

fs_instr(op, w) ==
  [op |-> op, rs1 |-> rs1(w), rs2 |-> rs2_f(w), imm |-> s_imm(w)]

f_cmp_instr(op, w) ==
  [op |-> op, rd |-> rd(w), rs1 |-> rs1_f(w), rs2 |-> rs2_f(w)]

f_r_instr(op, w) ==
  [op |-> op, rd |-> rd_f(w), rs1 |-> rs1_f(w), rs2 |-> rs2_f(w)]

\* The rounding modes an instruction may name: the static modes 0 to 4 and
\* 7, the mode of the frm register.
from_rm == 0..4 \cup {7}

f_r_rm_1_instr(op, w) ==
  IF funct3(w) \in from_rm
  THEN [op |-> op, rd |-> rd_f(w), rs1 |-> rs1_f(w), rm |-> funct3(w)]
  ELSE Unknown

f_r_fmt_int_instr(op, w) ==
  IF funct3(w) \in from_rm
  THEN [op |-> op, rd |-> rd_f(w), rs1 |-> rs1(w), rm |-> funct3(w)]
  ELSE Unknown

f_r_int_fmt_instr(op, w) ==
  IF funct3(w) \in from_rm
  THEN [op |-> op, rd |-> rd(w), rs1 |-> rs1_f(w), rm |-> funct3(w)]
  ELSE Unknown

f_r_rm_2_instr(op, w) ==
  IF funct3(w) \in from_rm
  THEN [op |-> op, rd |-> rd_f(w), rs1 |-> rs1_f(w), rs2 |-> rs2_f(w),
        rm |-> funct3(w)]
  ELSE Unknown

f_r_rm_3_instr(op, w) ==
  IF funct3(w) \in from_rm
  THEN [op |-> op, rd |-> rd_f(w), rs1 |-> rs1_f(w), rs2 |-> rs2_f(w),
        rs3 |-> rs3_f(w), rm |-> funct3(w)]
  ELSE Unknown

fence_instr(op, w) ==
  [op |-> op, pred |-> bits(w, 24, 4), succ |-> bits(w, 20, 4)]

amo_instr(op, w) ==
  [op |-> op, rd |-> rd(w), rs1 |-> rs1(w), rs2 |-> rs2(w),
   aq |-> bits(w, 26, 1), rl |-> bits(w, 25, 1)]

csr_instr(op, w) ==
  IF csr(w) \in try_parse
  THEN [op |-> op, rd |-> rd(w), rs1 |-> rs1(w), csr |-> csr(w)]
  ELSE Unknown

csri_instr(op, w) ==
  IF csr(w) \in try_parse
  THEN [op |-> op, rd |-> rd(w), imm |-> bits(w, 15, 5), csr |-> csr(w)]
  ELSE Unknown

\* What the parser makes of an instruction whose only effect is a write of rd.
hint_x0(w, i) == IF rd(w) = x0 THEN Hint ELSE i

-----------------------------------------------------------------------------
(* Uncompressed instructions, one definition per opcode.  A table maps the *)
(* function fields the parser matches on to the variant.                   *)

OP ==
  [ARITH |-> 51, ARITH_W |-> 59, ARITH_I |-> 19, LOAD |-> 3, ARITH_IW |-> 27, SYNCH
   |-> 15, SYS |-> 115, STORE |-> 35, BRANCH |-> 99, LUI |-> 55, AUIPC |-> 23, JAL
   |-> 111, JALR |-> 103, FP |-> 83, FP_LOAD |-> 7, FMADD |-> 67, FMSUB |-> 71,
   FNMSUB |-> 75, FNMADD |-> 79, FP_STORE |-> 39, AMO |-> 47]

MulTable ==
  <<0, 1>> :> "Mul" @@ <<1, 1>> :> "Mulh" @@ <<2, 1>> :> "Mulhsu" @@
  <<3, 1>> :> "Mulhu" @@ <<4, 1>> :> "Div" @@ <<5, 1>> :> "Divu" @@
  <<6, 1>> :> "Rem" @@ <<7, 1>> :> "Remu"

ArithTable ==
  <<0, 0>> :> "Add" @@ <<0, 32>> :> "Sub" @@ <<1, 0>> :> "Sll" @@
  <<2, 0>> :> "Slt" @@ <<3, 0>> :> "Sltu" @@ <<4, 0>> :> "Xor" @@
  <<5, 0>> :> "Srl" @@ <<5, 32>> :> "Sra" @@ <<6, 0>> :> "Or" @@
  <<7, 0>> :> "And"

parse_arith(w) ==
  LET f == <<funct3(w), funct7(w)>> IN
  CASE f \in DOMAIN MulTable -> r_instr(MulTable[f], w)
    [] f \in DOMAIN ArithTable -> hint_x0(w, r_instr(ArithTable[f], w))
    [] OTHER -> Unknown

MulWTable ==
  <<0, 1>> :> "Mulw" @@ <<4, 1>> :> "Divw" @@ <<6, 1>> :> "Remw" @@
  <<7, 1>> :> "Remuw"

ArithWTable ==
  <<0, 0>> :> "Addw" @@ <<0, 32>> :> "Subw" @@ <<5, 0>> :> "Srlw" @@
  <<5, 32>> :> "Sraw"

\* Sllw is taken whatever funct7 is; Divuw into x0 is not.
parse_arith_w(w) ==
  LET f == <<funct3(w), funct7(w)>> IN
  CASE f[1] = 1 -> hint_x0(w, r_instr("Sllw", w))
    [] f \in DOMAIN MulWTable -> r_instr(MulWTable[f], w)
    [] f \in DOMAIN ArithWTable -> hint_x0(w, r_instr(ArithWTable[f], w))
    [] f = <<5, 1>> /\ rd(w) # x0 -> r_instr("Divuw", w)
    [] OTHER -> Unknown

ArithITable ==
  2 :> "Slti" @@ 3 :> "Sltiu" @@ 4 :> "Xori" @@ 6 :> "Ori" @@ 7 :> "Andi"

parse_shift_i(w) ==
  LET f == <<funct3(w), imm_11_6(w)>> IN
  CASE f = <<1, 0>> -> hint_x0(w, i_instr("Slli", w))
    [] f = <<5, 0>> -> hint_x0(w, i_instr("Srli", w))
    [] f = <<5, 32>> ->
         hint_x0(w, [i_instr("Srai", w) EXCEPT !.imm = shift_imm(w)])
    [] OTHER -> Unknown

\* An addi into x0 is a hint only when it reads x0 or adds nothing.
parse_addi(w) ==
  IF rd(w) = x0 /\ (rs1(w) = x0 \/ i_imm(w) = 0) THEN Hint
                                                  ELSE i_instr("Addi", w)

parse_arith_i(w) ==
  CASE funct3(w) = 0 -> parse_addi(w)
    [] funct3(w) \in {1, 5} -> parse_shift_i(w)
    [] OTHER -> hint_x0(w, i_instr(ArithITable[funct3(w)], w))

LoadTable == <<"Lb", "Lh", "Lw", "Ld", "Lbu", "Lhu", "Lwu">>

parse_load(w) ==
  IF funct3(w) < 7 THEN i_instr(LoadTable[funct3(w) + 1], w) ELSE Unknown

parse_arith_iw(w) ==
  LET f == <<funct3(w), imm_11_6(w)>> IN
  CASE f[1] = 0 -> hint_x0(w, i_instr("Addiw", w))
    [] f = <<1, 0>> -> hint_x0(w, i_instr("Slliw", w))
    [] f = <<5, 0>> -> hint_x0(w, i_instr("Srliw", w))
    [] f = <<5, 32>> -> hint_x0(w, i_instr("Sraiw", w))
    [] OTHER -> Unknown

\* Fences are the instructions the block cache must not hold.
parse_synch(w) ==
  CASE funct3(w) = 0 /\ fm(w) = 0 ->
         IF 0 \in {bits(w, 20, 4), bits(w, 24, 4)} THEN Hint
                                                   ELSE fence_instr("Fence", w)
    [] funct3(w) = 0 /\ fm(w) = 8 -> fence_instr("FenceTso", w)
    [] funct3(w) = 1 -> [op |-> "FenceI"]
    [] OTHER -> Unknown

CsrTable ==
  1 :> "Csrrw" @@ 2 :> "Csrrs" @@ 3 :> "Csrrc" @@ 5 :> "Csrrwi" @@
  6 :> "Csrrsi" @@ 7 :> "Csrrci"

parse_sys(w) ==
  CASE funct3(w) \in {1, 2, 3} -> csr_instr(CsrTable[funct3(w)], w)
    [] funct3(w) \in {5, 6, 7} -> csri_instr(CsrTable[funct3(w)], w)
    [] <<funct3(w), funct7(w), rs1_bits(w), rs2_bits(w)>> = <<0, 0, 0, 0>> ->
         [op |-> "Ecall"]
    [] <<funct3(w), funct7(w), rs1_bits(w), rs2_bits(w)>> = <<0, 0, 0, 1>> ->
         [op |-> "Ebreak"]
    [] <<funct3(w), funct7(w), rs1_bits(w), rs2_bits(w)>> = <<0, 8, 0, 5>> ->
         [op |-> "Wfi"]
    [] OTHER -> Unknown

AmoTable ==
  <<2, 0>> :> "Amoaddw" @@ <<2, 1>> :> "Amoswapw" @@ <<2, 2>> :> "Lrw" @@
  <<2, 3>> :> "Scw" @@ <<2, 4>> :> "Amoxorw" @@ <<2, 8>> :> "Amoorw" @@
  <<2, 12>> :> "Amoandw" @@ <<2, 16>> :> "Amominw" @@
  <<2, 20>> :> "Amomaxw" @@ <<2, 24>> :> "Amominuw" @@
  <<2, 28>> :> "Amomaxuw" @@ <<3, 0>> :> "Amoaddd" @@
  <<3, 1>> :> "Amoswapd" @@ <<3, 2>> :> "Lrd" @@ <<3, 3>> :> "Scd" @@
  <<3, 4>> :> "Amoxord" @@ <<3, 8>> :> "Amoord" @@ <<3, 12>> :> "Amoandd" @@
  <<3, 16>> :> "Amomind" @@ <<3, 20>> :> "Amomaxd" @@
  <<3, 24>> :> "Amominud" @@ <<3, 28>> :> "Amomaxud"

parse_amo(w) ==
  LET f == <<funct3(w), funct5(w)>> IN
  IF f \in DOMAIN AmoTable /\ (f[2] = 2 => rs2_bits(w) = 0)
  THEN amo_instr(AmoTable[f], w)
  ELSE Unknown

StoreTable == <<"Sb", "Sh", "Sw", "Sd">>

parse_store(w) ==
  IF funct3(w) < 4 THEN s_instr(StoreTable[funct3(w) + 1], w) ELSE Unknown

BranchTable ==
  0 :> "Beq" @@ 1 :> "Bne" @@ 4 :> "Blt" @@ 5 :> "Bge" @@ 6 :> "Bltu" @@
  7 :> "Bgeu"

parse_branch(w) ==
  IF funct3(w) \in DOMAIN BranchTable THEN b_instr(BranchTable[funct3(w)], w)
                                      ELSE Unknown

\* The single- and double-precision instructions of OP-FP, by the fields that
\* tell them apart: <<funct5>>, <<funct5, rounding>> or <<funct5, rs2>>.
FpS ==
  [rm_2 |-> 0 :> "Fadds" @@ 1 :> "Fsubs" @@ 2 :> "Fmuls" @@ 3 :> "Fdivs",
   r |-> <<4, 0>> :> "Fsgnjs" @@ <<4, 1>> :> "Fsgnjns" @@
         <<4, 2>> :> "Fsgnjxs" @@ <<5, 0>> :> "Fmins" @@ <<5, 1>> :> "Fmaxs",
   cmp |-> <<20, 0>> :> "Fles" @@ <<20, 1>> :> "Flts" @@ <<20, 2>> :> "Feqs",
   rm_1 |-> <<8, 1>> :> "Fcvtsd" @@ <<11, 0>> :> "Fsqrts",
   int_fmt |-> <<24, 0>> :> "Fcvtws" @@ <<24, 1>> :> "Fcvtwus" @@
               <<24, 2>> :> "Fcvtls" @@ <<24, 3>> :> "Fcvtlus",
   fmt_int |-> <<26, 0>> :> "Fcvtsw" @@ <<26, 1>> :> "Fcvtswu" @@
               <<26, 2>> :> "Fcvtsl" @@ <<26, 3>> :> "Fcvtslu",
   to_x |-> <<28, 0>> :> "FmvXW" @@ <<28, 1>> :> "FclassS",
   to_f |-> <<30, 0>> :> "FmvWX"]

FpD ==
  [rm_2 |-> 0 :> "Faddd" @@ 1 :> "Fsubd" @@ 2 :> "Fmuld" @@ 3 :> "Fdivd",
   r |-> <<4, 0>> :> "Fsgnjd" @@ <<4, 1>> :> "Fsgnjnd" @@
         <<4, 2>> :> "Fsgnjxd" @@ <<5, 0>> :> "Fmind" @@ <<5, 1>> :> "Fmaxd",
   cmp |-> <<20, 0>> :> "Fled" @@ <<20, 1>> :> "Fltd" @@ <<20, 2>> :> "Feqd",
   rm_1 |-> <<8, 0>> :> "Fcvtds" @@ <<11, 0>> :> "Fsqrtd",
   int_fmt |-> <<24, 0>> :> "Fcvtwd" @@ <<24, 1>> :> "Fcvtwud" @@
               <<24, 2>> :> "Fcvtld" @@ <<24, 3>> :> "Fcvtlud",
   fmt_int |-> <<26, 0>> :> "Fcvtdw" @@ <<26, 1>> :> "Fcvtdwu" @@
               <<26, 2>> :> "Fcvtdl" @@ <<26, 3>> :> "Fcvtdlu",
   to_x |-> <<28, 0>> :> "FmvXD" @@ <<28, 1>> :> "FclassD",
   to_f |-> <<30, 0>> :> "FmvDX"]

parse_fp_fmt(w, t) ==
  LET f == funct5(w)
      by_rm == <<f, funct3(w)>>
      by_rs2 == <<f, rs2_bits(w)>> IN
  CASE f \in DOMAIN t.rm_2 -> f_r_rm_2_instr(t.rm_2[f], w)
    [] by_rm \in DOMAIN t.r -> f_r_instr(t.r[by_rm], w)
    [] by_rm \in DOMAIN t.cmp -> f_cmp_instr(t.cmp[by_rm], w)
    [] by_rs2 \in DOMAIN t.rm_1 -> f_r_rm_1_instr(t.rm_1[by_rs2], w)
    [] by_rs2 \in DOMAIN t.int_fmt -> f_r_int_fmt_instr(t.int_fmt[by_rs2], w)
    [] by_rs2 \in DOMAIN t.fmt_int -> f_r_fmt_int_instr(t.fmt_int[by_rs2], w)
    [] by_rm \in DOMAIN t.to_x /\ rs2_bits(w) = 0 ->
         [op |-> t.to_x[by_rm], rd |-> rd(w), rs1 |-> rs1_f(w)]
    [] by_rm \in DOMAIN t.to_f /\ rs2_bits(w) = 0 ->
         [op |-> t.to_f[by_rm], rd |-> rd_f(w), rs1 |-> rs1(w)]
    [] OTHER -> Unknown

parse_fp(w) ==
  CASE fmt(w) = 0 -> parse_fp_fmt(w, FpS)
    [] fmt(w) = 1 -> parse_fp_fmt(w, FpD)
    [] OTHER -> Unknown

FusedTable ==
  <<OP.FMADD, 0>> :> "Fmadds" @@ <<OP.FMADD, 1>> :> "Fmaddd" @@ <<OP.FMSUB, 0>> :> "Fmsubs" @@
  <<OP.FMSUB, 1>> :> "Fmsubd" @@ <<OP.FNMSUB, 0>> :> "Fnmsubs" @@ <<OP.FNMSUB, 1>> :> "Fnmsubd" @@
  <<OP.FNMADD, 0>> :> "Fnmadds" @@ <<OP.FNMADD, 1>> :> "Fnmaddd"

parse_fused(w) ==
  LET f == <<opcode(w), fmt(w)>> IN
  IF f \in DOMAIN FusedTable THEN f_r_rm_3_instr(FusedTable[f], w) ELSE Unknown

parse_fp_load_store(w) ==
  LET f == <<opcode(w), width(w)>> IN
  CASE f = <<OP.FP_LOAD, 2>> -> fl_instr("Flw", w)
    [] f = <<OP.FP_LOAD, 3>> -> fl_instr("Fld", w)
    [] f = <<OP.FP_STORE, 2>> -> fs_instr("Fsw", w)
    [] f = <<OP.FP_STORE, 3>> -> fs_instr("Fsd", w)
    [] OTHER -> Unknown

parse_jump(w) ==
  CASE opcode(w) = OP.JAL -> j_instr("Jal", w)
    [] opcode(w) = OP.JALR /\ funct3(w) = 0 -> i_instr("Jalr", w)
    [] OTHER -> Unknown

\* The opcodes, in the order of the code.
parse_uncompressed_instruction(w) ==
  CASE opcode(w) = OP.ARITH -> parse_arith(w)
    [] opcode(w) = OP.ARITH_W -> parse_arith_w(w)
    [] opcode(w) = OP.ARITH_I -> parse_arith_i(w)
    [] opcode(w) = OP.LOAD -> parse_load(w)
    [] opcode(w) = OP.ARITH_IW -> parse_arith_iw(w)
    [] opcode(w) = OP.SYNCH -> parse_synch(w)
    [] opcode(w) = OP.SYS -> parse_sys(w)
    [] opcode(w) = OP.AMO -> parse_amo(w)
    [] opcode(w) = OP.STORE -> parse_store(w)
    [] opcode(w) = OP.BRANCH -> parse_branch(w)
    [] opcode(w) = OP.LUI -> hint_x0(w, u_instr("Lui", w))
    [] opcode(w) = OP.AUIPC -> hint_x0(w, u_instr("Auipc", w))
    [] opcode(w) = OP.FP -> parse_fp(w)
    [] opcode(w) \in {OP.FMADD, OP.FMSUB, OP.FNMSUB, OP.FNMADD} -> parse_fused(w)
    [] opcode(w) \in {OP.FP_LOAD, OP.FP_STORE} -> parse_fp_load_store(w)
    [] OTHER -> parse_jump(w)

-----------------------------------------------------------------------------
(* Compressed instructions.  i is the halfword.                            *)

UnknownCompressed == [op |-> "UnknownCompressed"]
HintCompressed == [op |-> "HintCompressed"]

c_bits(i, pos, n) == (i \div 2^pos) % 2^n

\* Bits hi down to lo of the halfword.
bits_subset(i, hi, lo) == c_bits(i, lo, hi - lo + 1)

c_rd_rs1(i) == parse_xregister(c_bits(i, 7, 5))
c_f_rd_rs1(i) == parse_fregister(c_bits(i, 7, 5))
c_rs2(i) == parse_xregister(c_bits(i, 2, 5))
c_f_rs2(i) == parse_fregister(c_bits(i, 2, 5))
c_reg_prime(i, pos) == c_bits(i, pos, 3) + 8
c_rs1p(i) == parse_xregister(c_reg_prime(i, 7))
c_rdp_rs2p(i) == parse_xregister(c_reg_prime(i, 2))
c_f_rdp_rs2p(i) == parse_fregister(c_reg_prime(i, 2))
c_opcode(i) == c_bits(i, 0, 2)
c_funct3(i) == c_bits(i, 13, 3)
c_q1_10(i) == c_bits(i, 10, 2)
c_q1_5(i) == c_bits(i, 5, 2)

clw_imm(i) ==
  bits_subset(i, 5, 5) * 2^6 + bits_subset(i, 12, 10) * 2^3
  + bits_subset(i, 6, 6) * 2^2

cld_imm(i) == bits_subset(i, 6, 5) * 2^6 + bits_subset(i, 12, 10) * 2^3

\* instr[12] and instr[6:2], as cslli_imm and cb_shamt_imm read them ...
cslli_imm(i) == bits_subset(i, 12, 12) * 2^5 + bits_subset(i, 6, 2)

cb_shamt_imm(i) == bits_subset(i, 12, 12) * 2^5 + bits_subset(i, 6, 2)

\* ... and sign-extended.
ci_imm(i) == signed(bits_subset(i, 12, 12) * 2^5 + bits_subset(i, 6, 2), 6)

cb_andi_imm(i) == signed(bits_subset(i, 12, 12) * 2^5 + bits_subset(i, 6, 2), 6)

ci_addi16sp_imm(i) ==
  signed(bits_subset(i, 12, 12) * 2^9 + bits_subset(i, 4, 3) * 2^7
         + bits_subset(i, 5, 5) * 2^6 + bits_subset(i, 2, 2) * 2^5
         + bits_subset(i, 6, 6) * 2^4, 10)

ci_lwsp_imm(i) ==
  bits_subset(i, 3, 2) * 2^6 + bits_subset(i, 12, 12) * 2^5
  + bits_subset(i, 6, 4) * 2^2

ci_ldsp_imm(i) ==
  bits_subset(i, 4, 2) * 2^6 + bits_subset(i, 12, 12) * 2^5
  + bits_subset(i, 6, 5) * 2^3

css_swsp_imm(i) == bits_subset(i, 8, 7) * 2^6 + bits_subset(i, 12, 9) * 2^2

css_sdsp_imm(i) == bits_subset(i, 9, 7) * 2^6 + bits_subset(i, 12, 10) * 2^3

ciw_imm(i) ==
  bits_subset(i, 10, 7) * 2^6 + bits_subset(i, 12, 11) * 2^4
  + bits_subset(i, 5, 5) * 2^3 + bits_subset(i, 6, 6) * 2^2

cb_imm(i) ==
  signed(bits_subset(i, 12, 12) * 2^8 + bits_subset(i, 6, 5) * 2^6
         + bits_subset(i, 2, 2) * 2^5 + bits_subset(i, 11, 10) * 2^3
         + bits_subset(i, 4, 3) * 2, 9)

cj_imm(i) ==
  signed(bits_subset(i, 12, 12) * 2^11 + bits_subset(i, 8, 8) * 2^10
         + bits_subset(i, 10, 9) * 2^8 + bits_subset(i, 6, 6) * 2^7
         + bits_subset(i, 7, 7) * 2^6 + bits_subset(i, 2, 2) * 2^5
         + bits_subset(i, 11, 11) * 2^4 + bits_subset(i, 5, 3) * 2, 12)

cr_instr(op, i) == [op |-> op, rd_rs1 |-> c_rs1p(i), rs2 |-> c_rdp_rs2p(i)]

cc_instr(op, imm, i) == [op |-> op, rd_rs1 |-> c_rs1p(i), imm |-> imm]

c_load(op, imm, i) ==
  [op |-> op, rd |-> c_rdp_rs2p(i), rs1 |-> c_rs1p(i), imm |-> imm]

c_store(op, imm, i) ==
  [op |-> op, rs1 |-> c_rs1p(i), rs2 |-> c_rdp_rs2p(i), imm |-> imm]

\* CIBNZTypeArgs: the register of instr[11:7] and an immediate.
c_instr_nz(op, imm, i) == [op |-> op, rd_rs1 |-> c_rd_rs1(i), imm |-> imm]

parse_c0(i) ==
  CASE c_funct3(i) = 0 ->
         IF ciw_imm(i) = 0 THEN UnknownCompressed
         ELSE [op |-> "CAddi4spn", rd_rs1 |-> c_rdp_rs2p(i), imm |-> ciw_imm(i)]
    [] c_funct3(i) = 1 ->
         [c_load("CFld", cld_imm(i), i) EXCEPT !.rd = c_f_rdp_rs2p(i)]
    [] c_funct3(i) = 2 -> c_load("CLw", clw_imm(i), i)
    [] c_funct3(i) = 3 -> c_load("CLd", cld_imm(i), i)
    [] c_funct3(i) = 5 ->
         [c_store("CFsd", cld_imm(i), i) EXCEPT !.rs2 = c_f_rdp_rs2p(i)]
    [] c_funct3(i) = 6 -> c_store("CSw", clw_imm(i), i)
    [] c_funct3(i) = 7 -> c_store("CSd", cld_imm(i), i)
    [] OTHER -> UnknownCompressed

\* funct3 = 3 of the second quadrant: nothing at all when both parts of the
\* immediate are zero, then C.ADDI16SP for sp and C.LUI for the others.
parse_c1_lui(i) ==
  CASE bits_subset(i, 6, 2) = 0 /\ bits_subset(i, 12, 12) = 0 ->
         UnknownCompressed
    [] c_rd_rs1(i) = sp -> [op |-> "CAddi16sp", imm |-> ci_addi16sp_imm(i)]
    [] c_rd_rs1(i) = x0 -> HintCompressed
    [] OTHER -> c_instr_nz("CLui", ci_imm(i) * 2^12, i)

C1AluTable ==
  <<0, 0>> :> "CSub" @@ <<0, 1>> :> "CXor" @@ <<0, 2>> :> "COr" @@
  <<0, 3>> :> "CAnd" @@ <<1, 0>> :> "CSubw" @@ <<1, 1>> :> "CAddw"

parse_c1_alu(i) ==
  LET f == <<bits_subset(i, 12, 12), c_q1_5(i)>> IN
  CASE c_q1_10(i) \in {0, 1} /\ cb_shamt_imm(i) = 0 -> HintCompressed
    [] c_q1_10(i) = 0 -> cc_instr("CSrli", cb_shamt_imm(i), i)
    [] c_q1_10(i) = 1 -> cc_instr("CSrai", cb_shamt_imm(i), i)
    [] c_q1_10(i) = 2 -> cc_instr("CAndi", cb_andi_imm(i), i)
    [] c_q1_10(i) = 3 /\ f \in DOMAIN C1AluTable -> cr_instr(C1AluTable[f], i)
    [] OTHER -> UnknownCompressed

parse_c1(i) ==
  CASE c_funct3(i) = 0 ->
         IF ci_imm(i) = 0 /\ c_rd_rs1(i) = x0 THEN [op |-> "CNop"]
         ELSE IF ci_imm(i) = 0 \/ c_rd_rs1(i) = x0 THEN HintCompressed
         ELSE c_instr_nz("CAddi", ci_imm(i), i)
    [] c_funct3(i) = 1 ->
         IF c_rd_rs1(i) = x0 THEN UnknownCompressed
                             ELSE c_instr_nz("CAddiw", ci_imm(i), i)
    [] c_funct3(i) = 2 ->
         IF c_rd_rs1(i) = x0 THEN HintCompressed
                             ELSE c_instr_nz("CLi", ci_imm(i), i)
    [] c_funct3(i) = 3 -> parse_c1_lui(i)
    [] c_funct3(i) = 4 -> parse_c1_alu(i)
    [] c_funct3(i) = 5 -> [op |-> "CJ", imm |-> cj_imm(i)]
    [] c_funct3(i) = 6 -> cc_instr("CBeqz", cb_imm(i), i)
    [] c_funct3(i) = 7 -> cc_instr("CBnez", cb_imm(i), i)

\* funct3 = 4 of the third quadrant, by instr[12], rd/rs1 and rs2.
parse_c2_jump_mv(i) ==
  LET link == bits_subset(i, 12, 12) = 1
      r1 == c_rd_rs1(i)
      r2 == c_rs2(i) IN
  CASE r1 = x0 /\ r2 = x0 ->
         IF link THEN [op |-> "CEbreak"] ELSE UnknownCompressed
    [] r1 = x0 /\ r2 # x0 -> HintCompressed
    [] r1 # x0 /\ r2 = x0 ->
         [op |-> IF link THEN "CJalr" ELSE "CJr", rs1 |-> r1]
    [] r1 # x0 /\ r2 # x0 ->
         [op |-> IF link THEN "CAdd" ELSE "CMv", rd_rs1 |-> r1, rs2 |-> r2]

parse_c2(i) ==
  CASE c_funct3(i) = 0 ->
         IF c_rd_rs1(i) = x0 \/ cslli_imm(i) = 0
         THEN HintCompressed
         ELSE c_instr_nz("CSlli", cslli_imm(i), i)
    [] c_funct3(i) = 1 ->
         [op |-> "CFldsp", rd_rs1 |-> c_f_rd_rs1(i), imm |-> ci_ldsp_imm(i)]
    [] c_funct3(i) = 2 ->
         IF c_rd_rs1(i) = x0 THEN UnknownCompressed
                             ELSE c_instr_nz("CLwsp", ci_lwsp_imm(i), i)
    [] c_funct3(i) = 3 ->
         IF c_rd_rs1(i) = x0 THEN UnknownCompressed
                             ELSE c_instr_nz("CLdsp", ci_ldsp_imm(i), i)
    [] c_funct3(i) = 4 -> parse_c2_jump_mv(i)
    [] c_funct3(i) = 5 ->
         [op |-> "CFsdsp", rs2 |-> c_f_rs2(i), imm |-> css_sdsp_imm(i)]
    [] c_funct3(i) = 6 ->
         [op |-> "CSwsp", rs2 |-> c_rs2(i), imm |-> css_swsp_imm(i)]
    [] c_funct3(i) = 7 ->
         [op |-> "CSdsp", rs2 |-> c_rs2(i), imm |-> css_sdsp_imm(i)]

parse_compressed_instruction(i) ==
  CASE c_opcode(i) = 0 -> parse_c0(i)
    [] c_opcode(i) = 1 -> parse_c1(i)
    [] c_opcode(i) = 2 -> parse_c2(i)
    [] OTHER -> UnknownCompressed

is_compressed(i) == i % 4 # 3

\* more is the halfword after, which is fetched only when it is needed.
parse(first, more) ==
  IF is_compressed(first)
  THEN parse_compressed_instruction(first)
  ELSE parse_uncompressed_instruction([lo |-> first, hi |-> more])

=============================================================================
