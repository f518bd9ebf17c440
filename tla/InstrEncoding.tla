---------------------------- MODULE InstrEncoding ----------------------------
(***************************************************************************)
(* The encodings of the RISC-V unprivileged specification, in the          *)
(* direction an assembler takes them: from an instruction to its            *)
(* halfwords.  It is written from that specification, and is what the      *)
(* parser is checked against.  Registers are numbered 0 to 31.             *)
(***************************************************************************)
EXTENDS Integers, Sequences, FiniteSetsExt

\* An instruction, of which only the fields of its format matter.
Asm(m) == [m |-> m, rd |-> 0, rs1 |-> 0, rs2 |-> 0, rs3 |-> 0, imm |-> 0, rm |-> 0,
           csr |-> 0]

-----------------------------------------------------------------------------
(* 32 bits: opcode, funct3 and funct7 of every mnemonic, by format.        *)

RType ==
  [add |-> <<51, 0, 0>>, sub |-> <<51, 0, 32>>, sll |-> <<51, 1, 0>>,
   slt |-> <<51, 2, 0>>, sltu |-> <<51, 3, 0>>, xor |-> <<51, 4, 0>>,
   srl |-> <<51, 5, 0>>, sra |-> <<51, 5, 32>>, or |-> <<51, 6, 0>>,
   and |-> <<51, 7, 0>>, mul |-> <<51, 0, 1>>, mulh |-> <<51, 1, 1>>,
   mulhsu |-> <<51, 2, 1>>, mulhu |-> <<51, 3, 1>>, div |-> <<51, 4, 1>>,
   divu |-> <<51, 5, 1>>, rem |-> <<51, 6, 1>>, remu |-> <<51, 7, 1>>,
   addw |-> <<59, 0, 0>>, subw |-> <<59, 0, 32>>, sllw |-> <<59, 1, 0>>,
   srlw |-> <<59, 5, 0>>, sraw |-> <<59, 5, 32>>, mulw |-> <<59, 0, 1>>,
   divw |-> <<59, 4, 1>>, divuw |-> <<59, 5, 1>>, remw |-> <<59, 6, 1>>,
   remuw |-> <<59, 7, 1>>]
IType ==
  [addi |-> <<19, 0>>, slti |-> <<19, 2>>, sltiu |-> <<19, 3>>, xori |-> <<19, 4>>,
   ori |-> <<19, 6>>, andi |-> <<19, 7>>, addiw |-> <<27, 0>>]
ShiftType ==
  [slli |-> <<19, 1, 0>>, srli |-> <<19, 5, 0>>, srai |-> <<19, 5, 32>>,
   slliw |-> <<27, 1, 0>>, srliw |-> <<27, 5, 0>>, sraiw |-> <<27, 5, 32>>]
LoadType ==
  [lb |-> <<3, 0>>, lh |-> <<3, 1>>, lw |-> <<3, 2>>, ld |-> <<3, 3>>,
   lbu |-> <<3, 4>>, lhu |-> <<3, 5>>, lwu |-> <<3, 6>>]
FLoadType == [flw |-> <<7, 2>>, fld |-> <<7, 3>>]
StoreType == [sb |-> <<35, 0>>, sh |-> <<35, 1>>, sw |-> <<35, 2>>, sd |-> <<35, 3>>]
FStoreType == [fsw |-> <<39, 2>>, fsd |-> <<39, 3>>]
BranchType ==
  [beq |-> <<99, 0>>, bne |-> <<99, 1>>, blt |-> <<99, 4>>, bge |-> <<99, 5>>,
   bltu |-> <<99, 6>>, bgeu |-> <<99, 7>>]
UType == [lui |-> <<55>>, auipc |-> <<23>>]
\* opcode, funct3 and funct5; the ordering bits are left clear.
AmoType ==
  [lr_w |-> <<47, 2, 2>>, sc_w |-> <<47, 2, 3>>, swap_w |-> <<47, 2, 1>>,
   add_w |-> <<47, 2, 0>>, xor_w |-> <<47, 2, 4>>, and_w |-> <<47, 2, 12>>,
   or_w |-> <<47, 2, 8>>, min_w |-> <<47, 2, 16>>, max_w |-> <<47, 2, 20>>,
   minu_w |-> <<47, 2, 24>>, maxu_w |-> <<47, 2, 28>>,
   lr_d |-> <<47, 3, 2>>, sc_d |-> <<47, 3, 3>>, swap_d |-> <<47, 3, 1>>,
   add_d |-> <<47, 3, 0>>, xor_d |-> <<47, 3, 4>>, and_d |-> <<47, 3, 12>>,
   or_d |-> <<47, 3, 8>>, min_d |-> <<47, 3, 16>>, max_d |-> <<47, 3, 20>>,
   minu_d |-> <<47, 3, 24>>, maxu_d |-> <<47, 3, 28>>]
CsrType == [csrrw |-> <<115, 1>>, csrrs |-> <<115, 2>>, csrrc |-> <<115, 3>>]
CsrImmType == [csrrwi |-> <<115, 5>>, csrrsi |-> <<115, 6>>, csrrci |-> <<115, 7>>]
\* opcode, funct3, and the fields rs2 and funct7.
SystemType == [ecall |-> <<115, 0, 0, 0>>, ebreak |-> <<115, 0, 1, 0>>,
               wfi |-> <<115, 0, 5, 8>>, fence_i |-> <<15, 1, 0, 0>>]

\* Floating point: funct5 and format, then what sits in funct3 and rs2, where
\* that is no rounding mode or register.
FArithType ==
  [fadd_s |-> <<0, 0>>, fsub_s |-> <<1, 0>>, fmul_s |-> <<2, 0>>, fdiv_s |-> <<3, 0>>,
   fadd_d |-> <<0, 1>>, fsub_d |-> <<1, 1>>, fmul_d |-> <<2, 1>>, fdiv_d |-> <<3, 1>>]
FExactType ==
  [fsgnj_s |-> <<4, 0, 0>>, fsgnjn_s |-> <<4, 0, 1>>, fsgnjx_s |-> <<4, 0, 2>>,
   fmin_s |-> <<5, 0, 0>>, fmax_s |-> <<5, 0, 1>>, fle_s |-> <<20, 0, 0>>,
   flt_s |-> <<20, 0, 1>>, feq_s |-> <<20, 0, 2>>,
   fsgnj_d |-> <<4, 1, 0>>, fsgnjn_d |-> <<4, 1, 1>>, fsgnjx_d |-> <<4, 1, 2>>,
   fmin_d |-> <<5, 1, 0>>, fmax_d |-> <<5, 1, 1>>, fle_d |-> <<20, 1, 0>>,
   flt_d |-> <<20, 1, 1>>, feq_d |-> <<20, 1, 2>>]
FConvertType ==
  [fsqrt_s |-> <<11, 0, 0>>, fcvt_w_s |-> <<24, 0, 0>>, fcvt_wu_s |-> <<24, 0, 1>>,
   fcvt_l_s |-> <<24, 0, 2>>, fcvt_lu_s |-> <<24, 0, 3>>, fcvt_s_w |-> <<26, 0, 0>>,
   fcvt_s_wu |-> <<26, 0, 1>>, fcvt_s_l |-> <<26, 0, 2>>, fcvt_s_lu |-> <<26, 0, 3>>,
   fcvt_s_d |-> <<8, 0, 1>>,
   fsqrt_d |-> <<11, 1, 0>>, fcvt_w_d |-> <<24, 1, 0>>, fcvt_wu_d |-> <<24, 1, 1>>,
   fcvt_l_d |-> <<24, 1, 2>>, fcvt_lu_d |-> <<24, 1, 3>>, fcvt_d_w |-> <<26, 1, 0>>,
   fcvt_d_wu |-> <<26, 1, 1>>, fcvt_d_l |-> <<26, 1, 2>>, fcvt_d_lu |-> <<26, 1, 3>>,
   fcvt_d_s |-> <<8, 1, 0>>]
FMoveType ==
  [fmv_x_w |-> <<28, 0, 0>>, fclass_s |-> <<28, 0, 1>>, fmv_w_x |-> <<30, 0, 0>>,
   fmv_x_d |-> <<28, 1, 0>>, fclass_d |-> <<28, 1, 1>>, fmv_d_x |-> <<30, 1, 0>>]
FusedType ==
  [fmadd_s |-> <<67, 0>>, fmsub_s |-> <<71, 0>>, fnmsub_s |-> <<75, 0>>,
   fnmadd_s |-> <<79, 0>>, fmadd_d |-> <<67, 1>>, fmsub_d |-> <<71, 1>>,
   fnmsub_d |-> <<75, 1>>, fnmadd_d |-> <<79, 1>>]

\* Bits from .. from + n - 1 of a two's complement number.
Field(imm, from, n) == (imm \div 2^from) % 2^n

Word(op, rd, f3, rs1, rs2, f7) ==
  [lo |-> op + rd * 2^7 + f3 * 2^12 + (rs1 % 2) * 2^15,
   hi |-> rs1 \div 2 + rs2 * 2^4 + f7 * 2^9]

EncodeWord(a) ==
  LET m == a.m IN
  CASE m \in DOMAIN RType ->
         Word(RType[m][1], a.rd, RType[m][2], a.rs1, a.rs2, RType[m][3])
    [] m \in DOMAIN IType \cup DOMAIN LoadType \cup DOMAIN FLoadType ->
         LET f == CASE m \in DOMAIN IType -> IType[m] [] m \in DOMAIN LoadType -> LoadType[m]
                    [] OTHER -> FLoadType[m] IN
         Word(f[1], a.rd, f[2], a.rs1, Field(a.imm, 0, 5), Field(a.imm, 5, 7))
    [] m = "jalr" -> Word(103, a.rd, 0, a.rs1, Field(a.imm, 0, 5), Field(a.imm, 5, 7))
    [] m \in DOMAIN ShiftType ->
         Word(ShiftType[m][1], a.rd, ShiftType[m][2], a.rs1, Field(a.imm, 0, 5),
              ShiftType[m][3] + Field(a.imm, 5, 1))
    [] m \in DOMAIN StoreType \cup DOMAIN FStoreType ->
         LET f == IF m \in DOMAIN StoreType THEN StoreType[m] ELSE FStoreType[m] IN
         Word(f[1], Field(a.imm, 0, 5), f[2], a.rs1, a.rs2, Field(a.imm, 5, 7))
    [] m \in DOMAIN BranchType ->
         Word(99, Field(a.imm, 11, 1) + Field(a.imm, 1, 4) * 2, BranchType[m][2],
              a.rs1, a.rs2, Field(a.imm, 5, 6) + Field(a.imm, 12, 1) * 2^6)
    [] m \in DOMAIN UType ->
         Word(UType[m][1], a.rd, Field(a.imm, 12, 3), Field(a.imm, 15, 5),
              Field(a.imm, 20, 5), Field(a.imm, 25, 7))
    [] m = "jal" ->
         Word(111, a.rd, Field(a.imm, 12, 3), Field(a.imm, 15, 5),
              Field(a.imm, 11, 1) + Field(a.imm, 1, 4) * 2,
              Field(a.imm, 5, 6) + Field(a.imm, 20, 1) * 2^6)
    [] m \in DOMAIN AmoType ->
         Word(AmoType[m][1], a.rd, AmoType[m][2], a.rs1, a.rs2, AmoType[m][3] * 4)
    [] m \in DOMAIN CsrType ->
         Word(115, a.rd, CsrType[m][2], a.rs1, a.csr % 2^5, a.csr \div 2^5)
    [] m \in DOMAIN CsrImmType ->
         Word(115, a.rd, CsrImmType[m][2], a.imm, a.csr % 2^5, a.csr \div 2^5)
    [] m \in DOMAIN SystemType ->
         Word(SystemType[m][1], 0, SystemType[m][2], 0, SystemType[m][3], SystemType[m][4])
    [] m = "fence" -> Word(15, 0, 0, 0, Field(a.imm, 0, 5), Field(a.imm, 5, 7))
    [] m \in DOMAIN FArithType ->
         Word(83, a.rd, a.rm, a.rs1, a.rs2, FArithType[m][1] * 4 + FArithType[m][2])
    [] m \in DOMAIN FExactType ->
         Word(83, a.rd, FExactType[m][3], a.rs1, a.rs2,
              FExactType[m][1] * 4 + FExactType[m][2])
    [] m \in DOMAIN FConvertType ->
         Word(83, a.rd, a.rm, a.rs1, FConvertType[m][3],
              FConvertType[m][1] * 4 + FConvertType[m][2])
    [] m \in DOMAIN FMoveType ->
         Word(83, a.rd, FMoveType[m][3], a.rs1, 0, FMoveType[m][1] * 4 + FMoveType[m][2])
    [] m \in DOMAIN FusedType ->
         Word(FusedType[m][1], a.rd, a.rm, a.rs1, a.rs2, a.rs3 * 4 + FusedType[m][2])

-----------------------------------------------------------------------------
(* 16 bits.  An immediate is scattered: a layout has <<from, n, to>> for   *)
(* each n bits of it at from that go to bit to of the instruction.         *)

NoImm == {}
CiwImm == {<<4, 2, 11>>, <<6, 4, 7>>, <<2, 1, 6>>, <<3, 1, 5>>}
ClwImm == {<<3, 3, 10>>, <<2, 1, 6>>, <<6, 1, 5>>}
CldImm == {<<3, 3, 10>>, <<6, 2, 5>>}
CiImm == {<<5, 1, 12>>, <<0, 5, 2>>}
Ci16Imm == {<<9, 1, 12>>, <<4, 1, 6>>, <<6, 1, 5>>, <<7, 2, 3>>, <<5, 1, 2>>}
CluiImm == {<<17, 1, 12>>, <<12, 5, 2>>}
ClwspImm == {<<5, 1, 12>>, <<2, 3, 4>>, <<6, 2, 2>>}
CldspImm == {<<5, 1, 12>>, <<3, 2, 5>>, <<6, 3, 2>>}
CswspImm == {<<2, 4, 9>>, <<6, 2, 7>>}
CsdspImm == {<<3, 3, 10>>, <<6, 3, 7>>}
CbImm == {<<8, 1, 12>>, <<3, 2, 10>>, <<6, 2, 5>>, <<1, 2, 3>>, <<5, 1, 2>>}
CjImm == {<<11, 1, 12>>, <<4, 1, 11>>, <<8, 2, 9>>, <<10, 1, 8>>, <<6, 1, 7>>,
          <<7, 1, 6>>, <<1, 3, 3>>, <<5, 1, 2>>}

\* Fixed bits, format, layout, and the instruction it stands for: its
\* mnemonic, and its rs1, which may be a fixed register, the field rs1 or the
\* destination.
OfRd == 32
OfRs1 == 33
CType ==
  [c_addi4spn |-> <<0, "CIW", CiwImm, "addi", 2>>,
   c_fld |-> <<8192, "CL", CldImm, "fld", OfRs1>>,
   c_lw |-> <<16384, "CL", ClwImm, "lw", OfRs1>>,
   c_ld |-> <<24576, "CL", CldImm, "ld", OfRs1>>,
   c_fsd |-> <<40960, "CS", CldImm, "fsd", OfRs1>>,
   c_sw |-> <<49152, "CS", ClwImm, "sw", OfRs1>>,
   c_sd |-> <<57344, "CS", CldImm, "sd", OfRs1>>,
   c_addi |-> <<1, "CI", CiImm, "addi", OfRd>>,
   c_addiw |-> <<8193, "CI", CiImm, "addiw", OfRd>>,
   c_li |-> <<16385, "CI", CiImm, "addi", 0>>,
   c_addi16sp |-> <<24577, "CI", Ci16Imm, "addi", OfRd>>,
   c_lui |-> <<24577, "CI", CluiImm, "lui", 0>>,
   c_srli |-> <<32769, "CB_alu", CiImm, "srli", OfRd>>,
   c_srai |-> <<33793, "CB_alu", CiImm, "srai", OfRd>>,
   c_andi |-> <<34817, "CB_alu", CiImm, "andi", OfRd>>,
   c_sub |-> <<35841, "CA", NoImm, "sub", OfRd>>,
   c_xor |-> <<35873, "CA", NoImm, "xor", OfRd>>,
   c_or |-> <<35905, "CA", NoImm, "or", OfRd>>,
   c_and |-> <<35937, "CA", NoImm, "and", OfRd>>,
   c_subw |-> <<39937, "CA", NoImm, "subw", OfRd>>,
   c_addw |-> <<39969, "CA", NoImm, "addw", OfRd>>,
   c_j |-> <<40961, "CJ", CjImm, "jal", 0>>,
   c_beqz |-> <<49153, "CB", CbImm, "beq", OfRs1>>,
   c_bnez |-> <<57345, "CB", CbImm, "bne", OfRs1>>,
   c_slli |-> <<2, "CI", CiImm, "slli", OfRd>>,
   c_fldsp |-> <<8194, "CI", CldspImm, "fld", 2>>,
   c_lwsp |-> <<16386, "CI", ClwspImm, "lw", 2>>,
   c_ldsp |-> <<24578, "CI", CldspImm, "ld", 2>>,
   c_jr |-> <<32770, "CR_jump", NoImm, "jalr", OfRs1>>,
   c_mv |-> <<32770, "CR", NoImm, "add", 0>>,
   c_jalr |-> <<36866, "CR_jump", NoImm, "jalr", OfRs1>>,
   c_add |-> <<36866, "CR", NoImm, "add", OfRd>>,
   c_ebreak |-> <<36866, "CJ", NoImm, "ebreak", 0>>,
   c_fsdsp |-> <<40962, "CSS", CsdspImm, "fsd", 2>>,
   c_swsp |-> <<49154, "CSS", CswspImm, "sw", 2>>,
   c_sdsp |-> <<57346, "CSS", CsdspImm, "sd", 2>>]

Scatter(imm, layout) == MapThenSumSet(LAMBDA p : Field(imm, p[1], p[2]) * 2^p[3], layout)

EncodeCompressed(a) ==
  LET c == CType[a.m]
      registers ==
        CASE c[2] = "CIW" -> (a.rd - 8) * 2^2
          [] c[2] = "CL" -> (a.rd - 8) * 2^2 + (a.rs1 - 8) * 2^7
          [] c[2] = "CS" -> (a.rs2 - 8) * 2^2 + (a.rs1 - 8) * 2^7
          [] c[2] = "CI" -> a.rd * 2^7
          [] c[2] = "CB_alu" -> (a.rd - 8) * 2^7
          [] c[2] = "CA" -> (a.rd - 8) * 2^7 + (a.rs2 - 8) * 2^2
          [] c[2] = "CB" -> (a.rs1 - 8) * 2^7
          [] c[2] = "CSS" -> a.rs2 * 2^2
          [] c[2] = "CR" -> a.rd * 2^7 + a.rs2 * 2^2
          [] c[2] = "CR_jump" -> a.rs1 * 2^7
          [] c[2] = "CJ" -> 0 IN
  c[1] + registers + Scatter(a.imm, c[3])

IsCompressed(a) == a.m \in DOMAIN CType

\* The halfwords; a compressed instruction has one, and any may follow.
Encode(a) == IF IsCompressed(a) THEN [lo |-> EncodeCompressed(a), hi |-> 0]
                                ELSE EncodeWord(a)

\* The instruction a compressed one stands for.
Expand(a) ==
  LET c == CType[a.m] IN
  [a EXCEPT !.m = c[4],
            !.rd = IF a.m = "c_jalr" THEN 1 ELSE @,
            !.rs1 = CASE c[5] = OfRd -> a.rd [] c[5] = OfRs1 -> a.rs1 [] OTHER -> c[5]]

Expanded(a) == IF IsCompressed(a) THEN Expand(a) ELSE a
Width(a) == IF IsCompressed(a) THEN 2 ELSE 4
=============================================================================
