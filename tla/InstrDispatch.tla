---------------------------- MODULE InstrDispatch ----------------------------
(***************************************************************************)
(* From an opcode and its arguments to the function that runs it.  The     *)
(* arguments' registers are a union: which function runs decides whether a *)
(* register is read as any register, as one that is not x0, or as a        *)
(* floating-point one.                                                     *)
(***************************************************************************)
EXTENDS InstrRun, InstrFloat

\* The outcome of an instruction that is followed by the next one.
Done(h, a) == [h |-> h, err |-> "none", addr |-> 0, val |-> 0, pcu |-> NextPc(a.width)]
Tried(out, a) == [h |-> out.h, err |-> out.err, addr |-> out.addr, val |-> out.val,
                  pcu |-> NextPc(a.width)]
Jumped(h, pcu) == [h |-> h, err |-> "none", addr |-> 0, val |-> 0, pcu |-> pcu]

impl_r_type(h, op, a) ==
  Done(CASE op = "Add" -> run_add(h, a.rs1, a.rs2, a.rd)
         [] op = "Sub" -> run_sub(h, a.rs1, a.rs2, a.rd)
         [] op = "X64Xor" -> run_x64_xor(h, a.rs1, a.rs2, a.rd)
         [] op = "And" -> run_and(h, a.rs1, a.rs2, a.rd)
         [] op = "Or" -> run_or(h, a.rs1, a.rs2, a.rd)
         [] op = "Mul" -> run_mul(h, a.rs1, a.rs2, a.rd)
         [] op = "ShiftLeft" -> run_shift(h, "Left", a.rs1, a.rs2, a.rd)
         [] op = "ShiftRightUnsigned" -> run_shift(h, "RightUnsigned", a.rs1, a.rs2, a.rd)
         [] op = "ShiftRightSigned" -> run_shift(h, "RightSigned", a.rs1, a.rs2, a.rd)
         [] op = "SetLessThanSigned" -> run_set_less_than_signed(h, a.rs1, a.rs2, a.rd)
         [] op = "SetLessThanUnsigned" -> run_set_less_than_unsigned(h, a.rs1, a.rs2, a.rd)
         [] op = "AddWord" -> run_add_word(h, a.rs1, a.rs2, a.rd)
         [] op = "SubWord" -> run_sub_word(h, a.rs1, a.rs2, a.rd)
         [] op = "X64RemSigned" -> run_x64_rem_signed(h, a.rs1, a.rs2, a.rd)
         [] op = "X64RemUnsigned" -> run_x64_rem_unsigned(h, a.rs1, a.rs2, a.rd)
         [] op = "X32RemSigned" -> run_x32_rem_signed(h, a.rs1, a.rs2, a.rd)
         [] op = "X32RemUnsigned" -> run_x32_rem_unsigned(h, a.rs1, a.rs2, a.rd)
         [] op = "X64DivSigned" -> run_x64_div_signed(h, a.rs1, a.rs2, a.rd)
         [] op = "X64DivUnsigned" -> run_x64_div_unsigned(h, a.rs1, a.rs2, a.rd)
         [] op = "X32DivSigned" -> run_x32_div_signed(h, a.rs1, a.rs2, a.rd)
         [] op = "X32DivUnsigned" -> run_x32_div_unsigned(h, a.rs1, a.rs2, a.rd)
         [] op = "X32Mul" -> run_x32_mul(h, a.rs1, a.rs2, a.rd), a)

impl_x32_shift_type(h, op, a) ==
  Done(CASE op = "X32ShiftLeft" -> run_x32_shift(h, "Left", a.rs1, a.rs2, a.rd)
         [] op = "X32ShiftRightUnsigned" ->
              run_x32_shift(h, "RightUnsigned", a.rs1, a.rs2, a.rd)
         [] op = "X32ShiftRightSigned" ->
              run_x32_shift(h, "RightSigned", a.rs1, a.rs2, a.rd)
         [] op = "X32ShiftLeftImm" ->
              run_x32_shift_immediate(h, "Left", a.imm, a.rs1, a.rd)
         [] op = "X32ShiftRightImmUnsigned" ->
              run_x32_shift_immediate(h, "RightUnsigned", a.imm, a.rs1, a.rd)
         [] op = "X32ShiftRightImmSigned" ->
              run_x32_shift_immediate(h, "RightSigned", a.imm, a.rs1, a.rd), a)

impl_x64_mul_high_type(h, op, a) ==
  Done(run_x64_mul_high(h, a.rs1, a.rs2, a.rd,
         CASE op = "X64MulHighSigned" -> "Signed"
           [] op = "X64MulHighSignedUnsigned" -> "SignedUnsigned"
           [] op = "X64MulHighUnsigned" -> "Unsigned"), a)

impl_i_type(h, op, a) ==
  Done(CASE op = "Addi" -> run_addi(h, a.imm, a.rs1, a.rd)
         [] op = "AddWordImmediate" -> run_add_word_immediate(h, a.imm, a.rs1, a.rd)
         [] op = "X64XorImm" -> run_x64_xor_immediate(h, a.imm, a.rs1, a.rd)
         [] op = "X64OrImm" -> run_x64_or_immediate(h, a.imm, a.rs1, a.rd)
         [] op = "Andi" -> run_andi(h, a.imm, a.rs1, a.rd)
         [] op = "ShiftLeftImmediate" ->
              run_shift_immediate(h, "Left", a.imm, a.rs1, a.rd)
         [] op = "ShiftRightImmediateUnsigned" ->
              run_shift_immediate(h, "RightUnsigned", a.imm, a.rs1, a.rd)
         [] op = "ShiftRightImmediateSigned" ->
              run_shift_immediate(h, "RightSigned", a.imm, a.rs1, a.rd)
         [] op = "SetLessThanImmediateSigned" ->
              run_set_less_than_immediate_signed(h, a.imm, a.rs1, a.rd)
         [] op = "SetLessThanImmediateUnsigned" ->
              run_set_less_than_immediate_unsigned(h, a.imm, a.rs1, a.rd), a)

\* The loads and stores: bytes, and whether the value is sign-extended.
Loads == [X8LoadSigned |-> <<1, TRUE>>, X8LoadUnsigned |-> <<1, FALSE>>,
          X16LoadSigned |-> <<2, TRUE>>, X16LoadUnsigned |-> <<2, FALSE>>,
          X32LoadSigned |-> <<4, TRUE>>, X32LoadUnsigned |-> <<4, FALSE>>,
          X64LoadSigned |-> <<8, TRUE>>]
Stores == [X8Store |-> 1, X16Store |-> 2, X32Store |-> 4, X64Store |-> 8]

impl_load_type(h, op, a) ==
  Tried(run_load(h, a.imm, a.rs1, a.rd, Loads[op][1], Loads[op][2]), a)
impl_store_type(h, op, a) == Tried(run_store(h, a.imm, a.rs1, a.rs2, Stores[op]), a)

Branches ==
  [BranchEqual |-> "Equal", BranchNotEqual |-> "NotEqual",
   BranchLessThanSigned |-> "LessThanSigned",
   BranchLessThanUnsigned |-> "LessThanUnsigned",
   BranchGreaterThanOrEqualSigned |-> "GreaterThanOrEqualSigned",
   BranchGreaterThanOrEqualUnsigned |-> "GreaterThanOrEqualUnsigned"]
ZeroBranches ==
  [BranchEqualZero |-> "Equal", BranchNotEqualZero |-> "NotEqual",
   BranchLessThanZero |-> "LessThanSigned",
   BranchGreaterThanOrEqualZero |-> "GreaterThanOrEqualSigned",
   BranchLessThanOrEqualZero |-> "LessThanOrEqualSigned",
   BranchGreaterThanZero |-> "GreaterThanSigned"]

impl_branch(h, op, a) ==
  Jumped(h, run_branch(h, Branches[op], a.imm, a.rs1, a.rs2, a.width))
impl_branch_compare_zero(h, op, a) ==
  Jumped(h, run_branch_compare_zero(h, ZeroBranches[op], a.imm, a.rs1, a.width))

impl_amo_type(h, op, a) ==
  Tried(CASE op = "X32AtomicLoad" -> run_x32_atomic_load(h, a.rs1, a.rs2, a.rd)
          [] op = "X32AtomicStore" -> run_x32_atomic_store(h, a.rs1, a.rs2, a.rd)
          [] op = "X32AtomicSwap" -> run_x32_atomic_swap(h, a.rs1, a.rs2, a.rd)
          [] op = "Amoaddw" -> run_amoaddw(h, a.rs1, a.rs2, a.rd)
          [] op = "Amoxorw" -> run_amoxorw(h, a.rs1, a.rs2, a.rd)
          [] op = "Amoandw" -> run_amoandw(h, a.rs1, a.rs2, a.rd)
          [] op = "Amoorw" -> run_amoorw(h, a.rs1, a.rs2, a.rd)
          [] op = "Amominw" -> run_amominw(h, a.rs1, a.rs2, a.rd)
          [] op = "Amomaxw" -> run_amomaxw(h, a.rs1, a.rs2, a.rd)
          [] op = "Amominuw" -> run_amominuw(h, a.rs1, a.rs2, a.rd)
          [] op = "Amomaxuw" -> run_amomaxuw(h, a.rs1, a.rs2, a.rd)
          [] op = "X64AtomicLoad" -> run_x64_atomic_load(h, a.rs1, a.rs2, a.rd)
          [] op = "X64AtomicStore" -> run_x64_atomic_store(h, a.rs1, a.rs2, a.rd)
          [] op = "X64AtomicSwap" -> run_x64_atomic_swap(h, a.rs1, a.rs2, a.rd)
          [] op = "X64AtomicAdd" -> run_x64_atomic_add(h, a.rs1, a.rs2, a.rd)
          [] op = "Amoxord" -> run_amoxord(h, a.rs1, a.rs2, a.rd)
          [] op = "Amoandd" -> run_amoandd(h, a.rs1, a.rs2, a.rd)
          [] op = "Amoord" -> run_amoord(h, a.rs1, a.rs2, a.rd)
          [] op = "X64AtomicMinSigned" ->
               run_x64_atomic_min_signed(h, a.rs1, a.rs2, a.rd)
          [] op = "Amomaxd" -> run_amomaxd(h, a.rs1, a.rs2, a.rd)
          [] op = "Amominud" -> run_amominud(h, a.rs1, a.rs2, a.rd)
          [] op = "Amomaxud" -> run_amomaxud(h, a.rs1, a.rs2, a.rd), a)

\* Csrr* take a register, Csrr*i the immediate.
impl_csr_type(h, op, a) ==
  Tried(CASE op = "Csrrw" -> run_csrrw(h, a.csr, a.rs1, a.rd)
          [] op = "Csrrs" -> run_csrrs(h, a.csr, a.rs1, a.rd)
          [] op = "Csrrc" -> run_csrrc(h, a.csr, a.rs1, a.rd), a)
impl_csr_imm_type(h, op, a) ==
  Tried(CASE op = "Csrrwi" -> run_csrrwi(h, a.csr, a.imm, a.rd)
          [] op = "Csrrsi" -> run_csrrsi(h, a.csr, a.imm, a.rd)
          [] op = "Csrrci" -> run_csrrci(h, a.csr, a.imm, a.rd), a)

impl_jump(h, op, a) ==
  LET linked == CASE op = "Jal" -> run_jal(h, a.imm, a.rd, a.width)
                  [] op = "Jalr" -> run_jalr(h, a.rs1, a.rd, a.width)
                  [] op = "JalrImm" -> run_jalr_imm(h, a.imm, a.rs1, a.rd, a.width)
                  [] op = "JalrAbsolute" -> run_jalr_absolute(h, a.imm, a.rd, a.width) IN
  CASE op = "J" -> Jumped(h, run_j(h, a.imm))
    [] op = "JAbsolute" -> Jumped(h, run_j_absolute(h, a.imm))
    [] op = "Jr" -> Jumped(h, run_jr(h, a.rs1))
    [] op = "JrImm" -> Jumped(h, run_jr_imm(h, a.imm, a.rs1))
    [] OTHER -> Jumped(linked.h, linked.pcu)

\* The rest of the integer instructions.
impl_other(h, op, a) ==
  CASE op = "Mv" -> Done(run_mv(h, a.rd, a.rs2), a)
    [] op = "Neg" -> Done(run_neg(h, a.rd, a.rs2), a)
    [] op = "Li" -> Done(run_li(h, a.imm, a.rd), a)
    [] op = "Nop" -> Done(run_nop(h), a)
    [] op = "AddImmediateToPC" -> Done(run_add_immediate_to_pc(h, a.imm, a.rd), a)
    [] op = "ECall" -> Tried(ecall(h), a)
    [] op = "Unknown" -> Tried(err_illegal_instruction(h), a)

-----------------------------------------------------------------------------
(* Floating point: lib is the library's answer.                            *)

impl_fload_type(h, op, a) ==
  Tried(CASE op = "Flw" -> run_flw(h, a.imm, a.rs1, a.rd)
          [] op = "Fld" -> run_fld(h, a.imm, a.rs1, a.rd)
          [] op = "CFld" -> run_cfld(h, a.imm, a.rs1, a.rd), a)
impl_cfload_sp_type(h, op, a) == Tried(run_cfldsp(h, a.imm, a.rd), a)
impl_fstore_type(h, op, a) ==
  Tried(CASE op = "Fsw" -> run_fsw(h, a.imm, a.rs1, a.rs2)
          [] op = "Fsd" -> run_fsd(h, a.imm, a.rs1, a.rs2)
          [] op = "CFsd" -> run_cfsd(h, a.imm, a.rs1, a.rs2), a)
impl_fcss_type(h, op, a) == Tried(run_cfsdsp(h, a.imm, a.rs2), a)

impl_f_r_type(h, op, a, lib) ==
  Tried(CASE op = "Feqs" -> run_feq_s(h, a.rs1, a.rs2, a.rd)
          [] op = "Fles" -> run_fle_s(h, a.rs1, a.rs2, a.rd)
          [] op = "Flts" -> run_flt_s(h, a.rs1, a.rs2, a.rd)
          [] op = "Fmins" -> run_fmin_s(h, a.rs1, a.rs2, a.rd)
          [] op = "Fmaxs" -> run_fmax_s(h, a.rs1, a.rs2, a.rd)
          [] op = "Fsgnjs" -> run_fsgnj_s(h, a.rs1, a.rs2, a.rd)
          [] op = "Fsgnjns" -> run_fsgnjn_s(h, a.rs1, a.rs2, a.rd)
          [] op = "Fsgnjxs" -> run_fsgnjx_s(h, a.rs1, a.rs2, a.rd)
          [] op = "Fadds" -> run_fadd_s(h, a.rs1, a.rs2, a.rm, a.rd, lib)
          [] op = "Fsubs" -> run_fsub_s(h, a.rs1, a.rs2, a.rm, a.rd, lib)
          [] op = "Fmuls" -> run_fmul_s(h, a.rs1, a.rs2, a.rm, a.rd, lib)
          [] op = "Fdivs" -> run_fdiv_s(h, a.rs1, a.rs2, a.rm, a.rd, lib)
          [] op = "Fsqrts" -> run_fsqrt_s(h, a.rs1, a.rm, a.rd, lib)
          [] op = "Fmadds" -> run_fmadd_s(h, a.rs1, a.rs2, a.rs3f, a.rm, a.rd, lib)
          [] op = "Fmsubs" -> run_fmsub_s(h, a.rs1, a.rs2, a.rs3f, a.rm, a.rd, lib)
          [] op = "Fnmsubs" -> run_fnmsub_s(h, a.rs1, a.rs2, a.rs3f, a.rm, a.rd, lib)
          [] op = "Fnmadds" -> run_fnmadd_s(h, a.rs1, a.rs2, a.rs3f, a.rm, a.rd, lib)
          [] op = "Feqd" -> run_feq_d(h, a.rs1, a.rs2, a.rd)
          [] op = "Fled" -> run_fle_d(h, a.rs1, a.rs2, a.rd)
          [] op = "Fltd" -> run_flt_d(h, a.rs1, a.rs2, a.rd)
          [] op = "Fmind" -> run_fmin_d(h, a.rs1, a.rs2, a.rd)
          [] op = "Fmaxd" -> run_fmax_d(h, a.rs1, a.rs2, a.rd)
          [] op = "Fsgnjd" -> run_fsgnj_d(h, a.rs1, a.rs2, a.rd)
          [] op = "Fsgnjnd" -> run_fsgnjn_d(h, a.rs1, a.rs2, a.rd)
          [] op = "Fsgnjxd" -> run_fsgnjx_d(h, a.rs1, a.rs2, a.rd)
          [] op = "Faddd" -> run_fadd_d(h, a.rs1, a.rs2, a.rm, a.rd, lib)
          [] op = "Fsubd" -> run_fsub_d(h, a.rs1, a.rs2, a.rm, a.rd, lib)
          [] op = "Fmuld" -> run_fmul_d(h, a.rs1, a.rs2, a.rm, a.rd, lib)
          [] op = "Fdivd" -> run_fdiv_d(h, a.rs1, a.rs2, a.rm, a.rd, lib)
          [] op = "Fsqrtd" -> run_fsqrt_d(h, a.rs1, a.rm, a.rd, lib)
          [] op = "Fmaddd" -> run_fmadd_d(h, a.rs1, a.rs2, a.rs3f, a.rm, a.rd, lib)
          [] op = "Fmsubd" -> run_fmsub_d(h, a.rs1, a.rs2, a.rs3f, a.rm, a.rd, lib)
          [] op = "Fnmsubd" -> run_fnmsub_d(h, a.rs1, a.rs2, a.rs3f, a.rm, a.rd, lib)
          [] op = "Fnmaddd" -> run_fnmadd_d(h, a.rs1, a.rs2, a.rs3f, a.rm, a.rd, lib)
          [] op = "Fcvtds" -> run_fcvt_d_s(h, a.rs1, a.rm, a.rd, lib)
          [] op = "Fcvtsd" -> run_fcvt_s_d(h, a.rs1, a.rm, a.rd, lib), a)

impl_f_x_type(h, op, a, lib) ==
  Tried(CASE op = "FmvWX" -> run_fmv_w_x(h, a.rs1, a.rd)
          [] op = "FmvDX" -> run_fmv_d_x(h, a.rs1, a.rd)
          [] op = "Fcvtsw" -> run_fcvt_s_w(h, a.rs1, a.rm, a.rd, lib)
          [] op = "Fcvtswu" -> run_fcvt_s_wu(h, a.rs1, a.rm, a.rd, lib)
          [] op = "Fcvtsl" -> run_fcvt_s_l(h, a.rs1, a.rm, a.rd, lib)
          [] op = "Fcvtslu" -> run_fcvt_s_lu(h, a.rs1, a.rm, a.rd, lib)
          [] op = "Fcvtdw" -> run_fcvt_d_w(h, a.rs1, a.rm, a.rd, lib)
          [] op = "Fcvtdwu" -> run_fcvt_d_wu(h, a.rs1, a.rm, a.rd, lib)
          [] op = "Fcvtdl" -> run_fcvt_d_l(h, a.rs1, a.rm, a.rd, lib)
          [] op = "Fcvtdlu" -> run_fcvt_d_lu(h, a.rs1, a.rm, a.rd, lib), a)

impl_x_f_type(h, op, a, lib) ==
  Tried(CASE op = "FclassS" -> run_fclass_s(h, a.rs1, a.rd)
          [] op = "FclassD" -> run_fclass_d(h, a.rs1, a.rd)
          [] op = "FmvXW" -> run_fmv_x_w(h, a.rs1, a.rd)
          [] op = "FmvXD" -> run_fmv_x_d(h, a.rs1, a.rd)
          [] op = "Fcvtws" -> run_fcvt_w_s(h, a.rs1, a.rm, a.rd, lib)
          [] op = "Fcvtwus" -> run_fcvt_wu_s(h, a.rs1, a.rm, a.rd, lib)
          [] op = "Fcvtls" -> run_fcvt_l_s(h, a.rs1, a.rm, a.rd, lib)
          [] op = "Fcvtlus" -> run_fcvt_lu_s(h, a.rs1, a.rm, a.rd, lib)
          [] op = "Fcvtwd" -> run_fcvt_w_d(h, a.rs1, a.rm, a.rd, lib)
          [] op = "Fcvtwud" -> run_fcvt_wu_d(h, a.rs1, a.rm, a.rd, lib)
          [] op = "Fcvtld" -> run_fcvt_l_d(h, a.rs1, a.rm, a.rd, lib)
          [] op = "Fcvtlud" -> run_fcvt_lu_d(h, a.rs1, a.rm, a.rd, lib), a)
-----------------------------------------------------------------------------
(* The opcodes of each kind, and the function of an opcode.                *)

X32ShiftOps == {"X32ShiftLeft", "X32ShiftRightUnsigned", "X32ShiftRightSigned",
                "X32ShiftLeftImm", "X32ShiftRightImmUnsigned",
                "X32ShiftRightImmSigned"}
MulHighOps == {"X64MulHighSigned", "X64MulHighSignedUnsigned", "X64MulHighUnsigned"}
ITypeOps == {"Addi", "AddWordImmediate", "X64XorImm", "X64OrImm", "Andi",
             "ShiftLeftImmediate", "ShiftRightImmediateUnsigned",
             "ShiftRightImmediateSigned", "SetLessThanImmediateSigned",
             "SetLessThanImmediateUnsigned"}
LoweredAtomics == {"X32AtomicLoad", "X32AtomicStore", "X32AtomicSwap",
                   "X64AtomicLoad", "X64AtomicStore", "X64AtomicSwap",
                   "X64AtomicAdd", "X64AtomicMinSigned"}
AmoOps == LoweredAtomics \cup
  {"Amoaddw", "Amoxorw", "Amoandw", "Amoorw", "Amominw", "Amomaxw", "Amominuw",
   "Amomaxuw", "Amoxord", "Amoandd", "Amoord", "Amomaxd", "Amominud", "Amomaxud"}
CsrOps == {"Csrrw", "Csrrs", "Csrrc"}
CsrImmOps == {"Csrrwi", "Csrrsi", "Csrrci"}
JumpOps == {"J", "JAbsolute", "Jr", "JrImm", "Jal", "Jalr", "JalrImm", "JalrAbsolute"}
OtherOps == {"Mv", "Neg", "Li", "Nop", "AddImmediateToPC", "ECall", "Unknown"}
FLoadOps == {"Flw", "Fld", "CFld"}
FStoreOps == {"Fsw", "Fsd", "CFsd"}
FxOps == {"FmvWX", "FmvDX", "Fcvtsw", "Fcvtswu", "Fcvtsl", "Fcvtslu",
          "Fcvtdw", "Fcvtdwu", "Fcvtdl", "Fcvtdlu"}
XfOps == {"FclassS", "FclassD", "FmvXW", "FmvXD", "Fcvtws", "Fcvtwus", "Fcvtls",
          "Fcvtlus", "Fcvtwd", "Fcvtwud", "Fcvtld", "Fcvtlud"}
FCompareOps == {"Feqs", "Fles", "Flts", "Feqd", "Fled", "Fltd"}
FArithOps == {"Fmins", "Fmaxs", "Fsgnjs", "Fsgnjns", "Fsgnjxs", "Fadds", "Fsubs",
              "Fmuls", "Fdivs", "Fsqrts", "Fmadds", "Fmsubs", "Fnmsubs", "Fnmadds",
              "Fmind", "Fmaxd", "Fsgnjd", "Fsgnjnd", "Fsgnjxd", "Faddd", "Fsubd",
              "Fmuld", "Fdivd", "Fsqrtd", "Fmaddd", "Fmsubd", "Fnmsubd", "Fnmaddd",
              "Fcvtds", "Fcvtsd"}
FloatOps == FLoadOps \cup FStoreOps \cup FxOps \cup XfOps \cup FCompareOps
              \cup FArithOps \cup {"CFldsp", "CFsdsp"}

run(h, instr, lib) ==
  LET op == instr.opcode
      a == instr.args IN
  CASE op \in X32ShiftOps -> impl_x32_shift_type(h, op, a)
    [] op \in MulHighOps -> impl_x64_mul_high_type(h, op, a)
    [] op \in ITypeOps -> impl_i_type(h, op, a)
    [] op \in DOMAIN Loads -> impl_load_type(h, op, a)
    [] op \in DOMAIN Stores -> impl_store_type(h, op, a)
    [] op \in DOMAIN Branches -> impl_branch(h, op, a)
    [] op \in DOMAIN ZeroBranches -> impl_branch_compare_zero(h, op, a)
    [] op \in AmoOps -> impl_amo_type(h, op, a)
    [] op \in CsrOps -> impl_csr_type(h, op, a)
    [] op \in CsrImmOps -> impl_csr_imm_type(h, op, a)
    [] op \in JumpOps -> impl_jump(h, op, a)
    [] op \in OtherOps -> impl_other(h, op, a)
    [] op \in FLoadOps -> impl_fload_type(h, op, a)
    [] op = "CFldsp" -> impl_cfload_sp_type(h, op, a)
    [] op \in FStoreOps -> impl_fstore_type(h, op, a)
    [] op = "CFsdsp" -> impl_fcss_type(h, op, a)
    [] op \in FCompareOps \cup FArithOps -> impl_f_r_type(h, op, a, lib)
    [] op \in FxOps -> impl_f_x_type(h, op, a, lib)
    [] op \in XfOps -> impl_x_f_type(h, op, a, lib)
    [] OTHER -> impl_r_type(h, op, a)

\* Whether the JIT can lower an opcode.
to_lowering(op) ==
  op \notin FloatOps \cup CsrOps \cup CsrImmOps \cup (AmoOps \ LoweredAtomics)

-----------------------------------------------------------------------------
(* The registers of an instruction as its function takes them, and as the  *)
(* tagged form stores them.                                                *)

AllNonZero == {"Add", "Sub", "X64Xor", "And", "Or", "Mul", "ShiftLeft",
               "ShiftRightUnsigned", "ShiftRightSigned"} \cup MulHighOps
NonZeroSource == (ITypeOps \ {"AddWordImmediate", "SetLessThanImmediateSigned",
                              "SetLessThanImmediateUnsigned"})
                 \cup {"X32ShiftLeftImm", "X32ShiftRightImmUnsigned",
                       "X32ShiftRightImmSigned", "Jalr", "JalrImm"}
NonZeroDest == {"SetLessThanSigned", "SetLessThanUnsigned", "AddWord", "SubWord",
                "X32ShiftLeft", "X32ShiftRightUnsigned", "X32ShiftRightSigned",
                "X64RemSigned", "X64RemUnsigned", "X32RemSigned", "X32RemUnsigned",
                "X64DivSigned", "X64DivUnsigned", "X32DivSigned", "X32DivUnsigned",
                "X32Mul", "AddWordImmediate", "SetLessThanImmediateSigned",
                "SetLessThanImmediateUnsigned", "Li", "AddImmediateToPC", "Jal",
                "JalrAbsolute"}

\* The fields that the function of op reads as NonZeroXRegister.
NonZeroFields(op) ==
  CASE op \in AllNonZero -> {"rd", "rs1", "rs2"}
    [] op \in NonZeroSource -> {"rd", "rs1"}
    [] op \in NonZeroDest -> {"rd"}
    [] op \in DOMAIN Branches -> {"rs1", "rs2"}
    [] op \in DOMAIN ZeroBranches \cup {"Jr", "JrImm"} -> {"rs1"}
    [] op \in {"Mv", "Neg"} -> {"rd", "rs2"}
    [] OTHER -> {}

\* The view the tagged form takes of each register.
opcode_to_argsshape(op) ==
  CASE op \in DOMAIN Loads \cup DOMAIN Stores \cup AmoOps \cup CsrOps \cup CsrImmOps
              \cup {"X32Mul"} -> [rd |-> "X", rs1 |-> "X", rs2 |-> "X"]
    [] op \in FArithOps -> [rd |-> "F", rs1 |-> "F", rs2 |-> "F"]
    [] op \in FLoadOps \cup FxOps \cup {"CFldsp"} -> [rd |-> "F", rs1 |-> "X", rs2 |-> "X"]
    [] op \in FCompareOps \cup XfOps -> [rd |-> "X", rs1 |-> "F", rs2 |-> "F"]
    [] op \in FStoreOps \cup {"CFsdsp"} -> [rd |-> "X", rs1 |-> "X", rs2 |-> "F"]
    [] op \in NonZeroDest \ {"X32Mul", "Li", "Jal", "JalrAbsolute"} ->
         [rd |-> "NZX", rs1 |-> "X", rs2 |-> "X"]
    [] OTHER -> [rd |-> "NZX", rs1 |-> "NZX", rs2 |-> "NZX"]

RegistersOf(view) ==
  CASE view = "X" -> XRegister [] view = "F" -> 0 .. 31 [] view = "NZX" -> NonZeroXRegister

=============================================================================
