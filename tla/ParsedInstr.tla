----------------------------- MODULE ParsedInstr -----------------------------
(***************************************************************************)
(* Parsed instructions: the argument types, as sets of records, and the    *)
(* variants that have each of them.                                        *)
(***************************************************************************)
EXTENDS Registers

FRegister == 0 .. 31

InstrRoundingMode == 0 .. 4 \cup {7}

RTypeArgs == [rd : XRegister, rs1 : XRegister, rs2 : XRegister]
NonZeroRdRTypeArgs == [rd : NonZeroXRegister, rs1 : XRegister, rs2 : XRegister]
ITypeArgs == [rd : XRegister, rs1 : XRegister, imm : Int]
NonZeroITypeArgs == [rd : NonZeroXRegister, rs1 : NonZeroXRegister, imm : Int]
SplitITypeArgs == [rd : XRegister, rs1 : XRegister, imm : Int]
NonZeroRdITypeArgs == [rd : NonZeroXRegister, rs1 : XRegister, imm : Int]
SBTypeArgs == [rs1 : XRegister, rs2 : XRegister, imm : Int]
NonZeroSBTypeArgs == [rs1 : NonZeroXRegister, rs2 : NonZeroXRegister, imm : Int]
UJTypeArgs == [rd : XRegister, imm : Int]
NonZeroRdUJTypeArgs == [rd : NonZeroXRegister, imm : Int]
CsrArgs == [rd : XRegister, rs1 : XRegister, csr : Int]
CsriArgs == [rd : XRegister, imm : Int, csr : Int]
FenceArgs == [pred : 0 .. 15, succ : 0 .. 15]
FRegToXRegArgs == [rd : XRegister, rs1 : FRegister]
XRegToFRegArgs == [rd : FRegister, rs1 : XRegister]
XRegToFRegArgsWithRounding == [rd : FRegister, rs1 : XRegister, rm : InstrRoundingMode]
FRegToXRegArgsWithRounding == [rd : XRegister, rs1 : FRegister, rm : InstrRoundingMode]
FCmpArgs == [rd : XRegister, rs1 : FRegister, rs2 : FRegister]
FRArgs == [rd : FRegister, rs1 : FRegister, rs2 : FRegister]
FR1ArgWithRounding == [rd : FRegister, rs1 : FRegister, rm : InstrRoundingMode]
FR2ArgsWithRounding ==
  [rd : FRegister, rs1 : FRegister, rs2 : FRegister, rm : InstrRoundingMode]
FR3ArgsWithRounding ==
  [rd : FRegister, rs1 : FRegister, rs2 : FRegister, rs3 : FRegister,
   rm : InstrRoundingMode]
FStoreArgs == [rs1 : XRegister, rs2 : FRegister, imm : Int]
FLoadArgs == [rd : FRegister, rs1 : XRegister, imm : Int]
AmoArgs == [rd : XRegister, rs1 : XRegister, rs2 : XRegister, aq : {0, 1}, rl : {0, 1}]
CRTypeArgs == [rd_rs1 : XRegister, rs2 : XRegister]
CNZRTypeArgs == [rd_rs1 : NonZeroXRegister, rs2 : NonZeroXRegister]
CRJTypeArgs == [rs1 : NonZeroXRegister]
CJTypeArgs == [imm : Int]
CIBTypeArgs == [rd_rs1 : XRegister, imm : Int]
CIBNZTypeArgs == [rd_rs1 : NonZeroXRegister, imm : Int]
CIBDTypeArgs == [rd_rs1 : FRegister, imm : Int]
CSSTypeArgs == [rs2 : XRegister, imm : Int]
CSSDTypeArgs == [rs2 : FRegister, imm : Int]

-----------------------------------------------------------------------------
(* The variants, and whether args may be the arguments of the variant op.  *)

BaseVariant(op, args) ==
  \/ /\ op \in {"Add", "Sub", "Xor", "Or", "And", "Sll", "Srl", "Sra", "Slt", "Sltu",
                "Addw", "Subw", "Sllw", "Srlw", "Sraw"}
     /\ args \in NonZeroRdRTypeArgs
  \/ op = "Addi" /\ args \in SplitITypeArgs
  \/ /\ op \in {"Addiw", "Xori", "Ori", "Andi", "Slli", "Srli", "Srai", "Slliw",
                "Srliw", "Sraiw", "Slti", "Sltiu"}
     /\ args \in NonZeroRdITypeArgs
  \/ op \in {"Lb", "Lh", "Lw", "Lbu", "Lhu", "Lwu", "Ld", "Jalr"} /\ args \in ITypeArgs
  \/ /\ op \in {"Sb", "Sh", "Sw", "Sd", "Beq", "Bne", "Blt", "Bge", "Bltu", "Bgeu"}
     /\ args \in SBTypeArgs
  \/ op \in {"Lui", "Auipc"} /\ args \in NonZeroRdUJTypeArgs
  \/ op = "Jal" /\ args \in UJTypeArgs

AtomicMulVariant(op, args) ==
  \/ /\ op \in {"Lrw", "Scw", "Amoswapw", "Amoaddw", "Amoxorw", "Amoandw", "Amoorw",
                "Amominw", "Amomaxw", "Amominuw", "Amomaxuw", "Lrd", "Scd", "Amoswapd",
                "Amoaddd", "Amoxord", "Amoandd", "Amoord", "Amomind", "Amomaxd",
                "Amominud", "Amomaxud"}
     /\ args \in AmoArgs
  \/ /\ op \in {"Rem", "Remu", "Remw", "Remuw", "Div", "Divu", "Divw", "Divuw", "Mul",
                "Mulh", "Mulhsu", "Mulhu", "Mulw"}
     /\ args \in RTypeArgs

FloatVariant(op, args) ==
  \/ op \in {"FclassS", "FclassD", "FmvXW", "FmvXD"} /\ args \in FRegToXRegArgs
  \/ op \in {"FmvWX", "FmvDX"} /\ args \in XRegToFRegArgs
  \/ op \in {"Feqs", "Fles", "Flts", "Feqd", "Fled", "Fltd"} /\ args \in FCmpArgs
  \/ /\ op \in {"Fadds", "Fsubs", "Fmuls", "Fdivs", "Faddd", "Fsubd", "Fmuld", "Fdivd"}
     /\ args \in FR2ArgsWithRounding
  \/ op \in {"Fsqrts", "Fsqrtd", "Fcvtds", "Fcvtsd"} /\ args \in FR1ArgWithRounding
  \/ /\ op \in {"Fmins", "Fmaxs", "Fsgnjs", "Fsgnjns", "Fsgnjxs", "Fmind", "Fmaxd",
                "Fsgnjd", "Fsgnjnd", "Fsgnjxd"}
     /\ args \in FRArgs
  \/ /\ op \in {"Fmadds", "Fmsubs", "Fnmsubs", "Fnmadds", "Fmaddd", "Fmsubd", "Fnmsubd",
                "Fnmaddd"}
     /\ args \in FR3ArgsWithRounding
  \/ op \in {"Flw", "Fld"} /\ args \in FLoadArgs
  \/ op \in {"Fsw", "Fsd"} /\ args \in FStoreArgs
  \/ /\ op \in {"Fcvtsw", "Fcvtswu", "Fcvtsl", "Fcvtslu", "Fcvtdw", "Fcvtdwu", "Fcvtdl",
                "Fcvtdlu"}
     /\ args \in XRegToFRegArgsWithRounding
  \/ /\ op \in {"Fcvtws", "Fcvtwus", "Fcvtls", "Fcvtlus", "Fcvtwd", "Fcvtwud", "Fcvtld",
                "Fcvtlud"}
     /\ args \in FRegToXRegArgsWithRounding

CsrVariant(op, args) ==
  \/ op \in {"Csrrw", "Csrrs", "Csrrc"} /\ args \in CsrArgs
  \/ op \in {"Csrrwi", "Csrrsi", "Csrrci"} /\ args \in CsriArgs

CompressedVariant(op, args) ==
  \/ op \in {"CLw", "CLd"} /\ args \in NonZeroITypeArgs
  \/ op \in {"CSw", "CSd"} /\ args \in NonZeroSBTypeArgs
  \/ /\ op \in {"CLwsp", "CLdsp", "CLi", "CLui", "CAddi", "CAddiw", "CSlli"}
     /\ args \in CIBNZTypeArgs
  \/ op \in {"CSwsp", "CSdsp"} /\ args \in CSSTypeArgs
  \/ op \in {"CJ", "CAddi16sp"} /\ args \in CJTypeArgs
  \/ op \in {"CJr", "CJalr"} /\ args \in CRJTypeArgs
  \/ /\ op \in {"CBeqz", "CBnez", "CAddi4spn", "CSrli", "CSrai", "CAndi"}
     /\ args \in CIBTypeArgs
  \/ op \in {"CMv", "CAdd"} /\ args \in CNZRTypeArgs
  \/ op \in {"CAnd", "COr", "CXor", "CSub", "CAddw", "CSubw"} /\ args \in CRTypeArgs

DoubleCompressedVariant(op, args) ==
  \/ op = "CFld" /\ args \in FLoadArgs
  \/ op = "CFldsp" /\ args \in CIBDTypeArgs
  \/ op = "CFsd" /\ args \in FStoreArgs
  \/ op = "CFsdsp" /\ args \in CSSDTypeArgs

\* The variants that have no arguments, the halfwords themselves left out.
PlainVariant == {"CNop", "Unknown", "UnknownCompressed", "Hint", "HintCompressed", "Wfi",
                 "Ecall"}

InstrCacheable(p) ==
  LET args == [f \in DOMAIN p \ {"op"} |-> p[f]] IN
  \/ BaseVariant(p.op, args)
  \/ AtomicMulVariant(p.op, args)
  \/ FloatVariant(p.op, args)
  \/ CsrVariant(p.op, args)
  \/ CompressedVariant(p.op, args)
  \/ DoubleCompressedVariant(p.op, args)
  \/ p.op \in PlainVariant

InstrUncacheable == {"Fence", "FenceTso", "Ebreak", "CEbreak", "FenceI"}

\* The variants that are two bytes long.
CompressedVariants ==
  {"CLw", "CLwsp", "CSw", "CSwsp", "CJ", "CJr", "CJalr", "CBeqz", "CBnez", "CLi", "CLui",
   "CAddi", "CAddi16sp", "CAddi4spn", "CSlli", "CSrli", "CSrai", "CAndi", "CMv", "CAdd",
   "CAnd", "CXor", "COr", "CSub", "CAddw", "CSubw", "CNop", "CLd", "CLdsp", "CSd",
   "CSdsp", "CAddiw", "CFld", "CFldsp", "CFsd", "CFsdsp", "UnknownCompressed",
   "HintCompressed", "CEbreak"}

InstrWidth == [Compressed |-> 2, Uncompressed |-> 4]

width(p) ==
  IF p.op \in CompressedVariants THEN InstrWidth.Compressed ELSE InstrWidth.Uncompressed

==============================================================================
