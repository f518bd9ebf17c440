------------------------------- MODULE MCInstr -------------------------------
(***************************************************************************)
(* Every instruction of the machine, with operands that alias and that are *)
(* x0, and the values at which arithmetic and memory accesses change case. *)
(***************************************************************************)
EXTENDS InstrPipeline

R3(M, D, S) == {[Asm(m) EXCEPT !.rd = d, !.rs1 = s, !.rs2 = t] :
                  m \in M, d \in D, s \in S, t \in S}
R2I(M, D, S, I) == {[Asm(m) EXCEPT !.rd = d, !.rs1 = s, !.imm = i] :
                      m \in M, d \in D, s \in S, i \in I}
S2I(M, S, T, I) == {[Asm(m) EXCEPT !.rs1 = s, !.rs2 = t, !.imm = i] :
                      m \in M, s \in S, t \in T, i \in I}
R1I(M, D, I) == {[Asm(m) EXCEPT !.rd = d, !.imm = i] : m \in M, d \in D, i \in I}

\* Integer instructions.  Two are left out with x0 as their destination: divuw,
\* which the parser does not know then, and mulw, see MCSinglesMulw.
Base ==
  {a \in R3(DOMAIN RType, {0, 1}, {0, 1, 2}) : a.m \notin {"mulw", "divuw"} \/ a.rd # 0}
  \cup R2I(DOMAIN IType, {0, 1}, {0, 1, 2}, {-128, -1, 0, 5})
  \cup R2I({"slli", "srli", "srai"}, {0, 1}, {0, 1, 2}, {0, 7})
  \cup R2I({"slliw", "srliw", "sraiw"}, {0, 1}, {0, 1, 2}, {0, 3})
  \cup R2I(DOMAIN LoadType, {0, 1}, {0, 2}, {-1, 0, 8})
  \cup S2I(DOMAIN StoreType, {0, 1}, {0, 1, 2}, {-1, 0, 8})
  \cup S2I(DOMAIN BranchType, {0, 1, 2}, {0, 1, 2}, {-4, 8})
  \cup R1I(DOMAIN UType, {0, 1}, {-2147479552, 4096})
  \cup R1I({"jal"}, {0, 1}, {-2, 8})
  \cup R2I({"jalr"}, {0, 1}, {0, 1, 2}, {-1, 0, 4})
  \cup R3(DOMAIN AmoType \ {"lr_w", "lr_d"}, {0, 1}, {1, 2})
  \cup R2I({"lr_w", "lr_d"}, {0, 1}, {1}, {0})
  \cup {[Asm(m) EXCEPT !.rd = d, !.rs1 = s, !.csr = c] :
          m \in DOMAIN CsrType, d \in {0, 1}, s \in {0, 1}, c \in {1, 2, 3, 3074}}
  \cup {[Asm(m) EXCEPT !.rd = d, !.imm = i, !.csr = c] :
          m \in DOMAIN CsrImmType, d \in {0, 1}, i \in {0, 9}, c \in {1, 2, 3, 3074}}
  \cup {Asm(m) : m \in DOMAIN SystemType}
  \cup R1I({"fence"}, {0}, {0, 255})

\* The compressed ones: registers x8 and x9 where only eight can be named, no
\* encoding that is reserved.
Compressed ==
  R1I({"c_addi4spn"}, {8}, {4, 1020})
  \cup R2I({"c_lw", "c_ld"}, {8}, {8, 9}, {0, 8, 120})
  \cup S2I({"c_sw", "c_sd"}, {8}, {8, 9}, {0, 8, 120})
  \cup R1I({"c_addi", "c_li"}, {0, 1}, {-32, 0, 31})
  \cup R1I({"c_addiw"}, {1}, {-32, 0, 31})
  \cup R1I({"c_addi16sp"}, {2}, {-512, 16, 480})
  \cup R1I({"c_lui"}, {0, 1}, {-131072, 4096})
  \cup R1I({"c_srli", "c_srai"}, {8}, {1, 7})
  \cup R1I({"c_andi"}, {8}, {-32, 0, 21})
  \cup {[Asm(m) EXCEPT !.rd = 8, !.rs2 = t] :
          m \in {"c_sub", "c_xor", "c_or", "c_and", "c_subw", "c_addw"}, t \in {8, 9}}
  \cup R1I({"c_j"}, {0}, {-2048, 682})
  \cup S2I({"c_beqz", "c_bnez"}, {8}, {0}, {-256, 170})
  \cup R1I({"c_slli"}, {0, 1}, {1, 7})
  \cup R1I({"c_lwsp"}, {1, 2}, {0, 4, 252})
  \cup R1I({"c_ldsp"}, {1, 2}, {0, 8, 504})
  \cup S2I({"c_swsp"}, {0}, {1, 2}, {0, 4, 252})
  \cup S2I({"c_sdsp"}, {0}, {1, 2}, {0, 8, 504})
  \cup S2I({"c_jr", "c_jalr"}, {1, 2}, {0}, {0})
  \cup {[Asm(m) EXCEPT !.rd = d, !.rs2 = t] : m \in {"c_mv", "c_add"}, d \in {0, 1}, t \in {1, 2}}
  \cup {Asm("c_ebreak")}

MCSingles == Base \cup Compressed

\* With the instruction that is left out above.
MCSinglesMulw == MCSingles \cup R3({"mulw"}, {0}, {0, 1, 2})

\* Immediates at the ends of their ranges, which a narrow machine cannot hold.
MCDecodeOnly ==
  R2I({"addi", "xori", "jalr", "lw", "flw"}, {1}, {2}, {-2048, 2047, 1365})
  \cup S2I({"sw", "fsd"}, {1}, {2}, {-2048, 2047, 1365})
  \cup S2I({"beq", "bgeu"}, {1}, {2}, {-4096, 4094, 2730})
  \cup R1I({"jal"}, {0, 1}, {-1048576, 1048574, 699050, -699052})
  \cup R1I({"lui", "auipc"}, {1}, {2147479552, 1431654400, -1431654400})
  \cup R2I({"slli", "srli", "srai"}, {1}, {2}, {31, 32, 63})
  \cup R2I({"slliw", "srliw", "sraiw"}, {1}, {2}, {16, 31})
  \cup R1I({"fence"}, {0}, {2099})
  \cup R1I({"c_slli"}, {1}, {32, 63}) \cup R1I({"c_srli", "c_srai"}, {8}, {32, 63})
  \cup R2I({"c_fld"}, {8}, {9}, {8, 248}) \cup S2I({"c_fsd"}, {8}, {9}, {8, 248})
  \cup R1I({"c_fldsp"}, {1}, {8, 504}) \cup S2I({"c_fsdsp"}, {0}, {1}, {8, 504})

\* Blocks: arithmetic, every way to leave a block, and reservations.
MCBlockable ==
  {[Asm("addi") EXCEPT !.rd = 1, !.rs1 = 1, !.imm = 8],
   [Asm("auipc") EXCEPT !.rd = 1],
   [Asm("beq") EXCEPT !.rs1 = 1, !.rs2 = 2, !.imm = 16],
   [Asm("c_bnez") EXCEPT !.rs1 = 8, !.imm = -4],
   [Asm("jal") EXCEPT !.rd = 1, !.imm = 8],
   [Asm("sd") EXCEPT !.rs1 = 2, !.rs2 = 1],
   [Asm("lr_d") EXCEPT !.rd = 8, !.rs1 = 2],
   [Asm("lr_w") EXCEPT !.rd = 8, !.rs1 = 1],
   [Asm("sc_d") EXCEPT !.rd = 9, !.rs1 = 2, !.rs2 = 1],
   [Asm("sc_w") EXCEPT !.rd = 9, !.rs1 = 1, !.rs2 = 2],
   [Asm("add_d") EXCEPT !.rd = 1, !.rs1 = 2, !.rs2 = 1],
   [Asm("csrrs") EXCEPT !.rd = 1, !.csr = 3],
   Asm("ecall")}

\* 16 bytes of memory, the last four of them not to be written.
MCReadable == 8 .. 23
MCWritable == 8 .. 19

Hart(v, w, res) ==
  [xs |-> [r \in {0, 1, 7, 8} |-> IF r \in {0, 7} THEN v ELSE w],
   fs |-> [r \in {0, 1} |-> 0], pc |-> 16,
   mem |-> [b \in MCReadable |-> IF b % 3 = 0 \/ b = 19 THEN 1 ELSE 0], res |-> res,
   csr |-> [fcsr |-> 161, counter |-> 0]]

\* The reservation set holds all ones when unset.
MCHarts == {Hart(v, w, 255) : v \in {0, 3, 8, 128, 255}, w \in {0, 3, 16, 128, 255}}
MCBlockHarts == {Hart(0, w, res) : w \in {8, 16}, res \in {16, 255}}
                \cup {Hart(12, 16, 255), Hart(12, 128, 255)}

-----------------------------------------------------------------------------
(* Floating point: f0 and f1 hold singles, boxed and not, and doubles.     *)

Rm == {0, 5, 7}
MCFloatSingles ==
  {[Asm(m) EXCEPT !.rd = 1, !.rs2 = 1, !.rs3 = 1, !.rm = r] :
     m \in DOMAIN FArithType \cup DOMAIN FusedType \cup DOMAIN FConvertType, r \in Rm}
  \cup {[Asm(m) EXCEPT !.rd = d, !.rs1 = 1 - d, !.rs2 = 1] :
          m \in DOMAIN FExactType \cup DOMAIN FMoveType, d \in {0, 1}}
  \cup R2I(DOMAIN FLoadType, {0, 1}, {1}, {0, 8})
  \cup S2I(DOMAIN FStoreType, {1}, {0, 1}, {0, 8})
  \cup R2I({"c_fld"}, {8}, {8}, {0, 8}) \cup S2I({"c_fsd"}, {8}, {8}, {0, 8})
  \cup R1I({"c_fldsp"}, {1}, {0, 8}) \cup S2I({"c_fsdsp"}, {0}, {1}, {0, 8})

\* Boxed 1.0, -0, infinity and a signaling NaN; as doubles 1.5, +0, and the
\* smallest negative number.
MCFloats == {65336, 65408, 65400, 65401, 15872, 0, 32769}

FloatHart(v, w, mode) ==
  [xs |-> [r \in {0, 1, 7, 8} |-> 8],
   fs |-> [r \in {0, 1, 2, 8} |-> IF r \in {0, 8} THEN v ELSE w], pc |-> 16,
   mem |-> [b \in MCReadable |-> b % 4], res |-> 65535,
   csr |-> [fcsr |-> mode * 32 + 1, counter |-> 0]]
MCFloatHarts == {FloatHart(v, w, 1) : v \in MCFloats, w \in MCFloats}
                \cup {FloatHart(v, v, 6) : v \in MCFloats}

\* Exact and finite, or inexact and a NaN that is not the canonical one.
MCLibs == {[status |-> 0, value |-> 17], [status |-> 16, value |-> 32637]}

==============================================================================
