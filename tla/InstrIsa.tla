------------------------------ MODULE InstrIsa ------------------------------
(***************************************************************************)
(* What the integer, memory and CSR instructions do, written from the      *)
(* RISC-V unprivileged specification: the reference that the decoded and   *)
(* simplified instructions are checked against.  Only the hart's           *)
(* representation and the signed reading of a value are InstrContext's.    *)
(***************************************************************************)
EXTENDS InstrContext, InstrEncoding

X(h, r) == IF r = 0 THEN 0 ELSE h.xs[r - 1]
SetX(h, r, v) == IF r = 0 THEN h ELSE [h EXCEPT !.xs[r - 1] = v]

\* Division rounds towards zero.
Div(a, b) == IF (a < 0) # (b < 0) THEN 0 - (Abs(a) \div Abs(b)) ELSE Abs(a) \div Abs(b)

\* The operation of a register-register instruction at width w.
Alu(f, x, y, w) ==
  LET sx == Signed(x, w)
      sy == Signed(y, w)
      amount == y % w
      bool(b) == IF b THEN 1 ELSE 0 IN
  CASE f = "add" -> (x + y) % 2^w
    [] f = "sub" -> (x - y) % 2^w
    [] f = "sll" -> (x * 2^amount) % 2^w
    [] f = "srl" -> x \div 2^amount
    [] f = "sra" -> (sx \div 2^amount) % 2^w
    [] f = "slt" -> bool(sx < sy)
    [] f = "sltu" -> bool(x < y)
    [] f = "xor" -> x ^^ y
    [] f = "or" -> x | y
    [] f = "and" -> x & y
    [] f = "mul" -> (x * y) % 2^w
    [] f = "mulh" -> ((sx * sy) \div 2^w) % 2^w
    [] f = "mulhsu" -> ((sx * y) \div 2^w) % 2^w
    [] f = "mulhu" -> (x * y) \div 2^w
    [] f = "div" -> IF y = 0 THEN 2^w - 1 ELSE Div(sx, sy) % 2^w
    [] f = "divu" -> IF y = 0 THEN 2^w - 1 ELSE x \div y
    [] f = "rem" -> IF y = 0 THEN x ELSE (sx - sy * Div(sx, sy)) % 2^w
    [] f = "remu" -> IF y = 0 THEN x ELSE x % y
    [] f = "swap" -> y
    [] f = "min" -> IF sx < sy THEN x ELSE y
    [] f = "max" -> IF sx < sy THEN y ELSE x
    [] f = "minu" -> IF x < y THEN x ELSE y
    [] f = "maxu" -> IF x < y THEN y ELSE x

\* The operation behind a mnemonic, and whether it works on words.
Operation ==
  [addi |-> "add", slti |-> "slt", sltiu |-> "sltu", xori |-> "xor", ori |-> "or",
   andi |-> "and", slli |-> "sll", srli |-> "srl", srai |-> "sra",
   addw |-> "add", subw |-> "sub", sllw |-> "sll", srlw |-> "srl", sraw |-> "sra",
   mulw |-> "mul", divw |-> "div", divuw |-> "divu", remw |-> "rem",
   remuw |-> "remu", addiw |-> "add", slliw |-> "sll", srliw |-> "srl",
   sraiw |-> "sra",
   swap_w |-> "swap", add_w |-> "add", xor_w |-> "xor", and_w |-> "and",
   or_w |-> "or", min_w |-> "min", max_w |-> "max", minu_w |-> "minu",
   maxu_w |-> "maxu", swap_d |-> "swap", add_d |-> "add", xor_d |-> "xor",
   and_d |-> "and", or_d |-> "or", min_d |-> "min", max_d |-> "max",
   minu_d |-> "minu", maxu_d |-> "maxu"]
OnWords ==
  {"addw", "subw", "sllw", "srlw", "sraw", "mulw", "divw", "divuw", "remw", "remuw",
   "addiw", "slliw", "srliw", "sraiw"}

SextWord(v) == Signed(v, WLEN) % 2^XLEN

Computed(m, x, y) ==
  LET f == IF m \in DOMAIN Operation THEN Operation[m] ELSE m IN
  IF m \in OnWords THEN SextWord(Alu(f, x % 2^WLEN, y % 2^WLEN, WLEN))
                   ELSE Alu(f, x, y, XLEN)

Taken(m, x, y) ==
  CASE m = "beq" -> x = y
    [] m = "bne" -> x # y
    [] m = "blt" -> Signed(x, XLEN) < Signed(y, XLEN)
    [] m = "bge" -> Signed(x, XLEN) >= Signed(y, XLEN)
    [] m = "bltu" -> x < y
    [] m = "bgeu" -> x >= y

Size == [lb |-> 1, lh |-> 2, lw |-> 4, ld |-> 8, lbu |-> 1, lhu |-> 2, lwu |-> 4,
         sb |-> 1, sh |-> 2, sw |-> 4, sd |-> 8]
Unsigned == {"lbu", "lhu", "lwu"}
AmoSize(m) == IF AmoType[m][2] = 2 THEN 4 ELSE 8

Loaded(h, addr, n) == MapThenSumSet(LAMBDA i : h.mem[addr + i] * 2^(BYTE * i), 0 .. n - 1)
Stored(h, addr, n, v) ==
  [h EXCEPT !.mem = [b \in DOMAIN h.mem |->
     IF b \in Bytes(addr, n) THEN (v \div 2^(BYTE * (b - addr))) % 2^BYTE ELSE h.mem[b]]]
Sext(v, n) == Signed(v, n * BYTE) % 2^XLEN

-----------------------------------------------------------------------------
(* The step: the hart after it, with pc moved, or the exception it raises. *)

Goes(h, pc) == [h |-> [h EXCEPT !.pc = pc % 2^XLEN], err |-> "none"]
Raises(h, exception) == [h |-> h, err |-> exception]

LoadStep(h, a, next) ==
  LET addr == (X(h, a.rs1) + a.imm) % 2^XLEN
      n == Size[a.m]
      v == Loaded(h, addr, n) IN
  IF Bytes(addr, n) \subseteq Readable
  THEN Goes(SetX(h, a.rd, IF a.m \in Unsigned THEN v ELSE Sext(v, n)), next)
  ELSE Raises(h, "LoadAccessFault")

StoreStep(h, a, next) ==
  LET addr == (X(h, a.rs1) + a.imm) % 2^XLEN IN
  IF Bytes(addr, Size[a.m]) \subseteq Writable
  THEN Goes(Stored(h, addr, Size[a.m], X(h, a.rs2)), next)
  ELSE Raises(h, "StoreAMOAccessFault")

\* An atomic access must be aligned.  Of a location that can be read and not
\* written the reference says nothing: see Specified.
AmoStep(h, a, next) ==
  LET addr == X(h, a.rs1)
      n == AmoSize(a.m)
      old == Loaded(h, addr, n)
      new == Alu(Operation[a.m], old, X(h, a.rs2) % 2^(n * BYTE), n * BYTE) IN
  CASE addr % n # 0 -> Raises(h, "StoreAMOAccessFault")
    [] addr % n = 0 /\ ~(Bytes(addr, n) \subseteq Readable) ->
         Raises(h, "LoadAccessFault")
    [] OTHER -> Goes(SetX(Stored(h, addr, n, new), a.rd, Sext(old, n)), next)

\* The registers fflags (1) and frm (2) are the low five and the next three
\* bits of fcsr (3); registers numbered from 3072 on are read-only.
CsrGet(h, r) ==
  CASE r = 1 -> h.csr.fcsr % 2^5
    [] r = 2 -> h.csr.fcsr \div 2^5
    [] r = 3 -> h.csr.fcsr
    [] OTHER -> h.csr.counter
CsrSet(h, r, v) ==
  [h EXCEPT !.csr.fcsr = CASE r = 1 -> (@ \div 2^5) * 2^5 + (v % 2^5)
                           [] r = 2 -> (@ % 2^5) + (v % 2^3) * 2^5
                           [] r = 3 -> v % 2^8]

CsrStep(h, a, next) ==
  LET imm == a.m \in DOMAIN CsrImmType
      v == IF imm THEN a.imm ELSE X(h, a.rs1)
      old == CsrGet(h, a.csr)
      writes == a.m \in {"csrrw", "csrrwi"} \/ (IF imm THEN a.imm # 0 ELSE a.rs1 # 0)
      new == CASE a.m \in {"csrrw", "csrrwi"} -> v
               [] a.m \in {"csrrs", "csrrsi"} -> old | v
               [] a.m \in {"csrrc", "csrrci"} -> old - (old & v) IN
  CASE writes /\ a.csr >= 3072 -> Raises(h, "IllegalInstruction")
    [] writes /\ a.csr < 3072 -> Goes(SetX(CsrSet(h, a.csr, new), a.rd, old), next)
    [] ~writes -> Goes(SetX(h, a.rd, old), next)

\* The step of instruction b, which is a, or what a stands for.
IsaStep(h, a) ==
  LET b == Expanded(a)
      next == h.pc + Width(a)
      m == b.m
      imm == b.imm % 2^XLEN IN
  CASE m \in DOMAIN RType ->
         Goes(SetX(h, b.rd, Computed(m, X(h, b.rs1), X(h, b.rs2))), next)
    [] m \in DOMAIN IType \cup DOMAIN ShiftType ->
         Goes(SetX(h, b.rd, Computed(m, X(h, b.rs1), imm)), next)
    [] m = "lui" -> Goes(SetX(h, b.rd, imm), next)
    [] m = "auipc" -> Goes(SetX(h, b.rd, (h.pc + imm) % 2^XLEN), next)
    [] m = "jal" -> Goes(SetX(h, b.rd, next % 2^XLEN), h.pc + imm)
    [] m = "jalr" ->
         LET target == (X(h, b.rs1) + imm) % 2^XLEN IN
         Goes(SetX(h, b.rd, next % 2^XLEN), target - (target % 2))
    [] m \in DOMAIN BranchType ->
         Goes(h, IF Taken(m, X(h, b.rs1), X(h, b.rs2)) THEN h.pc + imm ELSE next)
    [] m \in DOMAIN LoadType -> LoadStep(h, b, next)
    [] m \in DOMAIN StoreType -> StoreStep(h, b, next)
    [] m \in DOMAIN Operation -> AmoStep(h, b, next)
    [] m \in DOMAIN CsrType \cup DOMAIN CsrImmType -> CsrStep(h, b, next)
    [] m = "ecall" -> Raises(h, "EnvCall")
    [] m = "ebreak" -> Raises(h, "Breakpoint")
    [] m \in {"fence", "fence_i", "wfi"} -> Goes(h, next)

\* The steps the reference determines: not the load-reserved and store-
\* conditional pair, whose outcome depends on the past, and not an atomic
\* operation on memory that is readable only, which the code answers with
\* rd already written.
Specified(h, a) ==
  LET b == Expanded(a)
      addr == X(h, b.rs1) IN
  /\ b.m \notin {"lr_w", "lr_d", "sc_w", "sc_d"}
  /\ b.m \in DOMAIN AmoType /\ Bytes(addr, AmoSize(b.m)) \subseteq Readable =>
       Bytes(addr, AmoSize(b.m)) \subseteq Writable

=============================================================================
