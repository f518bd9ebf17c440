------------------------------ MODULE InstrHart ------------------------------
(***************************************************************************)
(* The hart as instructions see it, and what the two contexts that run     *)
(* them share: widths, results, registers and the main memory.             *)
(*                                                                         *)
(* BYTE is the number of bits of a byte, 8 in the machine.  Every width is *)
(* a multiple of it, so a smaller BYTE scales the machine down: registers  *)
(* of 8 * BYTE bits, words of 4 * BYTE, and one cell of BYTE bits at every *)
(* address.                                                                *)
(***************************************************************************)
EXTENDS Registers, FiniteSetsExt

CONSTANTS BYTE,       \* bits in a byte
          Readable,   \* addresses a load may touch
          Writable    \* addresses a store may touch

XLEN == 8 * BYTE
WLEN == 4 * BYTE

XValue == 0 .. 2^XLEN - 1

\* A panic of the interpreter, or a trap of the generated code, as a value.
Trap == -1

Signed(v, w) == IF v >= 2^(w - 1) THEN v - 2^w ELSE v

Abs(n) == IF n < 0 THEN 0 - n ELSE n

\* Rust's and Cranelift's division rounds towards zero.
Quotient(a, b) ==
  LET q == Abs(a) \div Abs(b) IN IF (a < 0) # (b < 0) THEN 0 - q ELSE q

\* A shift by less than the width.
Shifted(kind, x, n, w) ==
  CASE kind = "Left" -> (x * 2^n) % 2^w
    [] kind = "RightUnsigned" -> x \div 2^n
    [] kind = "RightSigned" -> (Signed(x, w) \div 2^n) % 2^w

-----------------------------------------------------------------------------
(* The hart h is a record: registers xs and fs, pc, the memory's cells mem, *)
(* the reservation res, and the control and status registers csr.          *)

xregister_read(h, reg) == read(h.xs, reg)
xregister_write(h, reg, v) == [h EXCEPT !.xs = write(@, reg, v)]
xregister_read_nz(h, reg) == read_nz(h.xs, reg)
xregister_write_nz(h, reg, v) == [h EXCEPT !.xs = write_nz(@, reg, v)]
fregister_read(h, reg) == h.fs[reg]
fregister_write(h, reg, v) == [h EXCEPT !.fs[reg] = v]
pc_read(h) == h.pc

\* The result of a step that may fail.
Ok(h) == [h |-> h, err |-> "none", addr |-> 0, val |-> 0]
OkWith(h, v) == [Ok(h) EXCEPT !.val = v]
Err(h, exception, addr) == [Ok(h) EXCEPT !.err = exception, !.addr = addr]

\* Memory is little endian.  An access is of n bytes.
Bytes(addr, n) == addr .. addr + n - 1

memory_read(h, addr, n) ==
  IF Bytes(addr, n) \subseteq Readable
  THEN OkWith(h, MapThenSumSet(LAMBDA i : h.mem[addr + i] * 2^(BYTE * i), 0 .. n - 1))
  ELSE Err(h, "LoadAccessFault", addr)

memory_write(h, addr, v, n) ==
  IF Bytes(addr, n) \subseteq Writable
  THEN Ok([h EXCEPT !.mem =
        [a \in DOMAIN @ |-> IF a \in Bytes(addr, n)
                            THEN (v \div 2^(BYTE * (a - addr))) % 2^BYTE
                            ELSE @[a]]])
  ELSE Err(h, "StoreAMOAccessFault", addr)

UNSET_VALUE == 2^XLEN - 1
RES_SET_SIZE == 8

reservation_set_align_address(addr) == addr - (addr % RES_SET_SIZE)

reservation_set_write(h, addr) == [h EXCEPT !.res = addr]
reservation_set_read(h) == h.res

reset_reservation_set(h) == reservation_set_write(h, UNSET_VALUE)

=============================================================================
