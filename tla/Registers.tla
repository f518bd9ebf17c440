------------------------------ MODULE Registers ------------------------------
(***************************************************************************)
(* Integer registers.  A register is its u8 representation in the code,    *)
(* which is also its index into the 31 cells of the register file: x1 is   *)
(* 0, x31 is 30, and x0, which has no cell, is u8::MAX.                     *)
(***************************************************************************)
EXTENDS Integers

x0 == 255
ra == 0
sp == 1

XRegister == {x0} \cup 0..30

NonZeroXRegister == 0..30

parse_xregister(r) == (r - 1) % 256

\* Floating-point registers have no special member: f0 is 0, f31 is 31.
parse_fregister(r) == r

-----------------------------------------------------------------------------
(* The register file xs maps the indices of the cells to their values.     *)

read(xs, reg) == IF reg = x0 THEN 0 ELSE xs[reg]

write(xs, reg, val) == IF reg = x0 THEN xs ELSE [xs EXCEPT ![reg] = val]

\* The accesses that do not check for x0: it has no cell.
read_nz(xs, reg) == xs[reg]

write_nz(xs, reg, val) == [xs EXCEPT ![reg] = val]

==============================================================================
