--------------------------- MODULE ProgramLoader ----------------------------
(***************************************************************************)
(* Loading an ELF file into a `Program` (kernel_loader.rs, program.rs).    *)
(* The loader copies each loadable segment, fills it up with zeroes and,   *)
(* for a relocatable file, writes the relocated addresses over what it     *)
(* copied.  `Program` keeps what is written as chunks in a BTreeMap from   *)
(* address to bytes, and the chunks are what reaches the machine's memory. *)
(* A flat buffer, the other implementation of the trait `Memory`, takes    *)
(* the same writes and is the reference.                                   *)
(***************************************************************************)
EXTENDS Integers, Sequences

CONSTANTS
  SIZE,                   \* bytes of the address space
  BYTES,                  \* the values of a byte, 0 among them
  RELA_BYTES              \* the size of a relocated address (8 in the code)

\* What is assumed of the constants
ASSUME LoaderAssumption ==
  /\ SIZE \in Nat \ {0} /\ RELA_BYTES \in 1..SIZE
  /\ 0 \in BYTES

VARIABLES
  file,                   \* the kind of file, see Files
  segments,               \* Program::segments: start of a chunk |-> its bytes
  buffer,                 \* Cursor<Vec<u8>>, the reference
  stage                   \* "segments", "relas", then "loaded"

load_vars == <<file, segments, buffer, stage>>

Locations == 0..(SIZE - 1)
Highest(S) == CHOOSE a \in S : \A b \in S : b <= a
Lowest(S) == CHOOSE a \in S : \A b \in S : a <= b
Covers(a, bytes) == a..(a + Len(bytes) - 1)

\* relocatable: ET_DYN, else ET_EXEC; ascending: the headers come in ascending
\* order and disjoint, as ELF prescribes, which the loader does not check
Files == [relocatable : BOOLEAN, ascending : BOOLEAN]

LoadInit ==
  /\ file \in Files
  /\ segments = <<>>
  /\ buffer = [a \in Locations |-> 0]
  /\ stage = "segments"

-----------------------------------------------------------------------------
(* impl Memory for Program *)

\* Mutant: a chunk that ends at paddr loses its last byte
ShrinkPrevious_Inclusive(segs, paddr) ==
  LET before == {a \in DOMAIN segs : a < paddr}
      prev == Highest(before)
  IN IF before # {} /\ paddr <= prev + Len(segs[prev])
     THEN [segs EXCEPT ![prev] = SubSeq(@, 1, paddr - prev - 1)]
     ELSE segs

\* The chunk in front of paddr ends at paddr at the latest
ShrinkPrevious(segs, paddr) ==
  LET before == {a \in DOMAIN segs : a < paddr}
      prev == Highest(before)
  IN IF before # {} /\ paddr < prev + Len(segs[prev])
     THEN [segs EXCEPT ![prev] = SubSeq(@, 1, paddr - prev)]
     ELSE segs

\* Mutant: a longer chunk at the address is kept as it is
Overwrite_Keep(chunk, bytes) ==
  IF Len(chunk) >= Len(bytes) THEN chunk ELSE bytes

\* The bytes are written over the front of a chunk at the same address, or
\* replace it if they are longer
Overwrite(chunk, bytes) ==
  IF Len(chunk) >= Len(bytes)
  THEN bytes \o SubSeq(chunk, Len(bytes) + 1, Len(chunk))
  ELSE bytes

\* The bytes are cut where chunks begin: each piece becomes the chunk at its
\* start, the last one is written over the chunk that begins there
Inserted(segs, paddr, bytes) ==
  LET shrunk == ShrinkPrevious(segs, paddr)
      after == paddr + Len(bytes)
      starts == {paddr} \cup {a \in DOMAIN segs : paddr <= a /\ a < after}
      last == Highest(starts)
      EndOf(s) == Lowest({t \in starts : t > s} \cup {after})
      Piece(s) == SubSeq(bytes, s - paddr + 1, EndOf(s) - paddr)
  IN [s \in DOMAIN segs \cup starts |->
        IF s \notin starts THEN shrunk[s]
        ELSE IF s = last /\ s \in DOMAIN segs THEN Overwrite(shrunk[s], Piece(s))
        ELSE Piece(s)]

write_bytes(segs, paddr, bytes) ==
  IF bytes = <<>> THEN segs ELSE Inserted(segs, paddr, bytes)

\* impl Memory for Cursor
write_flat(buf, paddr, bytes) ==
  [a \in Locations |-> IF a \in Covers(paddr, bytes) THEN bytes[a - paddr + 1] ELSE buf[a]]

-----------------------------------------------------------------------------
(* The loader *)

Zeroes(n) == [i \in 1..n |-> 0]

\* One PT_LOAD header: the contents, then zeroes up to its size in memory
LoadSegment(paddr, contents, memsz) ==
  LET first_zero == paddr + Len(contents)
      zeroes == Zeroes(memsz - Len(contents))
  IN /\ stage = "segments"
     /\ file.ascending => \A a \in DOMAIN segments : a + Len(segments[a]) <= paddr
     /\ segments' = write_bytes(write_bytes(segments, paddr, contents), first_zero, zeroes)
     /\ buffer' = write_flat(write_flat(buffer, paddr, contents), first_zero, zeroes)
     /\ UNCHANGED <<file, stage>>

\* The relocation table follows the segments
StartRelas ==
  /\ stage = "segments" /\ file.relocatable
  /\ stage' = "relas"
  /\ UNCHANGED <<file, segments, buffer>>

\* R_RISCV_RELATIVE: an address is written at its place
Relocate(offset, relocated) ==
  /\ stage = "relas"
  /\ segments' = write_bytes(segments, offset, relocated)
  /\ buffer' = write_flat(buffer, offset, relocated)
  /\ UNCHANGED <<file, stage>>

Finish ==
  /\ stage = IF file.relocatable THEN "relas" ELSE "segments"
  /\ stage' = "loaded"
  /\ UNCHANGED <<file, segments, buffer>>

LoadNext ==
  \/ \E paddr \in Locations : \E filesz \in 0..(SIZE - paddr) :
       \E memsz \in filesz..(SIZE - paddr), contents \in [1..filesz -> BYTES] :
         LoadSegment(paddr, contents, memsz)
  \/ StartRelas
  \/ \E offset \in 0..(SIZE - RELA_BYTES), relocated \in [1..RELA_BYTES -> BYTES] :
       Relocate(offset, relocated)
  \/ Finish

LoadSpec == LoadInit /\ [][LoadNext]_load_vars

-----------------------------------------------------------------------------
(* Correctness *)

\* load_program writes the chunks to a memory of zeroes
Image ==
  [a \in Locations |->
     LET at == {s \in DOMAIN segments : a \in Covers(s, segments[s])}
     IN IF at = {} THEN 0 ELSE LET s == Highest(at) IN segments[s][a - s + 1]]

\* A byte that a chunk holds is the byte written last at its address, and no
\* two chunks hold the same address, whatever order and overlap the headers and
\* the relocations have: the invariant that program.rs states on `segments` and
\* relies on when it cuts and overwrites chunks
SegmentsAgree ==
  \A s \in DOMAIN segments :
    /\ \A a \in Covers(s, segments[s]) : segments[s][a - s + 1] = buffer[a]
    /\ \A t \in DOMAIN segments \ {s} :
         Covers(s, segments[s]) \cap Covers(t, segments[t]) = {}

\* What reaches the machine's memory is what was written, byte for byte: no
\* write loses bytes that it did not override (ShrinkPrevious)
ImageComplete == file.ascending /\ stage = "loaded" => Image = buffer

\* The same of files that are not relocatable (load_elf_nonreloc)
ExecutableComplete == ~file.relocatable => ImageComplete

\* The loader keeps its chunks disjoint and up to date (program.rs), and a file
\* that is not relocatable reaches memory completely (kernel_loader.rs)
LoadedAsWritten == SegmentsAgree /\ ExecutableComplete
=============================================================================
