------------------------------- MODULE MCLinux -------------------------------
(***************************************************************************)
(* A Linux process on the PVM, in three parts of which a behaviour has     *)
(* one: its file is loaded; its memory is laid out and managed, on five    *)
(* pages of four bytes, with programs that leave a heap of two pages, of   *)
(* one, of none, no stack, no guard page, or do not fit at all; it makes   *)
(* its other system calls, on memory of that size.                         *)
(***************************************************************************)
EXTENDS LinuxMemory, LinuxCalls, ProgramLoader

Header(start, end, perms) ==
  [start |-> start, length |-> end - start, perms |-> perms]

MCProgram(start, middle, end) ==
  [start |-> start, end |-> end,
   headers |-> <<Header(start, middle, {"r", "x"}), Header(middle, end, READ_WRITE)>>]

MCPrograms ==
  {MCProgram(0, 1, 1), MCProgram(3, 5, 5), MCProgram(6, 8, 10), MCProgram(8, 11, 16),
   MCProgram(9, 12, 17), MCProgram(13, 17, 21)}

MCPerms == {NONE, READ_WRITE}

MCRandom == <<TRUE, FALSE, TRUE, TRUE>>

\* Pages that may and may not be read and written, bytes that are zero or not
MCMemories ==
  {[NewMemory EXCEPT !.readable = r, !.writable = w, !.data = d] :
     r \in {{0}, {1}, {0, 1}}, w \in {{0}, {0, 1}}, d \in {{0, 1, 3, 4, 6}, {1, 2, 3, 5, 7}}}

VARIABLE part

MCInit ==
  /\ part \in {"load", "memory", "calls"}
  /\ Init /\ LoadInit /\ CallsInit
  /\ part # "load" => file = CHOOSE f \in Files : TRUE
  /\ part # "calls" => memory = CHOOSE m \in Arranged : TRUE

MCNext ==
  /\ UNCHANGED part
  /\ \/ part = "load" /\ LoadNext /\ UNCHANGED <<vars, calls_vars>>
     \/ part = "memory" /\ Next /\ UNCHANGED <<load_vars, calls_vars>>
     \/ part = "calls" /\ CallsNext /\ UNCHANGED <<vars, load_vars>>

MCSpec == MCInit /\ [][MCNext]_<<part, vars, load_vars, calls_vars>>
==============================================================================
