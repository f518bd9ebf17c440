---------------------------- MODULE LinuxMemory -----------------------------
(***************************************************************************)
(* The memory of a Linux process (pvm/linux.rs, pvm/linux/memory.rs): the  *)
(* supervisor lays out program, heap, guard page and stack, then the       *)
(* process maps, unmaps and protects pages with system calls and stores to *)
(* them.                                                                   *)
(*                                                                         *)
(* `mapped` and `opened` are history: the pages the process holds going by *)
(* the answers it got, and the pages that it did not hold when mprotect    *)
(* gave it access to them.                                                 *)
(***************************************************************************)
EXTENDS PageMemory, FiniteSets, Sequences

CONSTANTS
  STACK_PAGES,
  PUSHED,                 \* bytes init_linux_stack pushes
  Programs,               \* [start, end, headers]: headers are [start, length, perms]
  Addresses,              \* the addresses the process uses
  Lengths,                \* the lengths it uses
  Perms,                  \* the permissions it asks for
  MAX_DIRTY               \* bound: bytes that are not zero

\* The headers describe parts of the program
ASSUME LinuxAssumption ==
  /\ STACK_PAGES \in Nat /\ PUSHED \in Nat
  /\ Addresses \subseteq Nat /\ Lengths \subseteq Nat
  /\ \A p \in Programs :
       /\ p.start \in Nat /\ p.end \in Nat /\ p.start <= p.end
       /\ \A i \in DOMAIN p.headers :
            /\ p.headers[i].start \in Nat /\ p.headers[i].length \in Nat
            /\ p.start <= p.headers[i].start
            /\ p.headers[i].start + p.headers[i].length <= p.end

VARIABLES
  mem,                    \* main_memory
  program, heap, stack_guard,          \* SupervisorState, <<first, past the end>>
  phase,                  \* "new", "running" or "failed"
  ret,                    \* the last call and its result
  mapped, opened

layout == <<program, heap, stack_guard>>
vars == <<mem, program, heap, stack_guard, phase, ret, mapped, opened>>

Unset == <<0, 0>>         \* stands for the default range
STACK_SIZE == STACK_PAGES * PAGE_SIZE

Init ==
  /\ mem = NewMemory
  /\ program = Unset /\ heap = Unset /\ stack_guard = Unset
  /\ phase = "new"
  /\ ret = [call |-> "new", res |-> "ok"]
  /\ mapped = {} /\ opened = {}

-----------------------------------------------------------------------------
(* setup_linux_process *)

align_down(a) == a - (a % PAGE_SIZE)
\* Mutant: rounds down
align_up_Down(a) == align_down(a)

align_up(a) == div_ceil(a) * PAGE_SIZE

\* The permissions of the program headers, in their order: a page has those
\* of the last header that touches it
ProtectHeaders(m, headers) ==
  LET Touches(i, p) == p \in Touched(headers[i].start, headers[i].length)
      IsLast(i, p) == Touches(i, p) /\ \A j \in (i + 1)..Len(headers) : ~Touches(j, p)
      Access(pages, right) ==
        {p \in AllPages :
           \/ \E i \in DOMAIN headers : IsLast(i, p) /\ right \in headers[i].perms
           \/ p \in pages /\ \A i \in DOMAIN headers : ~Touches(i, p)}
  IN [m EXCEPT !.readable = Access(@, "r"), !.writable = Access(@, "w"),
               !.executable = Access(@, "x")]

\* The program is written and then protected
load_program(p) ==
  LET length == p.end - p.start
      writable == protect_pages(mem, p.start, length, WRITE)
      loaded == Written(writable, p.start, length, TRUE)
  IN ProtectHeaders(protect_pages(loaded, p.start, length, NONE), p.headers)

guarded_stack_space(p) == TOTAL_BYTES - align_up(p.end)

stack_bottom(p) ==
  LET space == guarded_stack_space(p) - PAGE_SIZE
  IN TOTAL_BYTES - (IF STACK_SIZE < space THEN STACK_SIZE ELSE space)

\* The guard page below the stack, the stack itself
prepare_stack(m, p) ==
  protect_pages(protect_pages(m, stack_bottom(p) - PAGE_SIZE, PAGE_SIZE, NONE),
                stack_bottom(p), TOTAL_BYTES - stack_bottom(p), READ_WRITE)

init_linux_stack(m) == Written(m, TOTAL_BYTES - PUSHED, PUSHED, TRUE)

\* MachineError: the program or its stack does not fit; what was done so far
\* stays done
SetupFails(p, m) ==
  /\ phase' = "failed"
  /\ ret' = [call |-> "setup", res |-> "error"]
  /\ mem' = m
  /\ UNCHANGED <<heap, mapped, opened>>

setup_linux_process(p) ==
  LET loaded == load_program(p)
      stacked == prepare_stack(loaded, p)
      pushed == init_linux_stack(stacked)
      heap_start == align_up(p.end)
      guard == stack_bottom(p) - PAGE_SIZE
      owned == [pushed EXCEPT !.allocated = allocate_pages(pushed, {0}, TOTAL_BYTES, TRUE).set]
  IN /\ phase = "new"
     /\ \/ /\ ~InBounds(p.start, p.end - p.start)
           /\ SetupFails(p, mem)
           /\ UNCHANGED <<program, stack_guard>>
        \/ /\ InBounds(p.start, p.end - p.start)
           /\ program' = <<align_down(p.start), align_up(p.end)>>
           /\ \/ /\ guarded_stack_space(p) < PAGE_SIZE
                 /\ SetupFails(p, loaded)
                 /\ UNCHANGED stack_guard
              \/ /\ guarded_stack_space(p) >= PAGE_SIZE
                 /\ stack_guard' = <<guard, stack_bottom(p)>>
                 /\ \/ /\ ~can_access(stacked.writable, TOTAL_BYTES - PUSHED, PUSHED)
                       /\ SetupFails(p, stacked)
                    \/ /\ can_access(stacked.writable, TOTAL_BYTES - PUSHED, PUSHED)
                       /\ heap' = <<heap_start, guard>>
                       /\ mem' = deallocate_pages(owned, heap_start, guard - heap_start)
                       /\ phase' = "running"
                       /\ ret' = [call |-> "setup", res |-> "ok"]
                       /\ mapped' = AllPages \ Touched(heap_start, guard - heap_start)
                       /\ UNCHANGED opened

-----------------------------------------------------------------------------
(* System calls *)

Return(call, res) == ret' = [call |-> call, res |-> res]

Fails(call, error) ==
  /\ Return(call, error)
  /\ UNCHANGED <<mem, layout, phase, mapped, opened>>

\* AddressHint of the flags of a private, anonymous mapping
Hints == {"hint", "fixed", "fixed_noreplace"}

handle_mmap(addr, length, perms, hint) ==
  LET at == IF hint = "hint" THEN {} ELSE {addr}
      r == allocate_pages(mem, at, length, hint = "fixed")
      page == CHOOSE i \in r.ret : TRUE
      range == Run(page, div_ceil(length))
      valid == length # 0 /\ (hint = "hint" \/ addr % PAGE_SIZE = 0)
  IN /\ phase = "running"
     /\ \/ /\ ~valid
           /\ Fails(hint, "InvalidArgument")
        \/ /\ valid /\ r.ret = None
           /\ Fails(hint, "NoMemory")
        \/ /\ valid /\ r.ret # None
           /\ mem' = allocate_and_protect_pages(mem, r, length, perms)
           /\ Return(hint, "ok")
           /\ mapped' = mapped \cup range
           /\ opened' = opened \ range
           /\ UNCHANGED <<layout, phase>>

\* Shared mappings and mappings of files
handle_mmap_unsupported ==
  phase = "running" /\ Fails("mmap", "NoSystemCall")

handle_munmap(addr, length) ==
  /\ phase = "running"
  /\ \/ /\ ~InBounds(addr, length)
        /\ Fails("munmap", "InvalidArgument")
     \/ /\ InBounds(addr, length)
        /\ mem' = deallocate_and_protect_pages(mem, addr, length)
        /\ Return("munmap", "ok")
        /\ mapped' = mapped \ Touched(addr, length)
        /\ opened' = opened \ Touched(addr, length)
        /\ UNCHANGED <<layout, phase>>

\* PageAligned<VirtAddr> refuses other addresses
handle_mprotect(addr, length, perms) ==
  /\ phase = "running"
  /\ \/ /\ addr % PAGE_SIZE # 0
        /\ Fails("mprotect", "InvalidArgument")
     \/ /\ addr % PAGE_SIZE = 0 /\ ~InBounds(addr, length)
        /\ Fails("mprotect", "NoMemory")
     \/ /\ addr % PAGE_SIZE = 0 /\ InBounds(addr, length)
        /\ mem' = protect_pages(mem, addr, length, perms)
        /\ Return("mprotect", "ok")
        /\ opened' = IF perms = NONE THEN opened \ Touched(addr, length)
                     ELSE opened \cup (Touched(addr, length) \ mapped)
        /\ UNCHANGED <<layout, phase, mapped>>

\* A store of the process, or of a system call that answers in its memory
Store(addr, length, nonzero) ==
  LET written == Written(mem, addr, length, nonzero)
  IN /\ phase = "running"
     /\ \/ /\ ~can_access(mem.writable, addr, length)
           /\ Fails("store", "Fault")
        \/ /\ can_access(mem.writable, addr, length)
           /\ Cardinality(written.data) <= MAX_DIRTY
           /\ mem' = written
           /\ Return("store", "ok")
           /\ UNCHANGED <<layout, phase, mapped, opened>>

Next ==
  \/ \E p \in Programs : setup_linux_process(p)
  \/ \E addr \in Addresses, length \in Lengths :
       \/ \E perms \in Perms :
            \/ \E hint \in Hints : handle_mmap(addr, length, perms, hint)
            \/ handle_mprotect(addr, length, perms)
       \/ handle_munmap(addr, length)
       \/ \E nonzero \in BOOLEAN : Store(addr, length, nonzero)
  \/ handle_mmap_unsupported

Spec == Init /\ [][Next]_vars

-----------------------------------------------------------------------------
(* Correctness *)

Accessible == mem.readable \cup mem.writable \cup mem.executable

\* After a successful setup the areas are in order and disjoint, exactly the
\* heap is free, nobody can access the heap, the guard page or what lies below
\* the program, and the stack can be read and written (the layout at the top
\* of linux/memory.rs, which setup_linux_process computes from the program)
LayoutSound ==
  ret = [call |-> "setup", res |-> "ok"] =>
    /\ program[2] = heap[1] /\ heap[2] = stack_guard[1]
    /\ BytesOf(AllPages \ mem.allocated) = heap[1]..(heap[2] - 1)
    /\ \A p \in Accessible : \/ BytesOf({p}) \subseteq program[1]..(program[2] - 1)
                             \/ BytesOf({p}) \subseteq stack_guard[2]..(TOTAL_BYTES - 1)
    /\ \A b \in stack_guard[2]..(TOTAL_BYTES - 1) :
         PageOf(b) \in mem.readable \cap mem.writable

\* The process can access a page it does not hold only if it opened that page
\* itself with mprotect: munmap takes the access away on every path
\* (deallocate_and_protect_pages)
OnlyHeldAccessible == phase = "running" => Accessible \subseteq mapped \cup opened

\* A page that the process did not hold and gets from mmap is zero in all its
\* bytes, also if it was written, given back and handed out again with another
\* length (allocate_and_protect_pages)
FreshIsZero ==
  [][phase = "running" => mem'.data \cap BytesOf(mapped' \ mapped) = {}]_vars

PageState(m, p) == <<p \in m.readable, p \in m.writable, p \in m.executable,
                     m.data \cap BytesOf({p})>>

\* mmap without MAP_FIXED, or with MAP_FIXED_NOREPLACE, leaves every page the
\* process holds as it is: its bytes, its permissions, program, guard page and
\* stack included (handle_mmap)
HeldUndisturbed ==
  [][ret'.call \in {"hint", "fixed_noreplace"} =>
       \A p \in mapped : p \in mapped' /\ PageState(mem', p) = PageState(mem, p)]_vars
=============================================================================
