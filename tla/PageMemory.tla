----------------------------- MODULE PageMemory -----------------------------
(***************************************************************************)
(* Main memory (memory/state.rs, memory/protection.rs): bytes, three sets  *)
(* of pages that may be read, written and executed, and the allocator of   *)
(* pages.  A memory is a record; an operation that can fail leaves it as   *)
(* it was when its range is out of bounds.  Of a byte only counts whether  *)
(* it is zero.                                                             *)
(***************************************************************************)
EXTENDS PageRuns

CONSTANTS
  PAGES,                  \* number of pages
  PAGE_SIZE               \* bytes of a page

ASSUME MemoryAssumption == PAGES \in Nat \ {0} /\ PAGE_SIZE \in Nat \ {0}

TOTAL_BYTES == PAGES * PAGE_SIZE
AllPages == 0..(PAGES - 1)
AllBytes == 0..(TOTAL_BYTES - 1)

\* Permissions are a subset of {"r", "w", "x"}
NONE == {}
WRITE == {"w"}
READ_WRITE == {"r", "w"}

Memories == [allocated : SUBSET AllPages,
             readable : SUBSET AllPages, writable : SUBSET AllPages,
             executable : SUBSET AllPages,
             data : SUBSET AllBytes]       \* the bytes that are not zero

NewMemory == [allocated |-> {}, readable |-> {}, writable |-> {}, executable |-> {},
              data |-> {}]

-----------------------------------------------------------------------------
(* Ranges *)

PageOf(address) == address \div PAGE_SIZE
BytesOf(pages) == {b \in AllBytes : PageOf(b) \in pages}
div_ceil(length) == (length + PAGE_SIZE - 1) \div PAGE_SIZE

\* check_bounds
InBounds(address, length) == length = 0 \/ address + length <= TOTAL_BYTES

\* start_page..=end_page of an access or of a change of permissions
Touched(address, length) ==
  IF length = 0 THEN {} ELSE PageOf(address)..PageOf(address + length - 1)

\* can_access, can_access_narrow
can_access(pages, address, length) ==
  InBounds(address, length) /\ Touched(address, length) \subseteq pages

-----------------------------------------------------------------------------
(* Operations *)

modify_access(pages, address, length, accessible) ==
  IF accessible THEN pages \cup (Touched(address, length) \cap AllPages)
                ELSE pages \ Touched(address, length)

protect_pages(mem, address, length, perms) ==
  [mem EXCEPT
     !.readable = modify_access(@, address, length, "r" \in perms),
     !.writable = modify_access(@, address, length, "w" \in perms),
     !.executable = modify_access(@, address, length, "x" \in perms)]

deallocate_pages(mem, address, length) ==
  [mem EXCEPT !.allocated =
     Deallocated(@, PAGES, PageOf(address), div_ceil(length))]

\* Mutant: the permissions of the freed range stay
deallocate_and_protect_pages_Access(mem, address, length) ==
  deallocate_pages(mem, address, length)

deallocate_and_protect_pages(mem, address, length) ==
  protect_pages(deallocate_pages(mem, address, length), address, length, NONE)

\* Mutant: what is allocated at an address may always be replaced
allocate_pages_Replace(mem, hint, length, allow_replace) ==
  IF hint = {} THEN Allocated(mem.allocated, PAGES, div_ceil(length))
  ELSE LET address == CHOOSE a \in hint : TRUE
       IN IF InBounds(address, length)
          THEN AllocatedFixed(mem.allocated, PAGES, PageOf(address), div_ceil(length), TRUE)
          ELSE [set |-> mem.allocated, ret |-> None]

\* At `hint`, a set of at most one address, or anywhere; the result is the
\* allocator's: the pages allocated then, and the first page or nothing
allocate_pages(mem, hint, length, allow_replace) ==
  IF hint = {} THEN Allocated(mem.allocated, PAGES, div_ceil(length))
  ELSE LET address == CHOOSE a \in hint : TRUE
       IN IF InBounds(address, length)
          THEN AllocatedFixed(mem.allocated, PAGES, PageOf(address), div_ceil(length),
                              allow_replace)
          ELSE [set |-> mem.allocated, ret |-> None]

\* Mutant: only the length that was asked for is zeroed
Zeroed_Length(mem, address, length) ==
  [mem EXCEPT !.data = @ \ (address..(address + length - 1))]

\* As memory is allocated in pages it is cleared in pages
Zeroed(mem, address, length) ==
  [mem EXCEPT !.data = @ \ (address..(address + div_ceil(length) * PAGE_SIZE - 1))]

\* Allocated at an address: protect and zero the range
allocate_and_protect_pages(mem, r, length, perms) ==
  LET address == (CHOOSE page \in r.ret : TRUE) * PAGE_SIZE
  IN Zeroed(protect_pages([mem EXCEPT !.allocated = r.set], address, length, perms),
            address, length)

\* write, write_all: a byte becomes zero or not zero
Written(mem, address, length, nonzero) ==
  [mem EXCEPT !.data = IF nonzero THEN @ \cup (address..(address + length - 1))
                                  ELSE @ \ (address..(address + length - 1))]
=============================================================================
