----------------------------- MODULE LinuxCalls -----------------------------
(***************************************************************************)
(* The system calls of a Linux process other than those that manage its    *)
(* memory, which are LinuxMemory's (pvm/linux.rs, linux/fds.rs, fs.rs,     *)
(* rng.rs, parameters.rs).  Each action is one call of handle_system_call: *)
(* the arguments are parsed from the registers in their order, the handler *)
(* runs, the result goes to a0.  That every call moves the program counter *)
(* past its ecall is left out.                                             *)
(*                                                                         *)
(* Of a byte in memory only counts whether it is zero: a number that a     *)
(* handler reads is zero, or any other one.  A byte that is output is      *)
(* named by its address.  `done` is the last call: its arguments, what it  *)
(* answered, what it output, the bytes of memory it read or wrote, and     *)
(* whether evaluation goes on; it is forgotten when the process runs on.   *)
(***************************************************************************)
EXTENDS PageMemory, FiniteSets, Sequences

CONSTANTS
  WORD, INT, SHORT,       \* sizes of u64, i32 and u16 (8, 4 and 2)
  U64,                    \* addresses wrap around here (2^64)
  RLIMIT_NOFILE,          \* 512
  MAX_CPU_SET_SIZE,       \* 128
  SIGNALS,                \* 2^7, as a signal is a u7
  RANDOM,                 \* the fixed random bytes: which of them are not zero
  Args,                   \* the numbers the process passes in registers
  NonZero,                \* the numbers it has in memory, other than 0
  MAX_VEC,                \* bound: the entries it passes to writev
  Arranged                \* the memories the process may have arranged

SIZE_IOVEC == 2 * WORD
SIZE_POLLFD == INT + 2 * SHORT
SIZE_SIGALTSTACK == 3 * WORD
SIZE_SIGACTION == 4 * WORD
SIGSET_SIZE == WORD
TIMESPEC_SIZE == 2 * WORD
TIMEVAL_SIZE == 2 * WORD
TIMEZONE_SIZE == 2 * INT
ROBUST_LIST_HEAD_SIZE == WORD
CWD == 2                  \* c"/" with its NUL

\* What is assumed of the constants: memory ends well below the largest address,
\* and what a call answers, the events of all file descriptors included, is not
\* larger than a page
ASSUME CallsAssumption ==
  /\ WORD \in Nat \ {0} /\ INT \in Nat \ {0} /\ SHORT \in Nat \ {0}
  /\ U64 \in Nat /\ TOTAL_BYTES + SIZE_POLLFD <= U64
  /\ Args \subseteq 0..(U64 - 1) /\ NonZero \subseteq 1..(U64 - 1)
  /\ RLIMIT_NOFILE \in Nat /\ RLIMIT_NOFILE * (INT + SHORT) <= PAGE_SIZE
  /\ MAX_CPU_SET_SIZE \in Nat /\ MAX_CPU_SET_SIZE <= PAGE_SIZE
  /\ RANDOM \in Seq(BOOLEAN) /\ Len(RANDOM) <= PAGE_SIZE
  /\ CWD <= PAGE_SIZE /\ SIZE_SIGACTION <= PAGE_SIZE
  /\ TIMEVAL_SIZE + TIMEZONE_SIZE <= PAGE_SIZE
  /\ Arranged \subseteq Memories

VARIABLES
  memory,                 \* main_memory
  tid_address, exited, exit_code,      \* SupervisorState
  done

calls_vars == <<memory, tid_address, exited, exit_code, done>>
process == <<tid_address, exited, exit_code>>

MAIN_THREAD_ID == 1

\* The process runs, between two calls
Running == [call |-> "none", args |-> <<>>, err |-> "none", val |-> 0, out |-> <<>>,
            seen |-> {}, goes_on |-> TRUE]

CallsInit ==
  /\ memory \in Arranged
  /\ tid_address = 0
  /\ exited = FALSE /\ exit_code = 0
  /\ done = Running

-----------------------------------------------------------------------------
(* What a handler returns *)

Bytes(address, length) == address..(address + length - 1)
wrapping_add(address, offset) == (address + offset) % U64
Smaller(a, b) == IF a < b THEN a ELSE b

Outcome(err, val, m, out, seen) ==
  [err |-> err, val |-> val, mem |-> m, out |-> out, seen |-> seen]

Ok(val) == Outcome("none", val, memory, <<>>, {})
Err(error) == Outcome(error, 0, memory, <<>>, {})

\* The handler also read these bytes
Saw(o, bytes) == [o EXCEPT !.seen = @ \cup bytes]

\* The numbers that may be read at an address
Number(address, size) ==
  IF Bytes(address, size) \cap memory.data = {} THEN {0} ELSE NonZero

\* write, write_all of zeroes
ZeroOut(o, address, size) ==
  IF o.err = "none" /\ can_access(memory.writable, address, size)
  THEN [o EXCEPT !.mem = Written(@, address, size, FALSE), !.seen = @ \cup Bytes(address, size)]
  ELSE [o EXCEPT !.err = "Fault"]

\* The same where the process may pass a null pointer
ZeroOptional(o, address, size) == IF address = 0 THEN o ELSE ZeroOut(o, address, size)

\* The indices in front of all the bad ones: where a loop stops
Before(indices, bad) == {i \in indices : \A b \in bad : i < b}

\* Zeroes at one address after the other, up to one that cannot be written
ZeroEach(o, addresses, size) ==
  LET bad == {i \in DOMAIN addresses : ~can_access(memory.writable, addresses[i], size)}
      cleared == UNION {Bytes(addresses[i], size) : i \in Before(DOMAIN addresses, bad)}
  IN [o EXCEPT !.err = IF bad = {} THEN @ ELSE "Fault",
               !.mem = [memory EXCEPT !.data = @ \ cleared],
               !.seen = @ \cup cleared]

-----------------------------------------------------------------------------
(* Files: fs.rs, rng.rs *)

handle_getcwd(buffer, length) ==
  IF length = 0 /\ buffer # 0 THEN Err("InvalidArgument")
  ELSE IF length < CWD THEN Err("Range")
  ELSE IF ~can_access(memory.writable, buffer, CWD) THEN Err("Fault")
  ELSE Outcome("none", buffer,
               Written(Written(memory, buffer, 1, TRUE), buffer + 1, 1, FALSE),
               <<>>, Bytes(buffer, CWD))

handle_read(length) == IF length = 0 THEN Ok(0) ELSE Err("Access")

handle_getrandom(buffer, length) ==
  LET n == Smaller(length, Len(RANDOM))
      nonzero == {buffer + i - 1 : i \in {j \in 1..n : RANDOM[j]}}
  IN IF ~can_access(memory.writable, buffer, n) THEN Err("Fault")
     ELSE Outcome("none", n,
                  [memory EXCEPT !.data = (@ \ Bytes(buffer, n)) \cup nonzero],
                  <<>>, Bytes(buffer, n))

-----------------------------------------------------------------------------
(* File descriptors: fds.rs *)

\* Mutant: the answer is the length before it is limited
write_to_fd_CountsAll(address, length) ==
  LET n == Smaller(length, PAGE_SIZE)
  IN IF ~can_access(memory.readable, address, n) THEN Err("Fault")
     ELSE Outcome("none", length, memory, [i \in 1..n |-> address + i - 1], Bytes(address, n))

\* Mutant: the length is not limited
write_to_fd_Unlimited(address, length) ==
  IF ~can_access(memory.readable, address, length) THEN Err("Fault")
  ELSE Outcome("none", length, memory, [i \in 1..length |-> address + i - 1],
               Bytes(address, length))

\* At most a page is output
write_to_fd(address, length) ==
  LET n == Smaller(length, PAGE_SIZE)
  IN IF ~can_access(memory.readable, address, n) THEN Err("Fault")
     ELSE Outcome("none", n, memory, [i \in 1..n |-> address + i - 1], Bytes(address, n))

FileDescriptorWriteable == {1, 2}

handle_write(fd, address, length) ==
  IF fd \notin FileDescriptorWriteable THEN Err("BadFileDescriptor")
  ELSE write_to_fd(address, length)

base_of(iovec, item) == wrapping_add(iovec, SIZE_IOVEC * item)
len_of(iovec, item) == wrapping_add(base_of(iovec, item), WORD)

\* The contents an array of n iovec structures may have
IoVecs(iovec, n) ==
  {vec \in [0..(n - 1) -> [base : NonZero \cup {0}, len : NonZero \cup {0}]] :
     \A item \in DOMAIN vec : /\ vec[item].base \in Number(base_of(iovec, item), WORD)
                              /\ vec[item].len \in Number(len_of(iovec, item), WORD)}

BaseReadable(iovec, item) == can_access(memory.readable, base_of(iovec, item), WORD)
EntryReadable(iovec, item) ==
  BaseReadable(iovec, item) /\ can_access(memory.readable, len_of(iovec, item), WORD)

\* The bytes of the first n entries
Entries(iovec, n) ==
  UNION {Bytes(base_of(iovec, i), WORD) \cup Bytes(len_of(iovec, i), WORD) : i \in 0..(n - 1)}

\* Only the first entry that has data is written, among at most a page of them
handle_writev(fd, iovec, vec) ==
  LET max_entries == Smaller(Cardinality(DOMAIN vec), PAGE_SIZE \div SIZE_IOVEC)
      ends == {i \in 0..(max_entries - 1) : vec[i].len > 0 \/ ~EntryReadable(iovec, i)}
      first == CHOOSE i \in ends : \A j \in ends : i <= j
      base == IF BaseReadable(iovec, first) THEN Bytes(base_of(iovec, first), WORD) ELSE {}
  IN IF fd \notin FileDescriptorWriteable THEN Err("BadFileDescriptor")
     ELSE IF ends = {} THEN Saw(Ok(0), Entries(iovec, max_entries))
     ELSE IF ~EntryReadable(iovec, first) THEN Saw(Err("Fault"), Entries(iovec, first) \cup base)
     ELSE Saw(write_to_fd(vec[first].base, vec[first].len), Entries(iovec, first + 1))

fd_of(fd_ptrs, i) == wrapping_add(fd_ptrs, SIZE_POLLFD * i)
revents_of(fd_ptrs, i) == wrapping_add(fd_ptrs, SIZE_POLLFD * i + INT + SHORT)

\* The file descriptors in an array of n pollfd structures
Fds(fd_ptrs, n) ==
  {fds \in [0..(n - 1) -> NonZero \cup {0}] :
     \A i \in DOMAIN fds : fds[i] \in Number(fd_of(fd_ptrs, i), INT)}

\* The answers are cleared one by one, up to one that cannot be written
handle_ppoll(fd_ptrs, n, fds) ==
  LET bad == {i \in 0..(n - 1) : ~can_access(memory.readable, fd_of(fd_ptrs, i), INT)}
      read == Before(0..(n - 1), bad)
      seen == UNION {Bytes(fd_of(fd_ptrs, i), INT) : i \in read}
  IN IF n > RLIMIT_NOFILE THEN Err("InvalidArgument")
     ELSE IF bad # {} THEN Saw(Err("Fault"), seen)
     ELSE IF \E i \in read : fds[i] \notin {0, 1, 2} THEN Saw(Err("NoSystemCall"), seen)
     ELSE ZeroEach(Saw(Ok(0), seen), [i \in 0..(n - 1) |-> revents_of(fd_ptrs, i)], SHORT)

-----------------------------------------------------------------------------
(* Threads, signals and time: linux.rs *)

\* No thread, robust list or signal handler is ever kept: where the previous
\* one is asked for, zeroes are returned
handle_set_robust_list(size) ==
  IF size # ROBUST_LIST_HEAD_SIZE THEN Err("InvalidArgument") ELSE Ok(0)

handle_sigaltstack(old) == ZeroOptional(Ok(0), old, SIZE_SIGALTSTACK)

handle_rt_sigaction(old, size) ==
  IF size # SIGSET_SIZE THEN Err("InvalidArgument")
  ELSE ZeroOptional(Ok(0), old, SIZE_SIGACTION)

handle_rt_sigprocmask(old, size) ==
  IF size # SIGSET_SIZE THEN Err("InvalidArgument")
  ELSE ZeroOptional(Ok(0), old, SIGSET_SIZE)

handle_clock_gettime(tp) ==
  IF tp = 0 THEN Err("InvalidArgument") ELSE ZeroOut(Ok(0), tp, TIMESPEC_SIZE)

\* The first is written even if the second cannot be
handle_gettimeofday(tv, tz) ==
  LET o == ZeroOptional(Ok(0), tv, TIMEVAL_SIZE)
  IN IF o.err = "none" THEN ZeroOptional(o, tz, TIMEZONE_SIZE) ELSE o

\* Mutant: one byte too many
handle_sched_getaffinity_OffByOne(pid, cpusetsize, mask) ==
  LET last == wrapping_add(mask, cpusetsize)
      cleared == ZeroEach(Ok(cpusetsize), [i \in 0..(cpusetsize - 1) |-> wrapping_add(mask, i)], 1)
  IN IF pid \notin {0, 1} THEN Err("Search")
     ELSE IF cpusetsize \notin 1..MAX_CPU_SET_SIZE THEN Err("InvalidArgument")
     ELSE IF cleared.err # "none" \/ ~can_access(memory.writable, last, 1)
     THEN [cleared EXCEPT !.err = "Fault"]
     ELSE Saw([cleared EXCEPT !.mem = Written(@, last, 1, TRUE)], {last})

\* The mask is written byte by byte, the set bit in the last one, up to one
\* that cannot be written
handle_sched_getaffinity(pid, cpusetsize, mask) ==
  LET last == wrapping_add(mask, cpusetsize - 1)
      cleared == ZeroEach(Ok(cpusetsize), [i \in 0..(cpusetsize - 2) |-> wrapping_add(mask, i)], 1)
  IN IF pid \notin {0, 1} THEN Err("Search")
     ELSE IF cpusetsize \notin 1..MAX_CPU_SET_SIZE THEN Err("InvalidArgument")
     ELSE IF cleared.err # "none" \/ ~can_access(memory.writable, last, 1)
     THEN [cleared EXCEPT !.err = "Fault"]
     ELSE Saw([cleared EXCEPT !.mem = Written(@, last, 1, TRUE)], {last})

-----------------------------------------------------------------------------
(* handle_system_call *)

\* An unsupported call stops evaluation, as the end of the process does
Answer(call, args, o) ==
  /\ memory' = o.mem
  /\ done' = [call |-> call, args |-> args, err |-> o.err,
              val |-> IF o.err = "none" THEN o.val ELSE 0, out |-> o.out, seen |-> o.seen,
              goes_on |-> o.err # "NoSystemCall" /\ ~exited']

Call(call, args, o) == UNCHANGED process /\ Answer(call, args, o)

Exit(status) ==
  /\ exited' = TRUE /\ exit_code' = status
  /\ Answer("exit", <<status>>, Ok(status))
  /\ UNCHANGED tid_address

\* The signal becomes the exit code, with the bit above it set
Tkill(thread, signal) ==
  \/ /\ thread # MAIN_THREAD_ID
     /\ Call("tkill", <<thread, signal>>, Err("Search"))
  \/ /\ thread = MAIN_THREAD_ID /\ signal >= SIGNALS
     /\ Call("tkill", <<thread, signal>>, Err("InvalidArgument"))
  \/ /\ thread = MAIN_THREAD_ID /\ signal < SIGNALS
     /\ exited' = TRUE /\ exit_code' = SIGNALS + signal
     /\ Answer("tkill", <<thread, signal>>, Ok(0))
     /\ UNCHANGED tid_address

SetTidAddress(address) ==
  /\ tid_address' = address
  /\ UNCHANGED <<exited, exit_code>>
  /\ Answer("set_tid_address", <<address>>, Ok(MAIN_THREAD_ID))

Denied == {"faccessat", "openat", "close", "readlinkat"}

NoArgument ==
  \/ \E call \in Denied : Call(call, <<>>, Err("Access"))
  \/ Call("getpid", <<>>, Ok(1))
  \/ Call("unknown", <<>>, Err("NoSystemCall"))

OneArgument(a0) ==
  \/ Exit(a0)
  \/ SetTidAddress(a0)
  \/ Call("clock_gettime", <<a0>>, handle_clock_gettime(a0))

\* Of the signal calls only the arguments that count
TwoArguments(a0, a1) ==
  \/ Call("getcwd", <<a0, a1>>, handle_getcwd(a0, a1))
  \/ Call("getrandom", <<a0, a1>>, handle_getrandom(a0, a1))
  \/ \E fds \in Fds(a0, Smaller(a1, RLIMIT_NOFILE)) :
       Call("ppoll", <<a0, a1>>, handle_ppoll(a0, a1, fds))
  \/ Tkill(a0, a1)
  \/ Call("set_robust_list", <<a0, a1>>, handle_set_robust_list(a1))
  \/ Call("sigaltstack", <<a0, a1>>, handle_sigaltstack(a1))
  \/ Call("rt_sigaction", <<a0, a1>>, handle_rt_sigaction(a0, a1))
  \/ Call("rt_sigprocmask", <<a0, a1>>, handle_rt_sigprocmask(a0, a1))
  \/ Call("gettimeofday", <<a0, a1>>, handle_gettimeofday(a0, a1))

\* handle_read is given the first argument of read
ThreeArguments(a0, a1, a2) ==
  \/ Call("read", <<a0, a1, a2>>, handle_read(a0))
  \/ Call("write", <<a0, a1, a2>>, handle_write(a0, a1, a2))
  \/ /\ a2 <= MAX_VEC
     /\ \E vec \in IoVecs(a1, a2) :
          Call("writev", <<a0, a1, vec>>, handle_writev(a0, a1, vec))
  \/ Call("sched_getaffinity", <<a0, a1, a2>>, handle_sched_getaffinity(a0, a1, a2))

\* Until its next call the process uses its memory as it likes
RunsOn ==
  /\ ~exited /\ done # Running
  /\ memory' \in Arranged
  /\ done' = Running
  /\ UNCHANGED process

SystemCall ==
  /\ ~exited /\ done = Running
  /\ \/ NoArgument
     \/ \E a0 \in Args : OneArgument(a0)
     \/ \E a0, a1 \in Args : TwoArguments(a0, a1)
     \/ \E a0, a1, a2 \in Args : ThreeArguments(a0, a1, a2)

CallsNext == SystemCall \/ RunsOn

CallsSpec == CallsInit /\ [][CallsNext]_calls_vars

-----------------------------------------------------------------------------
(* Correctness *)

LocationsFrom(address, length) == [i \in 1..length |-> address + i - 1]

\* The data of all entries, one after the other
Gathered(vec) ==
  LET n == Cardinality(DOMAIN vec)
      upto[i \in 0..n] ==
        IF i = 0 THEN <<>> ELSE upto[i - 1] \o LocationsFrom(vec[i - 1].base, vec[i - 1].len)
  IN upto[n]

\* What the process asked write or writev to output
Asked ==
  IF done.call = "write" THEN LocationsFrom(done.args[2], done.args[3]) ELSE Gathered(done.args[3])

IsPrefix(s, t) == Len(s) <= Len(t) /\ \A i \in 1..Len(s) : s[i] = t[i]

\* write and writev keep the contract of write(2) although they write less
\* than they are asked to: what is output is a beginning of the data, its
\* length is what they answer, an error has output nothing, and no output is
\* answered only when there is no data in the entries that are looked at
\* (write_to_fd and the search of handle_writev)
OutputIsPrefix ==
  done.call \in {"write", "writev"} =>
    /\ done.val = Len(done.out)
    /\ done.err # "none" => done.out = <<>>
    /\ IsPrefix(done.out, Asked)
    /\ (done.call = "write" /\ done.err = "none" /\ done.out = <<>>) => Asked = <<>>

\* Whatever lengths and counts the process passes, no call reads or writes more
\* than a page of its memory, and writev one more page of entries: all of it
\* ends up in a proof of the step ("to prevent proof-size explosion",
\* write_to_fd, handle_writev and FileDescriptorCount)
FootprintBounded ==
  Cardinality(done.seen) <= IF done.call = "writev" THEN 2 * PAGE_SIZE ELSE PAGE_SIZE

\* The memory that a call is told to answer in, from the manual of the call
Buffer(call, args) ==
  CASE call = "getcwd" -> Bytes(args[1], args[2])
    [] call = "getrandom" -> Bytes(args[1], args[2])
    [] call = "ppoll" -> Bytes(args[1], args[2] * SIZE_POLLFD)
    [] call = "sigaltstack" -> Bytes(args[2], SIZE_SIGALTSTACK)
    [] call = "rt_sigaction" -> Bytes(args[1], SIZE_SIGACTION)
    [] call = "rt_sigprocmask" -> Bytes(args[1], SIGSET_SIZE)
    [] call = "clock_gettime" -> Bytes(args[1], TIMESPEC_SIZE)
    [] call = "gettimeofday" -> Bytes(args[1], TIMEVAL_SIZE) \cup Bytes(args[2], TIMEZONE_SIZE)
    [] call = "sched_getaffinity" -> Bytes(args[3], args[2])
    [] OTHER -> {}

Different(m, n) == (m.data \ n.data) \cup (n.data \ m.data)

\* A call changes memory only in the buffer it was given and where the process
\* may write, never permissions; if it fails it has changed nothing, except
\* that ppoll, gettimeofday and sched_getaffinity answer piece by piece and
\* may fault after the first pieces
CallsConfined ==
  [][done' # Running =>
       LET changed == Different(memory, memory')
       IN /\ [memory' EXCEPT !.data = {}] = [memory EXCEPT !.data = {}]
          /\ changed \subseteq Buffer(done'.call, done'.args) \cap BytesOf(memory.writable)
          /\ done'.err \notin {"none", "Fault"} => changed = {}
          /\ (done'.err = "Fault"
                /\ done'.call \notin {"ppoll", "gettimeofday", "sched_getaffinity"})
               => changed = {}]_calls_vars

\* "If the length is zero then POSIX allows returning zero without reading or
\* checking for errors", else "All access to the file system is denied"
\* (handle_read): read answers zero only to a length of zero
OnlyEmptyReads == done.call = "read" /\ done.err = "none" => done.args[3] = 0
=============================================================================
