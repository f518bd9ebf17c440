-------------------------- MODULE LinuxCallsProofs --------------------------
(***************************************************************************)
(* Proofs about the system calls of a Linux process on the PVM that do not *)
(* change its pages (LinuxCalls), for every value of their constants.      *)
(*                                                                         *)
(* CallsInv is inductive because a call starts from any memory: every      *)
(* handler is shown Sound, which is about its outcome, and Answer turns    *)
(* that into the properties (AnswerSound). Addresses that a handler        *)
(* computes modulo 2^64 are shown not to wrap around as long as what lies  *)
(* in front of them can be accessed (NoWrap).                              *)
(***************************************************************************)
EXTENDS LinuxCalls, FiniteSetTheorems, WellFoundedInduction, TLAPS

\* A non-empty set of numbers has a least one
LEMMA Least ==
  ASSUME NEW T \in SUBSET Nat, T # {}
  PROVE  \E x \in T : \A y \in T : x <= y
<1> DEFINE Less == {ss \in Nat \X Nat : ss[1] < ss[2]}
<1>1. IsWellFoundedOn(Less, Nat)
  BY NatLessThanWellFounded DEF OpToRel
<1>2. \A y, x \in Nat : <<y, x>> \in Less <=> y < x
  OBVIOUS
<1> HIDE DEF Less
<1>3. PICK x \in T : \A y \in T : ~(<<y, x>> \in Less)
  BY <1>1, WFMin
<1>4. T \subseteq Nat
  OBVIOUS
<1>5. \A y \in T : ~(y < x)
  BY <1>2, <1>3, <1>4
<1>6. \A y \in T : x <= y
  BY <1>4, <1>5
<1> QED
  BY <1>6

\* Induction up to n, over the set of the numbers for which the claim holds
LEMMA Upwards ==
  ASSUME NEW n \in Nat, NEW T, 0 \in T, \A i \in 0..(n - 1) : i \in T => i + 1 \in T
  PROVE  \A i \in 0..n : i \in T
<1> SUFFICES ASSUME {i \in 0..n : i \notin T} # {} PROVE FALSE
  OBVIOUS
<1> DEFINE M == {i \in 0..n : i \notin T}
<1>1. M \in SUBSET Nat
  OBVIOUS
<1>2. PICK x \in M : \A y \in M : x <= y
  <2> HIDE DEF M
  <2> QED
    BY <1>1, Least DEF M
<1>3. x \in 1..n /\ x - 1 \in 0..(n - 1)
  BY <1>2
<1>4. x - 1 \in T
  BY <1>2, <1>3
<1>5. x \in T
  BY <1>3, <1>4
<1> QED
  BY <1>2, <1>5

\* A union of n sets of at most s elements
LEMMA UnionSize ==
  ASSUME NEW n \in Nat, NEW s \in Nat, NEW G,
         \A i \in 0..(n - 1) : IsFiniteSet(G[i]) /\ Cardinality(G[i]) <= s
  PROVE  /\ IsFiniteSet(UNION {G[i] : i \in 0..(n - 1)})
         /\ Cardinality(UNION {G[i] : i \in 0..(n - 1)}) <= n * s
<1> DEFINE U(k) == UNION {G[i] : i \in 0..(k - 1)}
           T == {k \in 0..n : IsFiniteSet(U(k)) /\ Cardinality(U(k)) <= k * s}
<1>1. 0 \in T
  <2>1. U(0) = {}
    OBVIOUS
  <2> QED
    BY <2>1, FS_EmptySet
<1>2. ASSUME NEW k \in 0..(n - 1), k \in T PROVE k + 1 \in T
  <2>1. U(k + 1) = U(k) \cup G[k]
    <3>1. 0..((k + 1) - 1) = (0..(k - 1)) \cup {k}
      OBVIOUS
    <3> QED
      BY <3>1
  <2> DEFINE A == U(k)
             B == G[k]
  <2>2. IsFiniteSet(A) /\ IsFiniteSet(B) /\ Cardinality(A) <= k * s /\ Cardinality(B) <= s
    BY <1>2
  <2>3. U(k + 1) = A \cup B
    BY <2>1
  <2> HIDE DEF A, B
  <2>4. /\ IsFiniteSet(A \cup B)
        /\ Cardinality(A \cup B) = Cardinality(A) + Cardinality(B) - Cardinality(A \cap B)
    BY <2>2, FS_Union
  <2>5. Cardinality(A) \in Nat /\ Cardinality(B) \in Nat /\ Cardinality(A \cap B) \in Nat
    BY <2>2, FS_Intersection, FS_CardinalityType
  <2>6. (k + 1) * s = k * s + s /\ k * s \in Nat
    OBVIOUS
  <2>7. Cardinality(A \cup B) <= (k + 1) * s
    BY <2>2, <2>4, <2>5, <2>6
  <2>8. k + 1 \in 0..n
    OBVIOUS
  <2> HIDE DEF U
  <2> QED
    BY <2>3, <2>4, <2>7, <2>8
<1> HIDE DEF U
<1>3. \A k \in 0..n : k \in T
  <2> HIDE DEF T
  <2> QED
    BY <1>1, <1>2, Upwards
<1> QED
  BY <1>3 DEF U

LEMMA DivMono ==
  ASSUME NEW s \in Nat \ {0}, NEW a \in Nat, NEW b \in Nat, a <= b
  PROVE  a \div s \in Nat /\ a \div s <= b \div s
OBVIOUS

LEMMA Sizes ==
  /\ PAGES \in Nat \ {0} /\ PAGE_SIZE \in Nat \ {0} /\ TOTAL_BYTES \in Nat
  /\ WORD \in Nat \ {0} /\ INT \in Nat \ {0} /\ SHORT \in Nat \ {0}
  /\ SIZE_POLLFD \in Nat \ {0} /\ SIZE_IOVEC \in Nat \ {0}
  /\ U64 \in Nat \ {0} /\ TOTAL_BYTES + SIZE_POLLFD <= U64
  /\ Args \subseteq 0..(U64 - 1) /\ NonZero \subseteq Nat
BY CallsAssumption, MemoryAssumption DEF TOTAL_BYTES, SIZE_POLLFD, SIZE_IOVEC

\* The bytes of an access lie in pages that it needs
LEMMA AccessBytes ==
  ASSUME NEW pages, NEW a \in Nat, NEW l \in Nat, can_access(pages, a, l)
  PROVE  /\ Bytes(a, l) \subseteq BytesOf(pages)
         /\ l > 0 => a + l <= TOTAL_BYTES
<1> SUFFICES ASSUME NEW b \in Bytes(a, l) PROVE b \in BytesOf(pages)
  BY DEF can_access, InBounds
<1>1. b \in Nat /\ a <= b /\ b <= a + l - 1 /\ l > 0 /\ a + l - 1 \in Nat
  BY DEF Bytes
<1>2. a + l <= TOTAL_BYTES /\ PageOf(a)..PageOf(a + l - 1) \subseteq pages
  BY <1>1 DEF can_access, InBounds, Touched
<1>3. /\ PageOf(a) \in Nat /\ PageOf(b) \in Nat /\ PageOf(a + l - 1) \in Nat
      /\ PageOf(a) <= PageOf(b) /\ PageOf(b) <= PageOf(a + l - 1)
  BY <1>1, Sizes, DivMono DEF PageOf
<1> QED
  BY <1>1, <1>2, <1>3, Sizes DEF BytesOf, AllBytes

LEMMA BytesSize ==
  ASSUME NEW a \in Nat, NEW l \in Nat
  PROVE  IsFiniteSet(Bytes(a, l)) /\ Cardinality(Bytes(a, l)) = l
<1>1. a \in Int /\ a + l - 1 \in Int
  OBVIOUS
<1>2. /\ IsFiniteSet(a..(a + l - 1))
      /\ Cardinality(a..(a + l - 1)) = IF a > a + l - 1 THEN 0 ELSE (a + l - 1) - a + 1
  BY <1>1, FS_Interval
<1> QED
  BY <1>2 DEF Bytes

-----------------------------------------------------------------------------
\* What every call answers

Piecewise == {"ppoll", "gettimeofday", "sched_getaffinity"}
Limit(call) == IF call = "writev" THEN 2 * PAGE_SIZE ELSE PAGE_SIZE
AskedOf(call, args) == IF call = "write" THEN LocationsFrom(args[2], args[3]) ELSE Gathered(args[3])

\* Only these bytes are different in memory
Changes(o, bytes) ==
  /\ o.mem = [memory EXCEPT !.data = o.mem.data]
  /\ o.mem.data \subseteq AllBytes
  /\ Different(memory, o.mem) \subseteq bytes

SmallSeen(call, o) == IsFiniteSet(o.seen) /\ Cardinality(o.seen) <= Limit(call)

Outputs(call, args, o) ==
  /\ o.err = "none" => o.val = Len(o.out)
  /\ o.err # "none" => o.out = <<>>
  /\ IsPrefix(o.out, AskedOf(call, args))
  /\ (call = "write" /\ o.err = "none" /\ o.out = <<>>) => AskedOf(call, args) = <<>>

Sound(call, args, o) ==
  /\ Changes(o, Buffer(call, args) \cap BytesOf(memory.writable))
  /\ \/ o.err = "none"
     \/ o.err = "Fault" /\ call \in Piecewise
     \/ Changes(o, {})
  /\ SmallSeen(call, o)
  /\ call \in {"write", "writev"} => Outputs(call, args, o)

CallsInv == memory \in Memories /\ OutputIsPrefix /\ FootprintBounded

\* A step of CallsConfined
Confined ==
  done' # Running =>
    LET changed == Different(memory, memory')
    IN /\ [memory' EXCEPT !.data = {}] = [memory EXCEPT !.data = {}]
       /\ changed \subseteq Buffer(done'.call, done'.args) \cap BytesOf(memory.writable)
       /\ done'.err \notin {"none", "Fault"} => changed = {}
       /\ (done'.err = "Fault"
             /\ done'.call \notin {"ppoll", "gettimeofday", "sched_getaffinity"})
            => changed = {}

LEMMA DataOf ==
  ASSUME memory \in Memories, NEW D \in SUBSET AllBytes
  PROVE  /\ [memory EXCEPT !.data = D] \in Memories
         /\ [memory EXCEPT !.data = D].data = D
         /\ [[memory EXCEPT !.data = D] EXCEPT !.data = {}] = [memory EXCEPT !.data = {}]
         /\ [memory EXCEPT !.data = memory.data] = memory
BY DEF Memories

\* handle_system_call: the outcome of a handler becomes the last call
LEMMA AnswerSound ==
  ASSUME memory \in Memories, NEW call, NEW args, NEW o, Sound(call, args, o), Answer(call, args, o)
  PROVE  CallsInv' /\ Confined
<1>1. /\ memory' = o.mem /\ done'.call = call /\ done'.args = args /\ done'.err = o.err
      /\ done'.val = (IF o.err = "none" THEN o.val ELSE 0)
      /\ done'.out = o.out /\ done'.seen = o.seen
  BY DEF Answer
<1>2. /\ memory' = [memory EXCEPT !.data = memory'.data] /\ memory'.data \in SUBSET AllBytes
      /\ Different(memory, memory') \subseteq Buffer(call, args) \cap BytesOf(memory.writable)
  BY <1>1 DEF Sound, Changes
<1>3. memory' \in Memories /\ [memory' EXCEPT !.data = {}] = [memory EXCEPT !.data = {}]
  BY <1>2, DataOf
<1>4. Different(memory, memory') = {} \/ o.err = "none" \/ (o.err = "Fault" /\ call \in Piecewise)
  BY <1>1 DEF Sound, Changes
<1>5. Confined
  BY <1>1, <1>2, <1>3, <1>4 DEF Confined, Piecewise
<1>6. FootprintBounded'
  BY <1>1 DEF FootprintBounded, Sound, SmallSeen, Limit
<1>7. OutputIsPrefix'
  <2> SUFFICES ASSUME call \in {"write", "writev"}
               PROVE  /\ done'.val = Len(done'.out)
                      /\ done'.err # "none" => done'.out = <<>>
                      /\ IsPrefix(done'.out, Asked')
                      /\ (done'.call = "write" /\ done'.err = "none" /\ done'.out = <<>>) => Asked' = <<>>
    BY <1>1 DEF OutputIsPrefix
  <2>1. Asked' = AskedOf(call, args)
    BY <1>1 DEF Asked, AskedOf
  <2>2. Outputs(call, args, o)
    BY DEF Sound
  <2>3. Len(<<>>) = 0
    OBVIOUS
  <2> QED
    BY <1>1, <2>1, <2>2, <2>3 DEF Outputs
<1> QED
  BY <1>3, <1>5, <1>6, <1>7 DEF CallsInv

\* Fields of an outcome
LEMMA OutcomeIs ==
  ASSUME NEW err, NEW val, NEW m, NEW out, NEW seen
  PROVE  LET o == Outcome(err, val, m, out, seen)
         IN o.err = err /\ o.val = val /\ o.mem = m /\ o.out = out /\ o.seen = seen
BY DEF Outcome

LEMMA NothingChanges ==
  ASSUME memory \in Memories, NEW o, o.mem = memory, NEW bytes
  PROVE  Changes(o, bytes)
<1>1. memory = [memory EXCEPT !.data = memory.data] /\ memory.data \subseteq AllBytes
  BY DEF Memories
<1> QED
  BY <1>1 DEF Changes, Different

LEMMA PagePositive == PAGE_SIZE \in Nat /\ \A call : Limit(call) \in Nat /\ PAGE_SIZE <= Limit(call)
BY Sizes DEF Limit

\* A call that touches nothing
LEMMA QuietSound ==
  ASSUME memory \in Memories, NEW call, call \notin {"write", "writev"}, NEW args,
         NEW err, NEW val
  PROVE  Sound(call, args, Outcome(err, val, memory, <<>>, {}))
<1> DEFINE o == Outcome(err, val, memory, <<>>, {})
<1>1. o.mem = memory /\ o.seen = {}
  BY OutcomeIs
<1> HIDE DEF o
<1>2. SmallSeen(call, o)
  BY <1>1, FS_EmptySet, PagePositive DEF SmallSeen
<1> QED
  BY <1>1, <1>2, NothingChanges DEF Sound, o

\* Only these bytes of memory became zero, and these have been read or written
Cleared(o, bytes, seen) ==
  /\ o = Outcome(o.err, o.val, o.mem, o.out, o.seen)
  /\ o.err \in {"none", "Fault"}
  /\ o.mem = [memory EXCEPT !.data = memory.data \ bytes]
  /\ bytes \subseteq BytesOf(memory.writable)
  /\ o.seen = seen

\* A call that writes zeroes and other values to these bytes
LEMMA WriteSound ==
  ASSUME memory \in Memories, NEW call, call \notin {"write", "writev"}, NEW args, NEW o,
         NEW bytes, NEW D, o.mem = [memory EXCEPT !.data = D],
         bytes \subseteq Buffer(call, args) \cap BytesOf(memory.writable),
         memory.data \ bytes \subseteq D, D \subseteq memory.data \cup bytes,
         IsFiniteSet(o.seen), Cardinality(o.seen) <= PAGE_SIZE,
         o.err = "none" \/ (o.err = "Fault" /\ call \in Piecewise) \/ bytes = {}
  PROVE  Sound(call, args, o)
<1>1. memory.data \subseteq AllBytes /\ bytes \subseteq AllBytes
  BY DEF Memories, BytesOf
<1>2. D \in SUBSET AllBytes
  BY <1>1
<1>3. o.mem.data = D
  BY <1>2, DataOf
<1>4. Different(memory, o.mem) \subseteq bytes
  BY <1>3 DEF Different
<1>5. Changes(o, bytes)
  BY <1>2, <1>3, <1>4 DEF Changes
<1>6. Changes(o, Buffer(call, args) \cap BytesOf(memory.writable))
  BY <1>5 DEF Changes
<1>7. SmallSeen(call, o)
  BY PagePositive, FS_CardinalityType DEF SmallSeen
<1> QED
  BY <1>5, <1>6, <1>7 DEF Sound

LEMMA ClearedSound ==
  ASSUME memory \in Memories, NEW call, call \notin {"write", "writev"}, NEW args, NEW o,
         NEW bytes, NEW seen, Cleared(o, bytes, seen), bytes \subseteq Buffer(call, args),
         IsFiniteSet(seen), Cardinality(seen) <= PAGE_SIZE,
         o.err = "none" \/ call \in Piecewise \/ bytes = {}
  PROVE  Sound(call, args, o)
<1> DEFINE D == memory.data \ bytes
<1>1. /\ o.mem = [memory EXCEPT !.data = D]
      /\ bytes \subseteq Buffer(call, args) \cap BytesOf(memory.writable)
      /\ memory.data \ bytes \subseteq D /\ D \subseteq memory.data \cup bytes
      /\ IsFiniteSet(o.seen) /\ Cardinality(o.seen) <= PAGE_SIZE
      /\ o.err = "none" \/ (o.err = "Fault" /\ call \in Piecewise) \/ bytes = {}
  BY DEF Cleared
<1> HIDE DEF D
<1> QED
  BY <1>1, WriteSound

LEMMA OkCleared == memory \in Memories => \A val : Cleared(Ok(val), {}, {}) /\ Ok(val).err = "none"
<1> SUFFICES ASSUME memory \in Memories, NEW val
             PROVE  Cleared(Ok(val), {}, {}) /\ Ok(val).err = "none"
  OBVIOUS
<1>1. memory = [memory EXCEPT !.data = memory.data \ {}]
  BY DEF Memories
<1> QED
  BY <1>1 DEF Cleared, Ok, Outcome

LEMMA ZeroOutIs ==
  ASSUME memory \in Memories, NEW o, NEW bytes, NEW seen, Cleared(o, bytes, seen), o.err = "none",
         NEW a \in Nat, NEW size \in Nat
  PROVE  LET r == ZeroOut(o, a, size)
         IN \/ r.err = "none" /\ Cleared(r, bytes \cup Bytes(a, size), seen \cup Bytes(a, size))
            \/ r.err = "Fault" /\ Cleared(r, bytes, seen)
<1> DEFINE r == ZeroOut(o, a, size)
           m == [memory EXCEPT !.data = memory.data \ bytes]
           v == o.val
           w == o.out
           n == Written(m, a, size, FALSE)
<1>1. o = Outcome("none", v, m, w, seen) /\ bytes \subseteq BytesOf(memory.writable)
  BY DEF Cleared
<1>2. n = [memory EXCEPT !.data = memory.data \ (bytes \cup Bytes(a, size))]
  BY DEF Written, Bytes, Memories
<1> HIDE DEF m, v, w, n
<1>3. CASE can_access(memory.writable, a, size)
  <2>1. r = Outcome("none", v, n, w, seen \cup Bytes(a, size))
    BY <1>1, <1>3 DEF ZeroOut, Outcome, n
  <2>2. Bytes(a, size) \subseteq BytesOf(memory.writable)
    BY <1>3, AccessBytes
  <2> HIDE DEF r
  <2>3. /\ r.err = "none" /\ r.val = v /\ r.mem = n /\ r.out = w
        /\ r.seen = seen \cup Bytes(a, size)
    BY <2>1, OutcomeIs
  <2> QED
    BY <2>1, <2>2, <2>3, <1>1, <1>2 DEF Cleared, r
<1>4. CASE ~can_access(memory.writable, a, size)
  <2>1. r = Outcome("Fault", v, m, w, seen)
    BY <1>1, <1>4 DEF ZeroOut, Outcome
  <2> HIDE DEF r
  <2>2. r.err = "Fault" /\ r.val = v /\ r.mem = m /\ r.out = w /\ r.seen = seen
    BY <2>1, OutcomeIs
  <2> QED
    BY <2>1, <2>2, <1>1 DEF Cleared, r, m
<1> QED
  BY <1>3, <1>4

\* clock_gettime and the calls that return a structure of zeroes
LEMMA ZeroSound ==
  ASSUME memory \in Memories, NEW call, call \notin {"write", "writev"}, NEW args,
         NEW a \in Nat, NEW size \in Nat, size <= PAGE_SIZE, Bytes(a, size) \subseteq Buffer(call, args)
  PROVE  /\ Sound(call, args, ZeroOut(Ok(0), a, size))
         /\ Sound(call, args, ZeroOptional(Ok(0), a, size))
<1> DEFINE r == ZeroOut(Ok(0), a, size)
<1>1. \/ r.err = "none" /\ Cleared(r, {} \cup Bytes(a, size), {} \cup Bytes(a, size))
      \/ r.err = "Fault" /\ Cleared(r, {}, {})
  BY OkCleared, ZeroOutIs
<1>2. {} \cup Bytes(a, size) = Bytes(a, size)
  OBVIOUS
<1>3. IsFiniteSet(Bytes(a, size)) /\ Cardinality(Bytes(a, size)) <= PAGE_SIZE
  BY BytesSize
<1>4. IsFiniteSet({}) /\ Cardinality({}) <= PAGE_SIZE
  BY FS_EmptySet, PagePositive
<1> HIDE DEF r
<1>5. Sound(call, args, r)
  <2>1. CASE Cleared(r, {}, {})
    BY <2>1, <1>4, ClearedSound
  <2>2. CASE r.err = "none" /\ Cleared(r, Bytes(a, size), Bytes(a, size))
    BY <2>2, <1>3, ClearedSound
  <2> QED
    BY <1>1, <1>2, <2>1, <2>2
<1>6. Sound(call, args, Ok(0))
  BY QuietSound DEF Ok
<1> QED
  BY <1>5, <1>6 DEF r, ZeroOptional

\* The signal calls, clock_gettime
LEMMA ClockSound ==
  ASSUME memory \in Memories, NEW tp \in Nat
  PROVE  Sound("clock_gettime", <<tp>>, handle_clock_gettime(tp))
<1>1. Buffer("clock_gettime", <<tp>>) = Bytes(tp, TIMESPEC_SIZE)
  BY DEF Buffer
<1>2. TIMESPEC_SIZE \in Nat /\ TIMESPEC_SIZE <= PAGE_SIZE
  BY CallsAssumption, MemoryAssumption DEF TIMESPEC_SIZE, SIZE_SIGACTION
<1>3. Sound("clock_gettime", <<tp>>, ZeroOut(Ok(0), tp, TIMESPEC_SIZE))
  BY <1>1, <1>2, ZeroSound
<1>4. Sound("clock_gettime", <<tp>>, Err("InvalidArgument"))
  BY QuietSound DEF Err
<1> QED
  BY <1>3, <1>4 DEF handle_clock_gettime

LEMMA SigaltstackSound ==
  ASSUME memory \in Memories, NEW ss, NEW old \in Nat
  PROVE  Sound("sigaltstack", <<ss, old>>, handle_sigaltstack(old))
<1>1. Buffer("sigaltstack", <<ss, old>>) = Bytes(old, SIZE_SIGALTSTACK)
  BY DEF Buffer
<1>2. SIZE_SIGALTSTACK \in Nat /\ SIZE_SIGALTSTACK <= PAGE_SIZE
  BY CallsAssumption, MemoryAssumption DEF SIZE_SIGALTSTACK, SIZE_SIGACTION
<1> QED
  BY <1>1, <1>2, ZeroSound DEF handle_sigaltstack

LEMMA SigactionSound ==
  ASSUME memory \in Memories, NEW old \in Nat, NEW size
  PROVE  Sound("rt_sigaction", <<old, size>>, handle_rt_sigaction(old, size))
<1>1. Buffer("rt_sigaction", <<old, size>>) = Bytes(old, SIZE_SIGACTION)
  BY DEF Buffer
<1>2. SIZE_SIGACTION \in Nat /\ SIZE_SIGACTION <= PAGE_SIZE
  BY CallsAssumption DEF SIZE_SIGACTION
<1>3. Sound("rt_sigaction", <<old, size>>, ZeroOptional(Ok(0), old, SIZE_SIGACTION))
  BY <1>1, <1>2, ZeroSound
<1>4. Sound("rt_sigaction", <<old, size>>, Err("InvalidArgument"))
  BY QuietSound DEF Err
<1> QED
  BY <1>3, <1>4 DEF handle_rt_sigaction

LEMMA SigprocmaskSound ==
  ASSUME memory \in Memories, NEW old \in Nat, NEW size
  PROVE  Sound("rt_sigprocmask", <<old, size>>, handle_rt_sigprocmask(old, size))
<1>1. Buffer("rt_sigprocmask", <<old, size>>) = Bytes(old, SIGSET_SIZE)
  BY DEF Buffer
<1>2. SIGSET_SIZE \in Nat /\ SIGSET_SIZE <= PAGE_SIZE
  BY CallsAssumption, MemoryAssumption DEF SIGSET_SIZE, SIZE_SIGACTION
<1>3. Sound("rt_sigprocmask", <<old, size>>, ZeroOptional(Ok(0), old, SIGSET_SIZE))
  BY <1>1, <1>2, ZeroSound
<1>4. Sound("rt_sigprocmask", <<old, size>>, Err("InvalidArgument"))
  BY QuietSound DEF Err
<1> QED
  BY <1>3, <1>4 DEF handle_rt_sigprocmask

LEMMA OptionalIs ==
  ASSUME memory \in Memories, NEW o, NEW bytes, NEW seen, Cleared(o, bytes, seen), o.err = "none",
         NEW a \in Nat, NEW size \in Nat
  PROVE  LET r == ZeroOptional(o, a, size)
         IN \/ r.err = "none" /\ Cleared(r, bytes \cup Bytes(a, size), seen \cup Bytes(a, size))
            \/ r.err \in {"none", "Fault"} /\ Cleared(r, bytes, seen)
BY ZeroOutIs DEF ZeroOptional

LEMMA GettimeofdaySound ==
  ASSUME memory \in Memories, NEW tv \in Nat, NEW tz \in Nat
  PROVE  Sound("gettimeofday", <<tv, tz>>, handle_gettimeofday(tv, tz))
<1> DEFINE A == Bytes(tv, TIMEVAL_SIZE)
           B == Bytes(tz, TIMEZONE_SIZE)
           o == ZeroOptional(Ok(0), tv, TIMEVAL_SIZE)
           r == ZeroOptional(o, tz, TIMEZONE_SIZE)
<1>1. Buffer("gettimeofday", <<tv, tz>>) = A \cup B
  BY DEF Buffer
<1>2. /\ TIMEVAL_SIZE \in Nat /\ TIMEZONE_SIZE \in Nat
      /\ TIMEVAL_SIZE + TIMEZONE_SIZE <= PAGE_SIZE
  BY CallsAssumption DEF TIMEVAL_SIZE, TIMEZONE_SIZE
<1>3. \E X \in {{}, A} : Cleared(o, X, X)
  <2>1. \/ Cleared(o, {} \cup A, {} \cup A)
        \/ Cleared(o, {}, {})
    BY <1>2, OkCleared, OptionalIs
  <2>2. {} \cup A = A
    OBVIOUS
  <2> QED
    BY <2>1, <2>2
<1> HIDE DEF A, B, o
<1>4. ASSUME o.err = "none" PROVE \E X \in {{}, A, B, A \cup B} : Cleared(r, X, X)
  <2>1. PICK X \in {{}, A} : Cleared(o, X, X)
    BY <1>3
  <2>2. Cleared(r, X \cup B, X \cup B) \/ Cleared(r, X, X)
    BY <1>2, <1>4, <2>1, OptionalIs DEF B
  <2>3. X \cup B \in {{}, A, B, A \cup B} /\ X \in {{}, A, B, A \cup B}
    BY <2>1
  <2> QED
    BY <2>2, <2>3
<1>5. handle_gettimeofday(tv, tz) = IF o.err = "none" THEN r ELSE o
  BY DEF handle_gettimeofday, o
<1>6. \E X \in {{}, A, B, A \cup B} : Cleared(handle_gettimeofday(tv, tz), X, X)
  BY <1>3, <1>4, <1>5
<1>7. \A X \in {{}, A, B, A \cup B} : IsFiniteSet(X) /\ Cardinality(X) <= PAGE_SIZE
  <2>1. /\ IsFiniteSet(A) /\ Cardinality(A) = TIMEVAL_SIZE
        /\ IsFiniteSet(B) /\ Cardinality(B) = TIMEZONE_SIZE
    BY <1>2, BytesSize DEF A, B
  <2>2. /\ IsFiniteSet(A \cup B) /\ Cardinality(A \cap B) \in Nat
        /\ Cardinality(A \cup B) = TIMEVAL_SIZE + TIMEZONE_SIZE - Cardinality(A \cap B)
    BY <2>1, FS_Union, FS_Intersection, FS_CardinalityType
  <2>3. PAGE_SIZE \in Nat /\ TIMEVAL_SIZE <= PAGE_SIZE /\ TIMEZONE_SIZE <= PAGE_SIZE
    BY <1>2, MemoryAssumption
  <2>4. Cardinality(A \cup B) <= PAGE_SIZE
    BY <2>2, <2>3, <1>2
  <2>5. IsFiniteSet({}) /\ Cardinality({}) <= PAGE_SIZE
    BY <2>3, FS_EmptySet
  <2> QED
    BY <2>1, <2>2, <2>3, <2>4, <2>5
<1>8. PICK X \in {{}, A, B, A \cup B} : Cleared(handle_gettimeofday(tv, tz), X, X)
  BY <1>6
<1>9. X \subseteq A \cup B /\ "gettimeofday" \in Piecewise /\ "gettimeofday" \notin {"write", "writev"}
  BY DEF Piecewise
<1> QED
  BY <1>1, <1>7, <1>8, <1>9, ClearedSound

LEMMA GetcwdSound ==
  ASSUME memory \in Memories, NEW buf \in Nat, NEW length \in Nat
  PROVE  Sound("getcwd", <<buf, length>>, handle_getcwd(buf, length))
<1> DEFINE B == Bytes(buf, CWD)
           m == Written(Written(memory, buf, 1, TRUE), buf + 1, 1, FALSE)
           D == (memory.data \cup {buf}) \ {buf + 1}
<1>1. \A e : Sound("getcwd", <<buf, length>>, Err(e))
  BY QuietSound DEF Err
<1>2. ASSUME can_access(memory.writable, buf, CWD), ~(length < CWD)
      PROVE  Sound("getcwd", <<buf, length>>, Outcome("none", buf, m, <<>>, B))
  <2>1. m = [memory EXCEPT !.data = D]
    <3>1. buf..(buf + 1 - 1) = {buf} /\ (buf + 1)..((buf + 1) + 1 - 1) = {buf + 1}
      OBVIOUS
    <3> QED
      BY <3>1 DEF Written, Memories
  <2>2. B = {buf, buf + 1}
    BY DEF Bytes, CWD
  <2>3. memory.data \ B \subseteq D /\ D \subseteq memory.data \cup B
    BY <2>2
  <2>4. Buffer("getcwd", <<buf, length>>) = Bytes(buf, length)
    BY DEF Buffer
  <2>5. B \subseteq Bytes(buf, length)
    BY <1>2 DEF Bytes, CWD
  <2>6. CWD \in Nat /\ B \subseteq BytesOf(memory.writable)
    BY <1>2, AccessBytes DEF CWD
  <2>7. IsFiniteSet(B) /\ Cardinality(B) <= PAGE_SIZE
    BY <2>6, BytesSize, CallsAssumption
  <2> DEFINE r == Outcome("none", buf, m, <<>>, B)
  <2> HIDE DEF D, B, m
  <2>8. r.mem = m /\ r.err = "none" /\ r.seen = B
    BY OutcomeIs
  <2>9. B \subseteq Buffer("getcwd", <<buf, length>>) \cap BytesOf(memory.writable)
    BY <2>4, <2>5, <2>6
  <2> HIDE DEF r
  <2>10. r.mem = [memory EXCEPT !.data = D]
    BY <2>1, <2>8
  <2>11. Sound("getcwd", <<buf, length>>, r)
    BY <2>3, <2>7, <2>8, <2>9, <2>10, WriteSound
  <2> QED
    BY <2>11 DEF r, m, B
<1> QED
  BY <1>1, <1>2 DEF handle_getcwd

LEMMA GetrandomSound ==
  ASSUME memory \in Memories, NEW buf \in Nat, NEW length \in Nat
  PROVE  Sound("getrandom", <<buf, length>>, handle_getrandom(buf, length))
<1> DEFINE n == Smaller(length, Len(RANDOM))
           nonzero == {buf + i - 1 : i \in {j \in 1..n : RANDOM[j]}}
           B == Bytes(buf, n)
           D == (memory.data \ B) \cup nonzero
           r == Outcome("none", n, [memory EXCEPT !.data = D], <<>>, B)
<1>1. n \in Nat /\ n <= length /\ n <= PAGE_SIZE
  BY CallsAssumption, MemoryAssumption DEF Smaller
<1> HIDE DEF n
<1>2. nonzero \subseteq B
  BY <1>1 DEF Bytes
<1>3. \A e : Sound("getrandom", <<buf, length>>, Err(e))
  BY QuietSound DEF Err
<1>4. ASSUME can_access(memory.writable, buf, n)
      PROVE  Sound("getrandom", <<buf, length>>, r)
  <2>1. memory.data \ B \subseteq D /\ D \subseteq memory.data \cup B
    BY <1>2
  <2>2. Buffer("getrandom", <<buf, length>>) = Bytes(buf, length)
    BY DEF Buffer
  <2>3. B \subseteq Bytes(buf, length)
    BY <1>1 DEF Bytes
  <2>4. B \subseteq BytesOf(memory.writable)
    BY <1>1, <1>4, AccessBytes
  <2>5. IsFiniteSet(B) /\ Cardinality(B) <= PAGE_SIZE
    BY <1>1, BytesSize
  <2>6. B \subseteq Buffer("getrandom", <<buf, length>>) \cap BytesOf(memory.writable)
    BY <2>2, <2>3, <2>4
  <2> HIDE DEF D, B
  <2>7. r.mem = [memory EXCEPT !.data = D] /\ r.err = "none" /\ r.seen = B
    BY OutcomeIs
  <2> HIDE DEF r
  <2> QED
    BY <2>1, <2>5, <2>6, <2>7, WriteSound
<1>5. handle_getrandom(buf, length)
        = IF ~can_access(memory.writable, buf, n) THEN Err("Fault") ELSE r
  BY DEF handle_getrandom, n
<1> QED
  BY <1>3, <1>4, <1>5

\* Addresses that do not leave memory do not wrap around: the address before
\* the first one that does would not be in memory
LEMMA NoWrap ==
  ASSUME NEW a \in 0..(U64 - 1), NEW s \in Nat \ {0}, TOTAL_BYTES + s <= U64, NEW k \in Nat,
         \A i \in 0..k : (a + s * i) % U64 < TOTAL_BYTES
  PROVE  \A i \in 0..k : a + s * i < TOTAL_BYTES /\ a + s * i \in Nat /\ (a + s * i) % U64 = a + s * i
<1>1. U64 \in Nat \ {0} /\ TOTAL_BYTES \in Nat /\ a \in Nat /\ a < U64
  BY Sizes
<1>2. \A i \in Nat : a + s * i \in Nat /\ (a + s * i < U64 => (a + s * i) % U64 = a + s * i)
  BY <1>1
<1>3. ASSUME NEW j \in 0..k, ~(a + s * j < U64) PROVE FALSE
  <2> DEFINE i == (U64 - 1 - a) \div s
  <2>1. U64 - 1 - a \in Nat
    BY <1>1
  <2>2. i \in Nat /\ s * i <= U64 - 1 - a /\ U64 - 1 - a < s * i + s
    BY <2>1
  <2> HIDE DEF i
  <2>3. s * i \in Nat /\ s * j \in Nat
    BY <2>2
  <2>4. s * i < s * j
    BY <1>1, <1>3, <2>2, <2>3
  <2>5. i < j
    BY <2>2, <2>4
  <2>6. i \in 0..k /\ a + s * i < U64
    BY <1>1, <2>2, <2>3, <2>5
  <2>7. a + s * i < TOTAL_BYTES
    BY <1>2, <2>2, <2>6
  <2> QED
    BY <1>1, <2>2, <2>3, <2>7
<1> TAKE i \in 0..k
<1>4. i \in Nat
  OBVIOUS
<1>7. a + s * i < U64
  BY <1>3, Zenon
<1>5. a + s * i \in Nat /\ (a + s * i) % U64 = a + s * i
  BY <1>2, <1>4, <1>7
<1>6. (a + s * i) % U64 < TOTAL_BYTES
  OBVIOUS
<1> QED
  BY <1>5, <1>6

\* The outcome of clearing one address after the other
EachCleared(o, at, size, seen) ==
  LET bad == {i \in DOMAIN at : ~can_access(memory.writable, at[i], size)}
      bytes == UNION {Bytes(at[i], size) : i \in Before(DOMAIN at, bad)}
  IN /\ Cleared(o, bytes, seen \cup bytes)
     /\ o.err = "none" <=> bad = {}

LEMMA ZeroEachIs ==
  ASSUME memory \in Memories, NEW o, NEW seen, Cleared(o, {}, seen), o.err = "none",
         NEW at, NEW size \in Nat, DOMAIN at \subseteq Nat, \A i \in DOMAIN at : at[i] \in Nat
  PROVE  EachCleared(ZeroEach(o, at, size), at, size, seen)
<1> DEFINE bad == {i \in DOMAIN at : ~can_access(memory.writable, at[i], size)}
           bytes == UNION {Bytes(at[i], size) : i \in Before(DOMAIN at, bad)}
           r == ZeroEach(o, at, size)
           m == [memory EXCEPT !.data = memory.data \ bytes]
           v == o.val
           w == o.out
           m0 == o.mem
           err == IF bad = {} THEN "none" ELSE "Fault"
<1>1. o = Outcome("none", v, m0, w, seen)
  BY DEF Cleared
<1>2. ASSUME NEW i \in Before(DOMAIN at, bad) PROVE Bytes(at[i], size) \subseteq BytesOf(memory.writable)
  <2>1. i \in DOMAIN at /\ \A b \in bad : i < b
    BY DEF Before
  <2>2. can_access(memory.writable, at[i], size)
    <3> SUFFICES ASSUME i \in bad PROVE FALSE
      BY <2>1
    <3>1. i \in Nat /\ i < i
      BY <2>1
    <3> QED
      BY <3>1
  <2> QED
    BY <2>1, <2>2, AccessBytes
<1>3. bytes \subseteq BytesOf(memory.writable)
  BY <1>2
<1>4. r = Outcome(err, v, m, w, seen \cup bytes)
  <2>1. r = [o EXCEPT !.err = IF bad = {} THEN o.err ELSE "Fault", !.mem = m,
                      !.seen = o.seen \cup bytes]
    BY DEF ZeroEach
  <2>2. o.err = "none" /\ o.seen = seen
    BY DEF Cleared
  <2>3. err = IF bad = {} THEN "none" ELSE "Fault"
    OBVIOUS
  <2> HIDE DEF r, bad, bytes, m, v, w, m0, err
  <2>4. r = [o EXCEPT !.err = err, !.mem = m, !.seen = seen \cup bytes]
    BY <2>1, <2>2, <2>3
  <2> QED
    BY <1>1, <2>4 DEF Outcome
<1> HIDE DEF r
<1>5. r.err = err /\ r.val = v /\ r.mem = m /\ r.out = w /\ r.seen = seen \cup bytes
  <2> HIDE DEF bad, bytes, m, v, w, err
  <2> QED
    BY <1>4, OutcomeIs
<1>6. err \in {"none", "Fault"} /\ (err = "none" <=> bad = {})
  BY DEF err
<1> HIDE DEF bad, bytes, v, w, err
<1>7. Cleared(r, bytes, seen \cup bytes)
  BY <1>3, <1>4, <1>5, <1>6 DEF Cleared
<1>8. r.err = "none" <=> bad = {}
  BY <1>5, <1>6
<1> QED
  BY <1>7, <1>8 DEF EachCleared, r, bytes, bad

\* A call that reads and changes nothing
LEMMA SawSound ==
  ASSUME memory \in Memories, NEW call, call \notin {"write", "writev"}, NEW args, NEW err, NEW val,
         NEW seen, IsFiniteSet(seen), Cardinality(seen) <= PAGE_SIZE
  PROVE  Sound(call, args, Saw(Outcome(err, val, memory, <<>>, {}), seen))
<1> DEFINE o == Saw(Outcome(err, val, memory, <<>>, {}), seen)
<1>1. o.mem = memory /\ o.seen = seen
  BY DEF Saw, Outcome
<1> HIDE DEF o
<1>2. SmallSeen(call, o)
  BY <1>1, FS_CardinalityType, PagePositive DEF SmallSeen
<1> QED
  BY <1>1, <1>2, NothingChanges DEF Sound, o

\* The bytes at n addresses, or at some of them
LEMMA PiecesSize ==
  ASSUME NEW n \in Nat, NEW at, \A i \in 0..(n - 1) : at[i] \in Nat, NEW size \in Nat,
         NEW I \in SUBSET (0..(n - 1))
  PROVE  /\ IsFiniteSet(UNION {Bytes(at[i], size) : i \in I})
         /\ Cardinality(UNION {Bytes(at[i], size) : i \in I}) <= n * size
<1> DEFINE G == [i \in 0..(n - 1) |-> Bytes(at[i], size)]
           U == UNION {G[i] : i \in 0..(n - 1)}
           V == UNION {Bytes(at[i], size) : i \in I}
<1>1. \A i \in 0..(n - 1) : IsFiniteSet(G[i]) /\ Cardinality(G[i]) <= size
  BY BytesSize
<1>2. V \in SUBSET U
  OBVIOUS
<1>3. IsFiniteSet(U) /\ Cardinality(U) <= n * size
  <2> HIDE DEF G
  <2> QED
    BY <1>1, UnionSize
<1> HIDE DEF U, V
<1>4. /\ IsFiniteSet(V) /\ Cardinality(V) <= Cardinality(U)
      /\ Cardinality(V) \in Nat /\ Cardinality(U) \in Nat
  BY <1>2, <1>3, FS_Subset, FS_CardinalityType
<1>5. n * size \in Nat
  OBVIOUS
<1>6. IsFiniteSet(V) /\ Cardinality(V) <= n * size
  BY <1>3, <1>4, <1>5
<1> QED
  BY <1>6 DEF V

LEMMA WrapType == \A a, b \in Nat : wrapping_add(a, b) \in Nat
BY Sizes DEF wrapping_add

LEMMA AffinitySound ==
  ASSUME memory \in Memories, NEW pid, NEW size \in Nat, NEW mask \in 0..(U64 - 1)
  PROVE  Sound("sched_getaffinity", <<pid, size, mask>>, handle_sched_getaffinity(pid, size, mask))
<1> DEFINE call == "sched_getaffinity"
           args == <<pid, size, mask>>
           at == [i \in 0..(size - 2) |-> wrapping_add(mask, i)]
           last == wrapping_add(mask, size - 1)
           c == ZeroEach(Ok(size), at, 1)
           bad == {i \in DOMAIN at : ~can_access(memory.writable, at[i], 1)}
           I == Before(DOMAIN at, bad)
           B == UNION {Bytes(at[i], 1) : i \in I}
<1>0. call \in Piecewise /\ call \notin {"write", "writev"}
  BY DEF Piecewise
<1>1. \A e : Sound(call, args, Err(e))
  BY QuietSound DEF Err
<1>2. ASSUME size \in 1..MAX_CPU_SET_SIZE
      PROVE  Sound(call, args,
                   IF c.err # "none" \/ ~can_access(memory.writable, last, 1)
                   THEN [c EXCEPT !.err = "Fault"]
                   ELSE Saw([c EXCEPT !.mem = Written(@, last, 1, TRUE)], {last}))
  <2>1. size <= PAGE_SIZE /\ size - 1 \in Nat /\ mask \in Nat
    BY <1>2, Sizes, CallsAssumption
  <2>2. DOMAIN at = 0..(size - 2) /\ DOMAIN at \subseteq Nat
    OBVIOUS
  <2>3. /\ \A i \in 0..(size - 2) : at[i] = (mask + i) % U64 /\ at[i] \in Nat
        /\ last = (mask + (size - 1)) % U64 /\ last \in Nat
    <3>1. ASSUME NEW i \in 0..(size - 2) PROVE at[i] = (mask + i) % U64 /\ at[i] \in Nat
      <4>1. at[i] = wrapping_add(mask, i) /\ i \in Nat
        OBVIOUS
      <4> HIDE DEF at
      <4> QED
        BY <4>1, <2>1, WrapType DEF wrapping_add
    <3>2. last = (mask + (size - 1)) % U64 /\ last \in Nat
      <4>1. last = (mask + (size - 1)) % U64
        BY DEF wrapping_add
      <4> QED
        BY <2>1, <4>1, WrapType
    <3> QED
      BY <3>1, <3>2
  <2>4. Cleared(c, B, {} \cup B) /\ (c.err = "none" <=> bad = {})
    <3>1. \A i \in DOMAIN at : at[i] \in Nat
      BY <2>2, <2>3
    <3>2. Cleared(Ok(size), {}, {}) /\ Ok(size).err = "none"
      BY OkCleared
    <3>3. EachCleared(c, at, 1, {})
      <4> HIDE DEF at
      <4> QED
        BY <2>2, <3>1, <3>2, ZeroEachIs
    <3> HIDE DEF c, at
    <3> QED
      BY <3>3 DEF EachCleared
  <2>5. I \subseteq 0..(size - 2) /\ \A i \in I : i \in DOMAIN at /\ \A b \in bad : i < b
    BY <2>2 DEF Before
  <2>6. Buffer(call, args) = Bytes(mask, size)
    BY DEF Buffer
  <2>7. \A i \in I : \A j \in 0..i : j \in DOMAIN at /\ can_access(memory.writable, at[j], 1)
    <3> TAKE i \in I
    <3> TAKE j \in 0..i
    <3>0. i \in 0..(size - 2)
      BY <2>5
    <3>1. i \in 0..(size - 2) /\ j \in 0..(size - 2) /\ j <= i
      <4> HIDE DEF I
      <4> QED
        BY <3>0, <2>1
    <3>2. j \notin bad
      <4> SUFFICES ASSUME j \in bad PROVE FALSE
        OBVIOUS
      <4>1. i < j
        BY <2>5
      <4> QED
        BY <3>1, <4>1
    <3> QED
      BY <2>2, <3>1, <3>2
  <2>8. \A a \in Nat : can_access(memory.writable, a, 1) => a < TOTAL_BYTES
    <3> TAKE a \in Nat
    <3> HAVE can_access(memory.writable, a, 1)
    <3>1. 1 > 0 => a + 1 <= TOTAL_BYTES
      <4> DEFINE W == memory.writable
      <4> HIDE DEF W
      <4>1. can_access(W, a, 1)
        BY DEF W
      <4> QED
        BY <4>1, AccessBytes
    <3> QED
      BY <3>1, Sizes
  <2>9. 1 \in Nat \ {0} /\ TOTAL_BYTES + 1 <= U64
    BY Sizes
  <2> HIDE DEF at, bad, I, c, last
  <2>10. ASSUME NEW k \in Nat, \A i \in 0..k : (mask + i) % U64 < TOTAL_BYTES
         PROVE  (mask + k) % U64 = mask + k
    <3>1. \A i \in 0..k : mask + 1 * i = mask + i
      BY <2>1
    <3>2. \A i \in 0..k : (mask + 1 * i) % U64 < TOTAL_BYTES
      BY <2>10, <3>1
    <3>3. k \in 0..k
      OBVIOUS
    <3>4. \A i \in 0..k : (mask + 1 * i) % U64 = mask + 1 * i
      <4> DEFINE s == 1
      <4>1. s \in Nat \ {0} /\ TOTAL_BYTES + s <= U64
        BY <2>9
      <4>2. \A i \in 0..k : (mask + s * i) % U64 < TOTAL_BYTES
        BY <3>2
      <4> HIDE DEF s
      <4>3. \A i \in 0..k : (mask + s * i) % U64 = mask + s * i
        BY <4>1, <4>2, NoWrap
      <4> QED
        BY <4>3 DEF s
    <3> QED
      BY <3>1, <3>3, <3>4
  <2>11. \A i \in I : at[i] = mask + i
    <3> TAKE i \in I
    <3>1. i \in Nat /\ i \in 0..(size - 2)
      BY <2>5
    <3>2. \A j \in 0..i : (mask + j) % U64 < TOTAL_BYTES
      BY <2>2, <2>3, <2>7, <2>8
    <3> QED
      BY <2>3, <2>10, <3>1, <3>2
  <2>12. B \subseteq Bytes(mask, size - 1)
    BY <2>1, <2>5, <2>11 DEF Bytes
  <2>13. Bytes(mask, size - 1) \subseteq Bytes(mask, size)
    BY <2>1 DEF Bytes
  <2>14. IsFiniteSet(B) /\ Cardinality(B) <= size - 1
    <3>1. IsFiniteSet(Bytes(mask, size - 1)) /\ Cardinality(Bytes(mask, size - 1)) = size - 1
      BY <2>1, BytesSize
    <3> HIDE DEF B
    <3> QED
      BY <3>1, <2>12, FS_Subset
  <2> HIDE DEF B
  <2>15. c = Outcome(c.err, c.val, c.mem, c.out, c.seen) /\ c.seen = B
         /\ c.mem = [memory EXCEPT !.data = memory.data \ B] /\ B \subseteq BytesOf(memory.writable)
    BY <2>4 DEF Cleared
  <2>16. Cardinality(B) \in Nat
    BY <2>14, FS_CardinalityType
  <2>17. CASE c.err # "none" \/ ~can_access(memory.writable, last, 1)
    <3> DEFINE r == [c EXCEPT !.err = "Fault"]
               D == memory.data \ B
    <3>1. r.err = "Fault" /\ r.mem = [memory EXCEPT !.data = D] /\ r.seen = B
      BY <2>15 DEF Outcome
    <3>2. /\ memory.data \ B \subseteq D /\ D \subseteq memory.data \cup B
          /\ B \subseteq Buffer(call, args) \cap BytesOf(memory.writable)
      BY <2>6, <2>12, <2>13, <2>15
    <3>3. IsFiniteSet(r.seen) /\ Cardinality(r.seen) <= PAGE_SIZE
      BY <3>1, <2>1, <2>14, <2>16, Sizes
    <3> HIDE DEF r, D, call, args
    <3>4. Sound(call, args, r)
      BY <1>0, <3>1, <3>2, <3>3, WriteSound
    <3> QED
      BY <2>17, <3>4 DEF r, call, args
  <2>18. CASE ~(c.err # "none" \/ ~can_access(memory.writable, last, 1))
    <3> DEFINE r == Saw([c EXCEPT !.mem = Written(@, last, 1, TRUE)], {last})
               W == B \cup {last}
               D == (memory.data \ B) \cup {last}
    <3>1. bad = {} /\ I = 0..(size - 2)
      BY <2>2, <2>4, <2>18 DEF I, Before
    <3>2. last = mask + (size - 1)
      <4>1. ASSUME NEW i \in 0..(size - 1) PROVE (mask + i) % U64 < TOTAL_BYTES
        <5>1. CASE i = size - 1
          BY <5>1, <2>3, <2>8, <2>18
        <5>2. CASE i # size - 1
          <6>1. i \in I /\ i \in 0..i /\ i \in 0..(size - 2)
            BY <3>1, <4>1, <5>2, <2>1
          <6> QED
            BY <6>1, <2>3, <2>7, <2>8
        <5> QED
          BY <5>1, <5>2
      <4> QED
        BY <4>1, <2>1, <2>3, <2>10
    <3>3. last \in Bytes(mask, size) /\ last \in BytesOf(memory.writable)
      <4>1. last \in Bytes(last, 1)
        BY <2>3 DEF Bytes
      <4> QED
        BY <3>2, <4>1, <2>1, <2>3, <2>18, AccessBytes DEF Bytes
    <3>4. W \subseteq Buffer(call, args) \cap BytesOf(memory.writable)
      BY <3>3, <2>6, <2>12, <2>13, <2>15
    <3>5. r.err = "none" /\ r.mem = [memory EXCEPT !.data = D] /\ r.seen = W
      <4> DEFINE m == [memory EXCEPT !.data = memory.data \ B]
                 v == c.val
                 w == c.out
      <4>1. c = Outcome("none", v, m, w, B)
        BY <2>15, <2>18
      <4>2. Written(m, last, 1, TRUE) = [memory EXCEPT !.data = D]
        <5>1. last..(last + 1 - 1) = {last}
          BY <2>3
        <5> QED
          BY <5>1 DEF Written, Memories
      <4> HIDE DEF m, v, w, D
      <4>3. [c EXCEPT !.mem = Written(@, last, 1, TRUE)]
              = Outcome("none", v, [memory EXCEPT !.data = D], w, B)
        <5>1. c.mem = m
          BY <4>1 DEF Outcome
        <5>2. [c EXCEPT !.mem = Written(@, last, 1, TRUE)] = [c EXCEPT !.mem = [memory EXCEPT !.data = D]]
          BY <4>2, <5>1
        <5> DEFINE d == [memory EXCEPT !.data = D]
        <5> HIDE DEF d
        <5>3. [c EXCEPT !.mem = d] = Outcome("none", v, d, w, B)
          BY <4>1 DEF Outcome
        <5> QED
          BY <5>2, <5>3 DEF d
      <4> QED
        BY <4>3 DEF Saw, Outcome
    <3>6. memory.data \ W \subseteq D /\ D \subseteq memory.data \cup W
      OBVIOUS
    <3>7. IsFiniteSet(W) /\ Cardinality(W) <= PAGE_SIZE
      <4>1. /\ IsFiniteSet(B \cup {last})
            /\ (Cardinality(B \cup {last}) = Cardinality(B)
                  \/ Cardinality(B \cup {last}) = Cardinality(B) + 1)
        BY <2>14, FS_AddElement
      <4> QED
        BY <4>1, <2>1, <2>14, <2>16, Sizes
    <3> HIDE DEF r, D, W, call, args
    <3>8. Sound(call, args, r)
      BY <1>0, <3>4, <3>5, <3>6, <3>7, WriteSound
    <3> QED
      BY <2>18, <3>8 DEF r, call, args
  <2> QED
    BY <2>17, <2>18
<1>3. handle_sched_getaffinity(pid, size, mask)
        = IF pid \notin {0, 1} THEN Err("Search")
          ELSE IF size \notin 1..MAX_CPU_SET_SIZE THEN Err("InvalidArgument")
          ELSE IF c.err # "none" \/ ~can_access(memory.writable, last, 1)
          THEN [c EXCEPT !.err = "Fault"]
          ELSE Saw([c EXCEPT !.mem = Written(@, last, 1, TRUE)], {last})
  BY DEF handle_sched_getaffinity
<1> HIDE DEF c, last
<1> QED
  BY <1>1, <1>2, <1>3

\* All file descriptors were read, so that their structures do not wrap around,
\* and the answers are in them
LEMMA PollAddresses ==
  ASSUME NEW a \in 0..(U64 - 1), NEW n \in Nat,
         \A i \in 0..(n - 1) : can_access(memory.readable, fd_of(a, i), INT)
  PROVE  \A i \in 0..(n - 1) : /\ revents_of(a, i) \in Nat
                               /\ Bytes(revents_of(a, i), SHORT) \subseteq Bytes(a, n * SIZE_POLLFD)
<1> DEFINE S == SIZE_POLLFD
<1>1. /\ S \in Nat \ {0} /\ TOTAL_BYTES + S <= U64 /\ a \in Nat /\ U64 \in Nat \ {0}
      /\ TOTAL_BYTES \in Nat /\ INT \in Nat \ {0} /\ SHORT \in Nat \ {0}
  BY Sizes
<1>2. S = INT + 2 * SHORT
  BY DEF SIZE_POLLFD
<1>3. \A i \in Nat : fd_of(a, i) = (a + S * i) % U64
                     /\ revents_of(a, i) = (a + (S * i + INT + SHORT)) % U64
  BY DEF fd_of, revents_of, wrapping_add
<1>4. n * SIZE_POLLFD = n * S
  OBVIOUS
<1> HIDE DEF S
<1> TAKE k \in 0..(n - 1)
<1>5. \A i \in 0..k : (a + S * i) % U64 < TOTAL_BYTES
  <2> TAKE i \in 0..k
  <2>1. i \in Nat /\ i \in 0..(n - 1)
    OBVIOUS
  <2>2. fd_of(a, i) = (a + S * i) % U64
    BY <2>1, <1>3
  <2>3. fd_of(a, i) \in Nat
    <3>1. a + S * i \in Nat
      BY <1>1, <2>1
    <3> QED
      BY <1>1, <2>2, <3>1
  <2>4. INT > 0 => fd_of(a, i) + INT <= TOTAL_BYTES
    <3> DEFINE R == memory.readable
               f == fd_of(a, i)
    <3>1. can_access(R, f, INT) /\ f \in Nat /\ INT \in Nat
      BY <2>1, <2>3, <1>1
    <3> HIDE DEF R, f
    <3>2. INT > 0 => f + INT <= TOTAL_BYTES
      BY <3>1, AccessBytes
    <3> QED
      BY <3>2 DEF f
  <2> HIDE DEF S
  <2> QED
    BY <1>1, <2>2, <2>3, <2>4
<1>6. k \in Nat /\ k \in 0..k /\ k + 1 <= n
  OBVIOUS
<1>7. a + S * k < TOTAL_BYTES /\ a + S * k \in Nat
  BY <1>1, <1>5, <1>6, NoWrap
<1> DEFINE p == S * k
           r == a + (p + INT + SHORT)
<1>8. p \in Nat /\ p + S <= n * S
  <2>1. p \in Nat /\ p + S = (k + 1) * S
    BY <1>1, <1>6
  <2>2. (k + 1) * S <= n * S
    BY <1>1, <1>6
  <2> QED
    BY <2>1, <2>2
<1>9. revents_of(a, k) = r % U64
  BY <1>3, <1>6
<1>10. a + p < TOTAL_BYTES /\ n * S \in Nat
  BY <1>7, <1>1
<1> HIDE DEF p
<1>11. r < U64 /\ r \in Nat
  BY <1>1, <1>2, <1>8, <1>10
<1>12. revents_of(a, k) = r
  BY <1>1, <1>9, <1>11
<1>13. Bytes(r, SHORT) \subseteq Bytes(a, n * S)
  BY <1>1, <1>2, <1>8, <1>10, <1>11 DEF Bytes
<1> QED
  BY <1>4, <1>11, <1>12, <1>13

LEMMA PpollSound ==
  ASSUME memory \in Memories, NEW a \in 0..(U64 - 1), NEW n \in Nat, NEW fds
  PROVE  Sound("ppoll", <<a, n>>, handle_ppoll(a, n, fds))
<1> DEFINE call == "ppoll"
           args == <<a, n>>
           bad == {i \in 0..(n - 1) : ~can_access(memory.readable, fd_of(a, i), INT)}
           read == Before(0..(n - 1), bad)
           seen == UNION {Bytes(fd_of(a, i), INT) : i \in read}
           at == [i \in 0..(n - 1) |-> revents_of(a, i)]
           r == ZeroEach(Saw(Ok(0), seen), at, SHORT)
<1>0. call \in Piecewise /\ call \notin {"write", "writev"}
  BY DEF Piecewise
<1>1. \A e : Sound(call, args, Err(e))
  BY QuietSound DEF Err
<1>2. ASSUME n <= RLIMIT_NOFILE
      PROVE  /\ \A e : Sound(call, args, Saw(Err(e), seen))
             /\ bad = {} => Sound(call, args, r)
  <2>1. read \in SUBSET (0..(n - 1))
    BY DEF Before
  <2>2. /\ a \in Nat /\ INT \in Nat \ {0} /\ SHORT \in Nat \ {0} /\ RLIMIT_NOFILE \in Nat
        /\ SIZE_POLLFD \in Nat
        /\ RLIMIT_NOFILE * (INT + SHORT) <= PAGE_SIZE /\ PAGE_SIZE \in Nat
    BY Sizes, CallsAssumption
  <2>3. n * INT + n * SHORT <= PAGE_SIZE /\ n * INT \in Nat /\ n * SHORT \in Nat
    <3>1. n * (INT + SHORT) <= RLIMIT_NOFILE * (INT + SHORT)
      BY <1>2, <2>2
    <3>2. n * (INT + SHORT) = n * INT + n * SHORT /\ n * INT \in Nat /\ n * SHORT \in Nat
      BY <2>2
    <3>3. RLIMIT_NOFILE * (INT + SHORT) \in Nat
      BY <2>2
    <3> QED
      BY <2>2, <3>1, <3>2, <3>3
  <2>4. IsFiniteSet(seen) /\ Cardinality(seen) <= n * INT /\ Cardinality(seen) \in Nat
    <3> DEFINE f == [i \in 0..(n - 1) |-> fd_of(a, i)]
               s == UNION {Bytes(f[i], INT) : i \in read}
    <3>1. ASSUME NEW i \in 0..(n - 1) PROVE f[i] \in Nat
      <4>1. SIZE_POLLFD * i \in Nat
        BY <2>2
      <4> QED
        BY <4>1, <2>2, WrapType DEF fd_of
    <3>2. s = seen
      BY <2>1
    <3> HIDE DEF f, read
    <3>3. IsFiniteSet(s) /\ Cardinality(s) <= n * INT
      BY <2>1, <2>2, <3>1, PiecesSize
    <3> HIDE DEF s, seen
    <3> QED
      BY <3>2, <3>3, FS_CardinalityType
  <2>5. Cardinality(seen) <= PAGE_SIZE
    <3> HIDE DEF seen
    <3> QED
      BY <2>2, <2>3, <2>4
  <2>6. ASSUME NEW e PROVE Sound(call, args, Saw(Err(e), seen))
    <3> HIDE DEF seen, call, args
    <3> QED
      BY <1>0, <2>4, <2>5, SawSound DEF Err
  <2>7. ASSUME bad = {} PROVE Sound(call, args, r)
    <3> DEFINE broken == {i \in DOMAIN at : ~can_access(memory.writable, at[i], SHORT)}
               I == Before(DOMAIN at, broken)
               B == UNION {Bytes(at[i], SHORT) : i \in I}
    <3>1. DOMAIN at = 0..(n - 1) /\ DOMAIN at \subseteq Nat /\ I \in SUBSET (0..(n - 1))
      BY DEF Before
    <3>2. \A i \in 0..(n - 1) : /\ at[i] \in Nat
                                /\ Bytes(at[i], SHORT) \subseteq Bytes(a, n * SIZE_POLLFD)
      BY <2>7, PollAddresses
    <3>3. Cleared(Saw(Ok(0), seen), {}, seen) /\ Saw(Ok(0), seen).err = "none"
      <4>1. memory = [memory EXCEPT !.data = memory.data \ {}]
        BY DEF Memories
      <4> HIDE DEF seen
      <4>2. Saw(Ok(0), seen) = Outcome("none", 0, memory, <<>>, seen)
        BY DEF Ok, Saw, Outcome
      <4> QED
        BY <4>1, <4>2 DEF Cleared, Outcome
    <3>4. Cleared(r, B, seen \cup B)
      <4> DEFINE o == Saw(Ok(0), seen)
      <4> HIDE DEF o, seen, at
      <4>1. Cleared(o, {}, seen) /\ o.err = "none"
        BY <3>3 DEF o
      <4>2. \A i \in DOMAIN at : at[i] \in Nat
        BY <3>1, <3>2
      <4>3. EachCleared(ZeroEach(o, at, SHORT), at, SHORT, seen)
        BY <2>2, <3>1, <4>1, <4>2, ZeroEachIs
      <4>4. EachCleared(r, at, SHORT, seen)
        BY <4>3 DEF o
      <4> HIDE DEF r
      <4> QED
        BY <4>4 DEF EachCleared
    <3> HIDE DEF at, I, seen, r
    <3>5. IsFiniteSet(B) /\ Cardinality(B) <= n * SHORT
      BY <2>2, <3>1, <3>2, PiecesSize
    <3>6. B \subseteq Buffer(call, args)
      <4>1. Buffer(call, args) = Bytes(a, n * SIZE_POLLFD)
        BY DEF Buffer
      <4> QED
        BY <3>1, <3>2, <4>1
    <3> HIDE DEF B, call, args
    <3>7. IsFiniteSet(seen \cup B) /\ Cardinality(seen \cup B) <= PAGE_SIZE
      <4>1. /\ IsFiniteSet(seen \cup B) /\ Cardinality(B) \in Nat
            /\ Cardinality(seen \cup B) \in Nat /\ Cardinality(seen \cap B) \in Nat
            /\ Cardinality(seen \cup B)
                 = Cardinality(seen) + Cardinality(B) - Cardinality(seen \cap B)
        BY <2>4, <3>5, FS_Union, FS_CardinalityType, FS_Intersection
      <4> QED
        BY <2>2, <2>3, <2>4, <3>5, <4>1
    <3> QED
      BY <1>0, <3>4, <3>6, <3>7, ClearedSound
  <2> QED
    BY <2>6, <2>7
<1>3. handle_ppoll(a, n, fds)
        = IF n > RLIMIT_NOFILE THEN Err("InvalidArgument")
          ELSE IF bad # {} THEN Saw(Err("Fault"), seen)
          ELSE IF \E i \in read : fds[i] \notin {0, 1, 2} THEN Saw(Err("NoSystemCall"), seen)
          ELSE r
  BY DEF handle_ppoll
<1>4. RLIMIT_NOFILE \in Nat
  BY CallsAssumption
<1> HIDE DEF bad, read, seen, r
<1> QED
  BY <1>1, <1>2, <1>3, <1>4

\* A write answers with a beginning of the data at one address
WriteAnswer(o, a, len) ==
  \/ o = Outcome("Fault", 0, memory, <<>>, {})
  \/ \E n \in Nat : /\ n <= len /\ n <= PAGE_SIZE /\ (n = 0 => len = 0)
                    /\ o = Outcome("none", n, memory, LocationsFrom(a, n), Bytes(a, n))

LEMMA WriteToFdIs ==
  ASSUME NEW a \in Nat, NEW len \in Nat
  PROVE  WriteAnswer(write_to_fd(a, len), a, len)
<1> DEFINE n == Smaller(len, PAGE_SIZE)
<1>1. n \in Nat /\ n <= len /\ n <= PAGE_SIZE /\ (n = 0 => len = 0)
  BY Sizes DEF Smaller
<1>2. write_to_fd(a, len)
        = IF ~can_access(memory.readable, a, n) THEN Err("Fault")
          ELSE Outcome("none", n, memory, LocationsFrom(a, n), Bytes(a, n))
  BY DEF write_to_fd, LocationsFrom
<1> HIDE DEF n
<1> QED
  BY <1>1, <1>2 DEF WriteAnswer, Err

LEMMA LocationsAre ==
  ASSUME NEW a \in Nat, NEW n \in Nat
  PROVE  /\ LocationsFrom(a, n) \in Seq(Nat) /\ Len(LocationsFrom(a, n)) = n
         /\ \A i \in 1..n : LocationsFrom(a, n)[i] = a + i - 1
BY DEF LocationsFrom

\* An outcome that leaves memory alone
LEMMA SoundOutput ==
  ASSUME memory \in Memories, NEW call \in {"write", "writev"}, NEW args, NEW err, NEW val, NEW out,
         NEW seen, IsFiniteSet(seen), Cardinality(seen) <= Limit(call),
         Outputs(call, args, Outcome(err, val, memory, out, seen))
  PROVE  Sound(call, args, Outcome(err, val, memory, out, seen))
<1> DEFINE o == Outcome(err, val, memory, out, seen)
<1>1. o.mem = memory /\ o.seen = seen
  BY OutcomeIs
<1>2. Outputs(call, args, o) /\ SmallSeen(call, o)
  BY <1>1 DEF SmallSeen
<1> HIDE DEF o
<1> QED
  BY <1>1, <1>2, NothingChanges DEF Sound, o

LEMMA NoOutput ==
  ASSUME NEW call, NEW args, NEW err, NEW seen, Len(AskedOf(call, args)) \in Nat
  PROVE  /\ err # "none" => Outputs(call, args, Outcome(err, 0, memory, <<>>, seen))
         /\ call # "write" => Outputs(call, args, Outcome(err, 0, memory, <<>>, seen))
<1> DEFINE o == Outcome(err, 0, memory, <<>>, seen)
<1>1. o.err = err /\ o.val = 0 /\ o.out = <<>>
  BY OutcomeIs
<1>2. Len(<<>>) = 0 /\ IsPrefix(<<>>, AskedOf(call, args))
  BY DEF IsPrefix
<1> HIDE DEF o
<1> QED
  BY <1>1, <1>2 DEF Outputs, o

LEMMA HandleWriteSound ==
  ASSUME memory \in Memories, NEW fd, NEW a \in Nat, NEW len \in Nat
  PROVE  Sound("write", <<fd, a, len>>, handle_write(fd, a, len))
<1> DEFINE call == "write"
           args == <<fd, a, len>>
<1>1. AskedOf(call, args) = LocationsFrom(a, len) /\ call \in {"write", "writev"}
      /\ Limit(call) = PAGE_SIZE
  BY DEF AskedOf, Limit
<1>2. Len(AskedOf(call, args)) = len
  BY <1>1, LocationsAre
<1>3. IsFiniteSet({}) /\ Cardinality({}) <= Limit(call)
  BY <1>1, FS_EmptySet, PagePositive
<1> HIDE DEF call, args
<1>4. \A e : e # "none" => Sound(call, args, Outcome(e, 0, memory, <<>>, {}))
  BY <1>1, <1>2, <1>3, NoOutput, SoundOutput
<1>5. ASSUME NEW n \in Nat, n <= len, n <= PAGE_SIZE, n = 0 => len = 0
      PROVE  Sound(call, args, Outcome("none", n, memory, LocationsFrom(a, n), Bytes(a, n)))
  <2> DEFINE out == LocationsFrom(a, n)
             seen == Bytes(a, n)
             o == Outcome("none", n, memory, out, seen)
  <2>1. Len(out) = n /\ \A i \in 1..n : out[i] = a + i - 1
    BY LocationsAre
  <2>2. IsPrefix(out, LocationsFrom(a, len))
    <3>1. Len(LocationsFrom(a, len)) = len /\ \A i \in 1..len : LocationsFrom(a, len)[i] = a + i - 1
      BY LocationsAre
    <3> QED
      BY <1>5, <2>1, <3>1 DEF IsPrefix
  <2>3. out = <<>> => LocationsFrom(a, len) = <<>>
    <3> SUFFICES ASSUME out = <<>> PROVE LocationsFrom(a, len) = <<>>
      OBVIOUS
    <3>1. n = 0 /\ len = 0
      BY <2>1, <1>5
    <3> QED
      BY <3>1
  <2>4. IsFiniteSet(seen) /\ Cardinality(seen) <= Limit(call)
    BY <1>1, <1>5, BytesSize
  <2> HIDE DEF out, seen
  <2>5. o.err = "none" /\ o.val = n /\ o.out = out
    BY OutcomeIs
  <2>6. Outputs(call, args, o)
    BY <1>1, <2>1, <2>2, <2>3, <2>5 DEF Outputs
  <2>7. Sound(call, args, o)
    BY <1>1, <2>4, <2>6, SoundOutput
  <2> QED
    BY <2>7 DEF out, seen
<1>6. Sound(call, args, write_to_fd(a, len))
  BY <1>4, <1>5, WriteToFdIs DEF WriteAnswer
<1>7. Sound(call, args, Err("BadFileDescriptor"))
  BY <1>4 DEF Err
<1> QED
  BY <1>6, <1>7 DEF handle_write, call, args

\* The data of the first entries, step by step
Gathers(f, vec, n) ==
  [i \in 0..n |-> IF i = 0 THEN <<>> ELSE f[i - 1] \o LocationsFrom(vec[i - 1].base, vec[i - 1].len)]

IoVec(vec, n) == DOMAIN vec = 0..(n - 1) /\ \A i \in 0..(n - 1) : vec[i].base \in Nat /\ vec[i].len \in Nat

LEMMA GathersExists ==
  ASSUME NEW n \in Nat, NEW vec, IoVec(vec, n)
  PROVE  \E h : h = Gathers(h, vec, n) /\ \A i \in 0..n : h[i] \in Seq(Nat)
<1> DEFINE Loc(i) == LocationsFrom(vec[i].base, vec[i].len)
           Chain(h, m) == h = Gathers(h, vec, m) /\ \A i \in 0..m : h[i] \in Seq(Nat)
           T == {m \in Nat : \E h : Chain(h, m)}
<1>1. 0 \in T
  <2> DEFINE h == [i \in 0..0 |-> <<>>]
  <2>1. h = Gathers(h, vec, 0)
    BY DEF Gathers
  <2>2. \A i \in 0..0 : h[i] \in Seq(Nat)
    OBVIOUS
  <2> HIDE DEF h
  <2>3. Chain(h, 0)
    BY <2>1, <2>2
  <2> HIDE DEF Chain
  <2> QED
    BY <2>3
<1>2. ASSUME NEW m \in 0..(n - 1), m \in T PROVE m + 1 \in T
  <2>1. PICK h : Chain(h, m)
    BY <1>2
  <2> DEFINE g == [i \in 0..(m + 1) |-> IF i = m + 1 THEN h[m] \o Loc(m) ELSE h[i]]
  <2>2. h[m] \in Seq(Nat) /\ \A i \in 0..m : h[i] \in Seq(Nat)
    BY <2>1
  <2>3. Loc(m) \in Seq(Nat)
    BY LocationsAre DEF IoVec
  <2>4. \A i \in 0..(m + 1) : g[i] \in Seq(Nat)
    <3> HIDE DEF Loc, Chain
    <3>1. h[m] \o Loc(m) \in Seq(Nat)
      BY <2>2, <2>3
    <3> QED
      BY <2>2, <3>1
  <2>5. g = Gathers(g, vec, m + 1)
    <3>1. ASSUME NEW i \in 0..(m + 1)
          PROVE  g[i] = IF i = 0 THEN <<>> ELSE g[i - 1] \o Loc(i - 1)
      <4>1. CASE i = m + 1
        <5>1. i # 0 /\ i - 1 = m /\ m \in 0..(m + 1) /\ m # m + 1
          BY <4>1
        <5>2. g[m] = h[m]
          BY <5>1
        <5>3. g[i] = h[m] \o Loc(m)
          BY <4>1
        <5> HIDE DEF g, Loc
        <5> QED
          BY <5>1, <5>2, <5>3
      <4>2. CASE i # m + 1
        <5>1. i \in 0..m /\ g[i] = h[i]
          BY <4>2
        <5>2. h[i] = IF i = 0 THEN <<>> ELSE h[i - 1] \o Loc(i - 1)
          <6> HIDE DEF g
          <6>1. h = Gathers(h, vec, m)
            BY <2>1
          <6>2. Gathers(h, vec, m)[i] = IF i = 0 THEN <<>> ELSE h[i - 1] \o Loc(i - 1)
            BY <5>1 DEF Gathers
          <6> QED
            BY <6>1, <6>2
        <5>3. i # 0 => g[i - 1] = h[i - 1]
          BY <5>1
        <5> HIDE DEF g, Loc
        <5> QED
          BY <5>1, <5>2, <5>3
      <4> QED
        BY <4>1, <4>2
    <3>2. g = [i \in 0..(m + 1) |-> g[i]]
      OBVIOUS
    <3> HIDE DEF g
    <3> QED
      BY <3>1, <3>2 DEF Gathers
  <2> HIDE DEF g
  <2>6. Chain(g, m + 1)
    BY <2>4, <2>5
  <2> HIDE DEF Chain
  <2> QED
    BY <2>6
<1> HIDE DEF T
<1>3. n \in T
  BY <1>1, <1>2, Upwards
<1> QED
  BY <1>3 DEF T

\* What all entries ask for is the last of these sequences
LEMMA GatheredIs ==
  ASSUME NEW n \in Nat, NEW vec, IoVec(vec, n)
  PROVE  \E h : /\ \A i \in 0..n : h[i] \in Seq(Nat)
                /\ h[0] = <<>>
                /\ \A i \in 0..(n - 1) : h[i + 1] = h[i] \o LocationsFrom(vec[i].base, vec[i].len)
                /\ Gathered(vec) = h[n]
<1> DEFINE f == CHOOSE h : h = Gathers(h, vec, n)
<1>1. Cardinality(DOMAIN vec) = n
  <2>1. Cardinality(0..(n - 1)) = n
    BY FS_Interval
  <2> QED
    BY <2>1 DEF IoVec
<1>2. PICK h : h = Gathers(h, vec, n) /\ \A i \in 0..n : h[i] \in Seq(Nat)
  BY GathersExists
<1>3. Gathered(vec) = f[n]
  BY <1>1 DEF Gathered, Gathers
<1>4. f = Gathers(f, vec, n)
  BY <1>2, Zenon
<1> HIDE DEF f
<1> DEFINE Loc(i) == LocationsFrom(vec[i].base, vec[i].len)
<1>5. ASSUME NEW g, g = Gathers(g, vec, n)
      PROVE  g[0] = <<>> /\ \A i \in 0..(n - 1) : g[i + 1] = g[i] \o Loc(i)
  <2>1. Gathers(g, vec, n)[0] = <<>>
    BY DEF Gathers
  <2>2. ASSUME NEW i \in 0..(n - 1) PROVE Gathers(g, vec, n)[i + 1] = g[i] \o Loc(i)
    <3>1. i + 1 \in 0..n /\ i + 1 # 0 /\ (i + 1) - 1 = i
      OBVIOUS
    <3>2. Gathers(g, vec, n)[i + 1] = g[(i + 1) - 1] \o Loc((i + 1) - 1)
      BY <3>1 DEF Gathers
    <3> QED
      BY <3>1, <3>2
  <2> QED
    BY <1>5, <2>1, <2>2
<1> HIDE DEF Loc
<1>6. f[0] = <<>> /\ \A i \in 0..(n - 1) : f[i + 1] = f[i] \o Loc(i)
  BY <1>4, <1>5
<1>7. h[0] = <<>> /\ \A i \in 0..(n - 1) : h[i + 1] = h[i] \o Loc(i)
  BY <1>2, <1>5
<1> DEFINE T == {i \in Nat : f[i] = h[i]}
<1>8. 0 \in T /\ \A i \in 0..(n - 1) : i \in T => i + 1 \in T
  <2>1. 0 \in T
    BY <1>6, <1>7
  <2>2. ASSUME NEW i \in 0..(n - 1), i \in T PROVE i + 1 \in T
    <3>1. f[i] = h[i] /\ i + 1 \in Nat
      BY <2>2
    <3>2. f[i + 1] = f[i] \o Loc(i) /\ h[i + 1] = h[i] \o Loc(i)
      BY <1>6, <1>7
    <3> QED
      BY <3>1, <3>2
  <2> QED
    BY <2>1, <2>2
<1> HIDE DEF T
<1>9. \A i \in 0..n : i \in T
  BY <1>8, Upwards
<1>10. \A i \in 0..n : f[i] \in Seq(Nat)
  BY <1>2, <1>9 DEF T
<1> QED
  BY <1>3, <1>6, <1>10 DEF Loc

LEMMA GatheredLen == ASSUME NEW n \in Nat, NEW vec, IoVec(vec, n) PROVE Len(Gathered(vec)) \in Nat
<1>1. PICK h : (\A i \in 0..n : h[i] \in Seq(Nat)) /\ Gathered(vec) = h[n]
  BY GatheredIs
<1>2. h[n] \in Seq(Nat)
  BY <1>1
<1> QED
  BY <1>1, <1>2

\* The data of the first entry that has some is where the data begins
LEMMA GatheredPrefix ==
  ASSUME NEW n \in Nat, NEW vec, IoVec(vec, n), NEW first \in 0..(n - 1),
         \A i \in 0..(first - 1) : vec[i].len = 0,
         NEW k \in Nat, k <= vec[first].len
  PROVE  IsPrefix(LocationsFrom(vec[first].base, k), Gathered(vec))
<1>1. PICK h : /\ \A i \in 0..n : h[i] \in Seq(Nat)
               /\ h[0] = <<>>
               /\ \A i \in 0..(n - 1) : h[i + 1] = h[i] \o LocationsFrom(vec[i].base, vec[i].len)
               /\ Gathered(vec) = h[n]
  BY GatheredIs
<1>2. \A i \in 0..(n - 1) : vec[i].base \in Nat /\ vec[i].len \in Nat
  BY DEF IoVec
<1> DEFINE b == vec[first].base
           l == vec[first].len
           P(s) == Len(s) >= k /\ \A j \in 1..k : s[j] = b + j - 1
           S == {i \in Nat : i <= first => h[i] = <<>>}
           T == {i \in Nat : i > first => P(h[i])}
<1>3. 0 \in S /\ \A i \in 0..(n - 1) : i \in S => i + 1 \in S
  <2> SUFFICES ASSUME NEW i \in 0..(n - 1), i \in S, i + 1 <= first PROVE h[i + 1] = <<>>
    BY <1>1
  <2>1. h[i] = <<>> /\ i \in 0..(first - 1)
    OBVIOUS
  <2>2. h[i + 1] = h[i] \o LocationsFrom(vec[i].base, 0)
    BY <1>1, <2>1
  <2>3. LocationsFrom(vec[i].base, 0) = <<>>
    BY DEF LocationsFrom
  <2> QED
    BY <2>1, <2>2, <2>3
<1>4. \A i \in 0..n : i \in S
  <2> HIDE DEF S
  <2> QED
    BY <1>3, Upwards
<1>5. h[first] = <<>>
  BY <1>4
<1>6. ASSUME NEW i \in 0..(n - 1), i \in T PROVE i + 1 \in T
  <2> DEFINE L == LocationsFrom(vec[i].base, vec[i].len)
             s == h[i]
  <2>1. h[i + 1] = s \o L /\ s \in Seq(Nat)
    <3>1. i \in 0..n
      OBVIOUS
    <3> HIDE DEF T, S, P
    <3> QED
      BY <1>1, <3>1
  <2>2. L \in Seq(Nat) /\ Len(L) = vec[i].len /\ \A j \in 1..vec[i].len : L[j] = vec[i].base + j - 1
    BY <1>2, LocationsAre
  <2>3. CASE i < first
    BY <2>3
  <2>4. CASE i = first
    <3>1. s = <<>>
      BY <1>5, <2>4
    <3>2. Len(L) = l /\ \A j \in 1..l : L[j] = b + j - 1
      BY <2>2, <2>4
    <3>3. l \in Nat /\ b \in Nat /\ k <= l
      BY <1>2
    <3> HIDE DEF L, s, b, l
    <3>4. h[i + 1] = L
      BY <2>1, <2>2, <3>1
    <3>5. P(L)
      BY <3>2, <3>3
    <3> QED
      BY <3>4, <3>5
  <2>5. CASE i > first
    <3>1. P(s)
      <4>1. i > first => P(h[i])
        BY <1>6, Zenon DEF T
      <4> HIDE DEF P
      <4> QED
        BY <2>5, <4>1
    <3>2. b \in Nat
      BY <1>2
    <3> HIDE DEF L, s, b
    <3>3. Len(s \o L) = Len(s) + Len(L) /\ \A j \in 1..Len(s) : (s \o L)[j] = s[j]
      BY <2>1, <2>2
    <3>4. P(s \o L)
      BY <2>1, <2>2, <3>1, <3>3
    <3> HIDE DEF P
    <3>5. h[i + 1] = s \o L
      BY <2>1
    <3>6. P(h[i + 1])
      BY <3>4, <3>5, Zenon
    <3>7. i + 1 \in Nat
      OBVIOUS
    <3> QED
      BY <3>6, <3>7, Zenon
  <2> QED
    BY <2>3, <2>4, <2>5
<1>7. 0 \in T
  OBVIOUS
<1>8. \A i \in 0..n : i \in T
  <2> HIDE DEF T
  <2> QED
    BY <1>6, <1>7, Upwards
<1>9. P(h[n])
  BY <1>8
<1>10. Len(LocationsFrom(b, k)) = k /\ \A j \in 1..k : LocationsFrom(b, k)[j] = b + j - 1
  BY <1>2, LocationsAre
<1>11. h[n] \in Seq(Nat)
  BY <1>1
<1> HIDE DEF b
<1>12. IsPrefix(LocationsFrom(b, k), h[n])
  BY <1>9, <1>10, <1>11 DEF IsPrefix
<1> QED
  BY <1>1, <1>12 DEF b

LEMMA EntriesSize ==
  ASSUME NEW a \in Nat, NEW m \in Nat, m <= PAGE_SIZE \div SIZE_IOVEC
  PROVE  IsFiniteSet(Entries(a, m)) /\ Cardinality(Entries(a, m)) <= PAGE_SIZE
<1> DEFINE G == [i \in 0..(m - 1) |-> Bytes(base_of(a, i), WORD) \cup Bytes(len_of(a, i), WORD)]
           S == SIZE_IOVEC
<1>1. S \in Nat \ {0} /\ WORD \in Nat /\ PAGE_SIZE \in Nat /\ S = WORD + WORD
  BY Sizes DEF SIZE_IOVEC
<1>2. ASSUME NEW i \in 0..(m - 1) PROVE IsFiniteSet(G[i]) /\ Cardinality(G[i]) <= S
  <2> DEFINE B == Bytes(base_of(a, i), WORD)
             C == Bytes(len_of(a, i), WORD)
  <2>1. base_of(a, i) \in Nat /\ len_of(a, i) \in Nat
    <3>1. SIZE_IOVEC * i \in Nat
      BY <1>1
    <3>2. base_of(a, i) \in Nat
      BY <3>1, WrapType DEF base_of
    <3> QED
      BY <1>1, <3>2, WrapType DEF len_of
  <2>2. /\ IsFiniteSet(B) /\ Cardinality(B) = WORD
        /\ IsFiniteSet(C) /\ Cardinality(C) = WORD
    BY <1>1, <2>1, BytesSize
  <2>3. G[i] = B \cup C
    OBVIOUS
  <2> HIDE DEF G, B, C, S
  <2>4. /\ IsFiniteSet(B \cup C) /\ Cardinality(B \cup C) \in Nat /\ Cardinality(B \cap C) \in Nat
        /\ Cardinality(B \cup C) = WORD + WORD - Cardinality(B \cap C)
    BY <2>2, FS_Union, FS_CardinalityType, FS_Intersection
  <2> QED
    BY <1>1, <2>3, <2>4
<1>3. Entries(a, m) = UNION {G[i] : i \in 0..(m - 1)}
  BY DEF Entries
<1>4. m * S <= PAGE_SIZE
  <2> DEFINE q == PAGE_SIZE \div S
  <2>1. q \in Nat /\ q * S <= PAGE_SIZE /\ m <= q
    <3> HIDE DEF S
    <3>1. q \in Nat /\ q * S <= PAGE_SIZE
      BY <1>1
    <3> QED
      BY <3>1 DEF S
  <2> HIDE DEF q, S
  <2>2. m * S <= q * S
    BY <1>1, <2>1
  <2> QED
    BY <1>1, <2>1, <2>2
<1> DEFINE U == UNION {G[i] : i \in 0..(m - 1)}
<1>5. IsFiniteSet(U) /\ Cardinality(U) <= m * S
  <2>1. S \in Nat /\ \A i \in 0..(m - 1) : IsFiniteSet(G[i]) /\ Cardinality(G[i]) <= S
    BY <1>1, <1>2
  <2> HIDE DEF G, S
  <2> QED
    BY <2>1, UnionSize
<1> HIDE DEF U, S
<1>6. Cardinality(U) \in Nat /\ m * S \in Nat
  BY <1>1, <1>5, FS_CardinalityType
<1> QED
  BY <1>1, <1>3, <1>4, <1>5, <1>6 DEF U

LEMMA WritevSound ==
  ASSUME memory \in Memories, NEW fd, NEW a \in Nat, NEW n \in Nat, NEW vec, IoVec(vec, n)
  PROVE  Sound("writev", <<fd, a, vec>>, handle_writev(fd, a, vec))
<1> DEFINE call == "writev"
           args == <<fd, a, vec>>
           q == PAGE_SIZE \div SIZE_IOVEC
           max == Smaller(Cardinality(DOMAIN vec), q)
           ends == {i \in 0..(max - 1) : vec[i].len > 0 \/ ~EntryReadable(a, i)}
           first == CHOOSE i \in ends : \A j \in ends : i <= j
           base == IF BaseReadable(a, first) THEN Bytes(base_of(a, first), WORD) ELSE {}
<1>1. AskedOf(call, args) = Gathered(vec) /\ call \in {"write", "writev"}
      /\ Limit(call) = 2 * PAGE_SIZE /\ call # "write"
  BY DEF AskedOf, Limit
<1>2. Len(AskedOf(call, args)) \in Nat
  BY <1>1, GatheredLen
<1>3. handle_writev(fd, a, vec)
        = IF fd \notin FileDescriptorWriteable THEN Err("BadFileDescriptor")
          ELSE IF ends = {} THEN Saw(Ok(0), Entries(a, max))
          ELSE IF ~EntryReadable(a, first) THEN Saw(Err("Fault"), Entries(a, first) \cup base)
          ELSE Saw(write_to_fd(vec[first].base, vec[first].len), Entries(a, first + 1))
  BY DEF handle_writev
<1>4. max \in Nat /\ max <= n /\ max <= q /\ q \in Nat
  <2>1. Cardinality(DOMAIN vec) = n
    <3>1. Cardinality(0..(n - 1)) = n
      BY FS_Interval
    <3> QED
      BY <3>1 DEF IoVec
  <2>2. q \in Nat
    BY Sizes
  <2> HIDE DEF q
  <2> QED
    BY <2>1, <2>2 DEF Smaller
<1> HIDE DEF call, args, max
<1>5. ASSUME NEW err, NEW val, NEW seen, IsFiniteSet(seen), Cardinality(seen) <= PAGE_SIZE
      PROVE  Sound(call, args, Outcome(err, 0, memory, <<>>, seen))
  <2>1. Cardinality(seen) <= Limit(call)
    BY <1>1, <1>5, Sizes, FS_CardinalityType
  <2>2. Outputs(call, args, Outcome(err, 0, memory, <<>>, seen))
    BY <1>1, <1>2, NoOutput
  <2> QED
    BY <1>1, <1>5, <2>1, <2>2, SoundOutput
<1>6. Sound(call, args, Err("BadFileDescriptor"))
  BY <1>5, FS_EmptySet, PagePositive DEF Err
<1>7. ASSUME ends = {} PROVE Sound(call, args, Saw(Ok(0), Entries(a, max)))
  <2> DEFINE seen == Entries(a, max)
  <2>1. IsFiniteSet(seen) /\ Cardinality(seen) <= PAGE_SIZE
    BY <1>4, EntriesSize
  <2> HIDE DEF seen
  <2>2. Saw(Ok(0), seen) = Outcome("none", 0, memory, <<>>, seen)
    BY DEF Saw, Ok, Outcome
  <2>3. Sound(call, args, Saw(Ok(0), seen))
    BY <1>5, <2>1, <2>2
  <2> QED
    BY <2>3 DEF seen
<1>8. ASSUME ends # {}
      PROVE  /\ first \in Nat /\ first + 1 <= max /\ first \in 0..(n - 1)
             /\ \A i \in 0..(first - 1) : vec[i].len = 0
  <2>1. ends \in SUBSET Nat
    OBVIOUS
  <2>2. \E i \in ends : \A j \in ends : i <= j
    BY <1>8, <2>1, Least
  <2>3. first \in ends /\ \A j \in ends : first <= j
    <3> HIDE DEF ends
    <3> QED
      BY <2>2
  <2> HIDE DEF first
  <2>4. first \in Nat /\ first + 1 <= max /\ first \in 0..(n - 1)
    BY <2>3, <1>4
  <2>5. ASSUME NEW i \in 0..(first - 1) PROVE vec[i].len = 0
    <3>1. i \in 0..(max - 1) /\ i \in 0..(n - 1) /\ ~(first <= i)
      BY <2>4, <1>4
    <3>2. i \notin ends
      <4> HIDE DEF ends
      <4> QED
        BY <2>3, <3>1
    <3>3. ~(vec[i].len > 0) /\ vec[i].len \in Nat
      BY <3>1, <3>2 DEF IoVec
    <3> QED
      BY <3>3
  <2> QED
    BY <2>4, <2>5
<1> HIDE DEF first, ends
<1>9. ASSUME ends # {} PROVE Sound(call, args, Saw(Err("Fault"), Entries(a, first) \cup base))
  <2> DEFINE seen == Entries(a, first) \cup base
             E == Entries(a, first + 1)
  <2>1. first \in Nat /\ first + 1 \in Nat /\ first + 1 <= q
    BY <1>4, <1>8, <1>9
  <2>2. IsFiniteSet(E) /\ Cardinality(E) <= PAGE_SIZE
    BY <2>1, EntriesSize
  <2>3. seen \subseteq E
    <3>1. first \in 0..(first + 1 - 1) /\ 0..(first - 1) \subseteq 0..(first + 1 - 1)
      BY <2>1
    <3> HIDE DEF q
    <3> QED
      BY <3>1 DEF Entries
  <2> HIDE DEF seen, E
  <2>4. IsFiniteSet(seen) /\ Cardinality(seen) <= PAGE_SIZE
    <3>1. IsFiniteSet(seen) /\ Cardinality(seen) <= Cardinality(E)
      BY <2>2, <2>3, FS_Subset
    <3>2. Cardinality(seen) \in Nat /\ Cardinality(E) \in Nat
      BY <2>2, <3>1, FS_CardinalityType
    <3> QED
      BY <2>2, <3>1, <3>2, Sizes
  <2>5. Saw(Err("Fault"), seen) = Outcome("Fault", 0, memory, <<>>, seen)
    BY DEF Saw, Err, Outcome
  <2>6. Sound(call, args, Saw(Err("Fault"), seen))
    BY <1>5, <2>4, <2>5
  <2> QED
    BY <2>6 DEF seen
<1>10. ASSUME ends # {}
       PROVE  Sound(call, args, Saw(write_to_fd(vec[first].base, vec[first].len), Entries(a, first + 1)))
  <2> DEFINE b == vec[first].base
             l == vec[first].len
             E == Entries(a, first + 1)
             o == write_to_fd(b, l)
  <2>1. /\ first \in Nat /\ first + 1 \in Nat /\ first + 1 <= q /\ first \in 0..(n - 1)
        /\ \A i \in 0..(first - 1) : vec[i].len = 0
    BY <1>4, <1>8, <1>10
  <2>2. b \in Nat /\ l \in Nat
    BY <2>1 DEF IoVec
  <2>3. IsFiniteSet(E) /\ Cardinality(E) <= PAGE_SIZE
    BY <2>1, EntriesSize
  <2>4. WriteAnswer(o, b, l)
    BY <2>2, WriteToFdIs
  <2>5. \A k \in Nat : k <= l => IsPrefix(LocationsFrom(b, k), Gathered(vec))
    BY <2>1, GatheredPrefix
  <2> HIDE DEF E, o, b, l
  <2>6. CASE o = Outcome("Fault", 0, memory, <<>>, {})
    <3>1. Saw(o, E) = Outcome("Fault", 0, memory, <<>>, E)
      BY <2>6 DEF Saw, Outcome
    <3> QED
      BY <1>5, <2>3, <3>1 DEF o, E, b, l
  <2>7. ASSUME NEW k \in Nat, k <= l, k <= PAGE_SIZE,
               o = Outcome("none", k, memory, LocationsFrom(b, k), Bytes(b, k))
        PROVE  Sound(call, args, Saw(o, E))
    <3> DEFINE out == LocationsFrom(b, k)
               B == Bytes(b, k)
               seen == B \cup E
               r == Outcome("none", k, memory, out, seen)
    <3>1. IsFiniteSet(B) /\ Cardinality(B) = k
      BY <2>2, BytesSize
    <3>2. Len(out) = k
      BY <2>2, LocationsAre
    <3>3. IsPrefix(out, Gathered(vec))
      BY <2>5, <2>7
    <3>4. o = Outcome("none", k, memory, out, B)
      BY <2>7
    <3> HIDE DEF B, out
    <3>5. Saw(o, E) = r
      BY <3>4 DEF Saw, Outcome
    <3>6. IsFiniteSet(seen) /\ Cardinality(seen) <= Limit(call)
      <4>1. /\ IsFiniteSet(seen) /\ Cardinality(seen) \in Nat /\ Cardinality(B \cap E) \in Nat
            /\ Cardinality(E) \in Nat
            /\ Cardinality(seen) = Cardinality(B) + Cardinality(E) - Cardinality(B \cap E)
        BY <2>3, <3>1, FS_Union, FS_CardinalityType, FS_Intersection
      <4> HIDE DEF seen
      <4> QED
        BY <1>1, <2>3, <2>7, <3>1, <4>1, Sizes
    <3> HIDE DEF seen
    <3>7. r.err = "none" /\ r.val = k /\ r.out = out
      BY OutcomeIs
    <3>8. Outputs(call, args, r)
      BY <1>1, <3>2, <3>3, <3>7 DEF Outputs
    <3>9. Sound(call, args, r)
      BY <1>1, <3>6, <3>8, SoundOutput
    <3> QED
      BY <3>5, <3>9
  <2>8. Sound(call, args, Saw(o, E))
    BY <2>4, <2>6, <2>7 DEF WriteAnswer, o, E, b, l
  <2> QED
    BY <2>8 DEF o, E, b, l
<1> HIDE DEF base
<1>11. Sound(call, args, handle_writev(fd, a, vec))
  BY <1>3, <1>6, <1>7, <1>9, <1>10
<1> QED
  BY <1>11 DEF call, args

-----------------------------------------------------------------------------
(* The steps *)

LEMMA InitCallsInv == CallsInit => CallsInv
<1> SUFFICES ASSUME CallsInit PROVE CallsInv
  OBVIOUS
<1>1. memory \in Memories
  BY CallsAssumption DEF CallsInit
<1>2. done.call = "none" /\ done.seen = {}
  BY DEF CallsInit, Running
<1>3. FootprintBounded
  BY <1>2, FS_EmptySet, PagePositive DEF FootprintBounded
<1>4. OutputIsPrefix
  BY <1>2 DEF OutputIsPrefix
<1> QED
  BY <1>1, <1>3, <1>4 DEF CallsInv

LEMMA NoArgumentSound == ASSUME CallsInv, NoArgument PROVE CallsInv' /\ Confined
<1>1. memory \in Memories
  BY DEF CallsInv
<1>2. \E call : /\ call \notin {"write", "writev"}
                /\ \E err, val : Answer(call, <<>>, Outcome(err, val, memory, <<>>, {}))
  BY DEF NoArgument, Call, Denied, Ok, Err
<1> QED
  BY <1>1, <1>2, QuietSound, AnswerSound

LEMMA OneArgumentSound ==
  ASSUME CallsInv, NEW a0 \in Args, OneArgument(a0) PROVE CallsInv' /\ Confined
<1>1. memory \in Memories /\ a0 \in Nat
  BY Sizes DEF CallsInv
<1>2. CASE Exit(a0)
  <2>1. Answer("exit", <<a0>>, Ok(a0))
    BY <1>2 DEF Exit
  <2>2. Sound("exit", <<a0>>, Ok(a0))
    BY <1>1, QuietSound DEF Ok
  <2> QED
    BY <1>1, <2>1, <2>2, AnswerSound
<1>3. CASE SetTidAddress(a0)
  <2>1. Answer("set_tid_address", <<a0>>, Ok(MAIN_THREAD_ID))
    BY <1>3 DEF SetTidAddress
  <2>2. Sound("set_tid_address", <<a0>>, Ok(MAIN_THREAD_ID))
    BY <1>1, QuietSound DEF Ok
  <2> QED
    BY <1>1, <2>1, <2>2, AnswerSound
<1>4. CASE Call("clock_gettime", <<a0>>, handle_clock_gettime(a0))
  BY <1>1, <1>4, ClockSound, AnswerSound DEF Call
<1> QED
  BY <1>2, <1>3, <1>4 DEF OneArgument

LEMMA TkillSound ==
  ASSUME CallsInv, NEW a0, NEW a1, Tkill(a0, a1) PROVE CallsInv' /\ Confined
<1>1. memory \in Memories
  BY DEF CallsInv
<1>2. \E err, val : Answer("tkill", <<a0, a1>>, Outcome(err, val, memory, <<>>, {}))
  BY DEF Tkill, Call, Ok, Err
<1> QED
  BY <1>1, <1>2, QuietSound, AnswerSound

LEMMA TwoArgumentsSound ==
  ASSUME CallsInv, NEW a0 \in Args, NEW a1 \in Args, TwoArguments(a0, a1)
  PROVE  CallsInv' /\ Confined
<1>1. memory \in Memories
  BY DEF CallsInv
<1>2. a0 \in 0..(U64 - 1) /\ a0 \in Nat /\ a1 \in Nat
  BY Sizes
<1>3. ASSUME NEW call, NEW o, Call(call, <<a0, a1>>, o), Sound(call, <<a0, a1>>, o)
      PROVE  CallsInv' /\ Confined
  BY <1>1, <1>3, AnswerSound DEF Call
<1>4. Sound("getcwd", <<a0, a1>>, handle_getcwd(a0, a1))
  BY <1>1, <1>2, GetcwdSound
<1>5. Sound("getrandom", <<a0, a1>>, handle_getrandom(a0, a1))
  BY <1>1, <1>2, GetrandomSound
<1>6. \A fds : Sound("ppoll", <<a0, a1>>, handle_ppoll(a0, a1, fds))
  BY <1>1, <1>2, PpollSound
<1>7. Sound("set_robust_list", <<a0, a1>>, handle_set_robust_list(a1))
  BY <1>1, QuietSound DEF handle_set_robust_list, Ok, Err
<1>8. Sound("sigaltstack", <<a0, a1>>, handle_sigaltstack(a1))
  BY <1>1, <1>2, SigaltstackSound
<1>9. Sound("rt_sigaction", <<a0, a1>>, handle_rt_sigaction(a0, a1))
  BY <1>1, <1>2, SigactionSound
<1>10. Sound("rt_sigprocmask", <<a0, a1>>, handle_rt_sigprocmask(a0, a1))
  BY <1>1, <1>2, SigprocmaskSound
<1>11. Sound("gettimeofday", <<a0, a1>>, handle_gettimeofday(a0, a1))
  BY <1>1, <1>2, GettimeofdaySound
<1> DEFINE C(call, o) == Call(call, <<a0, a1>>, o)
<1>12. \/ C("getcwd", handle_getcwd(a0, a1))
       \/ C("getrandom", handle_getrandom(a0, a1))
       \/ \E fds : C("ppoll", handle_ppoll(a0, a1, fds))
       \/ Tkill(a0, a1)
       \/ C("set_robust_list", handle_set_robust_list(a1))
       \/ C("sigaltstack", handle_sigaltstack(a1))
       \/ C("rt_sigaction", handle_rt_sigaction(a0, a1))
       \/ C("rt_sigprocmask", handle_rt_sigprocmask(a0, a1))
       \/ C("gettimeofday", handle_gettimeofday(a0, a1))
  BY DEF TwoArguments
<1>13. Tkill(a0, a1) => CallsInv' /\ Confined
  BY TkillSound
<1> QED
  BY <1>3, <1>4, <1>5, <1>6, <1>7, <1>8, <1>9, <1>10, <1>11, <1>12, <1>13

LEMMA ThreeArgumentsSound ==
  ASSUME CallsInv, NEW a0 \in Args, NEW a1 \in Args, NEW a2 \in Args, ThreeArguments(a0, a1, a2)
  PROVE  CallsInv' /\ Confined
<1>1. memory \in Memories
  BY DEF CallsInv
<1>2. a1 \in Nat /\ a2 \in Nat /\ a2 \in 0..(U64 - 1)
  BY Sizes
<1>3. ASSUME NEW call, NEW args, NEW o, Call(call, args, o), Sound(call, args, o)
      PROVE  CallsInv' /\ Confined
  BY <1>1, <1>3, AnswerSound DEF Call
<1>4. Sound("read", <<a0, a1, a2>>, handle_read(a0))
  BY <1>1, QuietSound DEF handle_read, Ok, Err
<1>5. Sound("write", <<a0, a1, a2>>, handle_write(a0, a1, a2))
  BY <1>1, <1>2, HandleWriteSound
<1>6. ASSUME NEW vec \in IoVecs(a1, a2)
      PROVE  Sound("writev", <<a0, a1, vec>>, handle_writev(a0, a1, vec))
  <2>1. vec \in [0..(a2 - 1) -> [base : NonZero \cup {0}, len : NonZero \cup {0}]]
    BY DEF IoVecs
  <2>2. IoVec(vec, a2)
    <3> DEFINE N == NonZero \cup {0}
    <3>1. N \subseteq Nat
      BY Sizes
    <3> HIDE DEF N
    <3>2. vec \in [0..(a2 - 1) -> [base : N, len : N]]
      BY <2>1 DEF N
    <3> QED
      BY <3>1, <3>2 DEF IoVec
  <2> QED
    BY <1>1, <1>2, <2>2, WritevSound
<1>7. Sound("sched_getaffinity", <<a0, a1, a2>>, handle_sched_getaffinity(a0, a1, a2))
  BY <1>1, <1>2, AffinitySound
<1>8. \/ Call("read", <<a0, a1, a2>>, handle_read(a0))
      \/ Call("write", <<a0, a1, a2>>, handle_write(a0, a1, a2))
      \/ \E vec \in IoVecs(a1, a2) : Call("writev", <<a0, a1, vec>>, handle_writev(a0, a1, vec))
      \/ Call("sched_getaffinity", <<a0, a1, a2>>, handle_sched_getaffinity(a0, a1, a2))
  BY DEF ThreeArguments
<1> QED
  BY <1>3, <1>4, <1>5, <1>6, <1>7, <1>8

LEMMA RunsOnSound == ASSUME RunsOn PROVE CallsInv' /\ Confined
<1>1. memory' \in Memories
  BY CallsAssumption DEF RunsOn
<1>2. done' = Running /\ done'.call = "none" /\ done'.seen = {}
  BY DEF RunsOn, Running
<1>3. FootprintBounded'
  BY <1>2, FS_EmptySet, PagePositive DEF FootprintBounded
<1>4. OutputIsPrefix'
  BY <1>2 DEF OutputIsPrefix
<1>5. CallsInv'
  BY <1>1, <1>3, <1>4 DEF CallsInv
<1>6. Confined
  BY <1>2 DEF Confined
<1> QED
  BY <1>5, <1>6

LEMMA StillCallsInv == ASSUME CallsInv, UNCHANGED calls_vars PROVE CallsInv'
<1>1. memory' = memory /\ done' = done
  BY DEF calls_vars
<1> QED
  BY <1>1 DEF CallsInv, OutputIsPrefix, FootprintBounded, Asked

LEMMA NextCalls == ASSUME CallsInv, CallsNext PROVE CallsInv' /\ Confined
<1>1. CASE RunsOn
  BY <1>1, RunsOnSound
<1>2. CASE NoArgument
  BY <1>2, NoArgumentSound
<1>3. ASSUME NEW a0 \in Args, OneArgument(a0) PROVE CallsInv' /\ Confined
  BY <1>3, OneArgumentSound
<1>4. ASSUME NEW a0 \in Args, NEW a1 \in Args, TwoArguments(a0, a1) PROVE CallsInv' /\ Confined
  BY <1>4, TwoArgumentsSound
<1>5. ASSUME NEW a0 \in Args, NEW a1 \in Args, NEW a2 \in Args, ThreeArguments(a0, a1, a2)
      PROVE  CallsInv' /\ Confined
  BY <1>5, ThreeArgumentsSound
<1> QED
  BY <1>1, <1>2, <1>3, <1>4, <1>5 DEF CallsNext, SystemCall

LEMMA CallsAlways == CallsSpec => []CallsInv
<1>1. CallsInit => CallsInv
  BY InitCallsInv
<1>2. CallsInv /\ [CallsNext]_calls_vars => CallsInv'
  BY NextCalls, StillCallsInv
<1> QED
  BY <1>1, <1>2, PTL DEF CallsSpec

\* For every memory and all arguments, write and writev output a beginning of
\* the data they were given and answer its length (write_to_fd, handle_writev)
THEOREM OutputIsAPrefix == CallsSpec => []OutputIsPrefix
<1>1. CallsInv => OutputIsPrefix
  BY DEF CallsInv, OutputIsPrefix
<1> QED
  BY <1>1, CallsAlways, PTL

\* For every memory and all arguments, a call reads and writes at most a page
\* of memory, and writev at most a page of entries more (linux/fds.rs)
THEOREM FootprintIsBounded == CallsSpec => []FootprintBounded
<1>1. CallsInv => FootprintBounded
  BY DEF CallsInv, FootprintBounded
<1> QED
  BY <1>1, CallsAlways, PTL

\* For every memory and all arguments, a call changes memory only inside the
\* buffer it was given and where the process may write, keeps permissions, and
\* if it fails changes nothing, unless it answers piece by piece (linux.rs)
THEOREM CallsAreConfined == CallsSpec => CallsConfined
<1>1. CallsInv /\ [CallsNext]_calls_vars => [Confined]_(calls_vars)
  BY NextCalls
<1> QED
  BY <1>1, CallsAlways, PTL DEF CallsSpec, CallsConfined, Confined
=============================================================================
