----------------------------- MODULE RepoProofs -----------------------------
(***************************************************************************)
(* Proofs about the repository for states, chunks and histories of any     *)
(* length: what a commit wrote is there, is never damaged, is exported as  *)
(* it is and is read back in order, whatever fails in between.             *)
(***************************************************************************)
EXTENDS Repo, SequenceTheorems, WellFoundedInduction, TLAPS

-----------------------------------------------------------------------------
(* The inductive invariant *)

Data == Seq(BYTES)
ChunkFiles == [kind : {"chunk"}, of : Data]
CommitFiles == [kind : {"commit"}, of : Seq(Data)]
FileNames == ChunkFiles \cup CommitFiles

StoreJobs == [op : {"store"}, state : States, writing : BOOLEAN, todo : Seq(FileNames)]
SerialiseJobs ==
    [op : {"serialise"}, state : States, rest : Data, buffer : Data, hashes : Seq(Data),
     writing : BOOLEAN, todo : Seq(FileNames)]
ExportJobs == [op : {"export"}, id : CommitFiles, copying : BOOLEAN, todo : Seq(FileNames)]
ReadJobs == [op : {"read"}, id : CommitFiles, hashes : Seq(Data), buffer : Data, out : Data]
EndJobs == [op : {"end"}, id : CommitFiles, out : Data]

Jobs == {Idle} \cup StoreJobs \cup SerialiseJobs \cup ExportJobs \cup ReadJobs \cup EndJobs

(* No file is longer than what it is meant to hold, and none in a snapshot *)
(* longer than the file it is a copy of.                                   *)
FilesType ==
    /\ DOMAIN disk \subseteq FileNames
    /\ \A f \in DOMAIN disk : disk[f] \in 0..Size(f)
    /\ DOMAIN snap \subseteq DOMAIN disk
    /\ \A f \in DOMAIN snap : snap[f] \in 0..disk[f]
    /\ returned \subseteq [state : States, id : CommitFiles]

(* The files of a state in the order they are stored: its chunks, then the *)
(* commit.                                                                 *)
Count(s) == Len(Chunks(s)) + 1
FileOf(s, i) == IF i < Count(s) THEN ChunkFile(Chunks(s)[i]) ELSE Id(s)

(* What is left to do are the last files of s. *)
LastFiles(todo, s) ==
    /\ Len(todo) \in 1..Count(s)
    /\ \A j \in 1..Len(todo) : todo[j] = FileOf(s, Count(s) - Len(todo) + j)

FirstFiles(todo, s) == {FileOf(s, i) : i \in 1..(Count(s) - Len(todo))}

ChunksOf(commit) == {ChunkFile(commit.of[i]) : i \in 1..Len(commit.of)}

(* A commit in the repository has all its chunks. *)
DiskInv == \A c \in DOMAIN disk \cap CommitFiles : ChunksOf(c) \subseteq DOMAIN disk

ReturnedInv == \A r \in returned : r.id = Id(r.state) /\ r.id \in DOMAIN disk

(* A file that is being written was not there before: it is not part of an *)
(* earlier commit or of a snapshot.                                        *)
WritingInv ==
    Storing /\ job.writing =>
        /\ Head(job.todo) \in DOMAIN disk
        /\ Head(job.todo) \notin DOMAIN snap
        /\ \A c \in DOMAIN disk \cap CommitFiles : Head(job.todo) \notin ChunksOf(c)

StoreInv ==
    job.op = "store" =>
        /\ LastFiles(job.todo, job.state)
        /\ FirstFiles(job.todo, job.state) \subseteq DOMAIN disk

(* The ChunkWriter has the first chunks of the state, and in its buffer    *)
(* the beginning of the next one.                                          *)
Taken(j) == Len(j.state) - Len(j.rest)

SerialiseInv ==
    job.op = "serialise" =>
        LET k == Len(job.hashes)
        IN  /\ k < Count(job.state)
            /\ \A i \in 1..k : job.hashes[i] = Chunks(job.state)[i]
            /\ Len(job.rest) <= Len(job.state)
            /\ job.rest = SubSeq(job.state, Taken(job) + 1, Len(job.state))
            /\ \/ /\ k = Len(Chunks(job.state)) /\ job.buffer = << >> /\ job.rest = << >>
               \/ /\ k * CHUNK_SIZE <= Taken(job)
                  /\ Taken(job) < (k + 1) * CHUNK_SIZE
                  /\ job.buffer = SubSeq(job.state, k * CHUNK_SIZE + 1, Taken(job))
            /\ \/ job.todo = << >> /\ ~job.writing
               \/ k > 0 /\ job.todo = <<ChunkFile(job.hashes[k])>>
            /\ \A i \in 1..k : \/ ChunkFile(job.hashes[i]) \in DOMAIN disk
                               \/ i = k /\ job.todo # << >>

(* A snapshot with a commit has its chunks, as they are in the repository. *)
SnapInv ==
    \A c \in DOMAIN snap \cap CommitFiles :
        \A f \in ChunksOf(c) : f \in DOMAIN snap /\ snap[f] = disk[f]

ExportInv ==
    job.op = "export" =>
        \E s \in States :
            /\ job.id = Id(s)
            /\ LastFiles(job.todo, s)
            /\ \A f \in FirstFiles(job.todo, s) :
                  /\ f \in DOMAIN snap
                  /\ snap[f] = disk[f] \/ (job.copying /\ f = Head(job.todo))
            /\ job.copying => Head(job.todo) \in DOMAIN snap
            /\ DOMAIN snap \cap CommitFiles # {} => Len(job.todo) = 1

(* The bytes of the first k chunks. *)
UpTo(s, k) == IF k * CHUNK_SIZE < Len(s) THEN k * CHUNK_SIZE ELSE Len(s)
FirstChunks(s, k) == SubSeq(s, 1, UpTo(s, k))

ReadInv ==
    job.op = "read" =>
        \E s \in States :
            LET k == Len(Chunks(s)) - Len(job.hashes)
            IN  /\ job.id = Id(s) /\ Id(s) \in DOMAIN disk /\ disk[Id(s)] = Size(Id(s))
                /\ k \in Nat
                /\ \A j \in 1..Len(job.hashes) : job.hashes[j] = Chunks(s)[k + j]
                /\ ~Short(job.id) => job.out \o job.buffer = FirstChunks(s, k)

EndInv ==
    job.op = "end" =>
        \E s \in States :
            /\ job.id = Id(s) /\ Id(s) \in DOMAIN disk /\ disk[Id(s)] = Size(Id(s))
            /\ ~Short(job.id) => job.out = s

FilesInv == FilesType /\ DiskInv /\ ReturnedInv /\ SnapInv

JobInv ==
    /\ job \in Jobs
    /\ WritingInv
    /\ StoreInv /\ SerialiseInv /\ ExportInv
    /\ ReadInv /\ EndInv

RepoInv == FilesInv /\ JobInv

-----------------------------------------------------------------------------
(* Chunks *)

(* Arithmetic of multiples, of any size. *)
LEMMA Multiples ==
    ASSUME NEW c \in Nat \ {0}, NEW a \in Int, NEW b \in Int
    PROVE  /\ a * c \in Int
           /\ (a + 1) * c = a * c + c
           /\ (a - 1) * c = a * c - c
           /\ a <= b <=> a * c <= b * c
           /\ a < b <=> a * c < b * c
OBVIOUS

LEMMA CeilDivision ==
    ASSUME NEW l \in Nat, NEW c \in Nat \ {0}
    PROVE  LET n == (l + c - 1) \div c
           IN  n \in Nat /\ l <= n * c /\ n * c < l + c
OBVIOUS

(* There is a k-th chunk if its first byte is there. *)
LEMMA ChunkCount ==
    ASSUME NEW s \in Data
    PROVE  /\ Len(Chunks(s)) \in Nat
           /\ \A k \in Nat : k < Len(Chunks(s)) <=> k * CHUNK_SIZE < Len(s)
<1> DEFINE n == (Len(s) + CHUNK_SIZE - 1) \div CHUNK_SIZE
<1>1. CHUNK_SIZE \in Nat \ {0} /\ Len(s) \in Nat
  BY RepoAssumption, LenProperties DEF Data
<1>2. n \in Nat /\ Len(s) <= n * CHUNK_SIZE /\ n * CHUNK_SIZE < Len(s) + CHUNK_SIZE
  BY <1>1, CeilDivision
<1>3. Len(Chunks(s)) = n
  BY <1>2 DEF Chunks
<1> HIDE DEF n
<1>4. ASSUME NEW k \in Nat
      PROVE  k < n <=> k * CHUNK_SIZE < Len(s)
  <2>1. /\ k * CHUNK_SIZE \in Int /\ n * CHUNK_SIZE \in Int
        /\ (n - 1) * CHUNK_SIZE = n * CHUNK_SIZE - CHUNK_SIZE
        /\ k < n <=> k * CHUNK_SIZE < n * CHUNK_SIZE
        /\ k <= n - 1 <=> k * CHUNK_SIZE <= (n - 1) * CHUNK_SIZE
    BY <1>1, <1>2, Multiples
  <2>2. CASE k < n
    <3>1. k <= n - 1
      BY <2>2, <1>2
    <3> QED BY <3>1, <2>1, <2>2, <1>1, <1>2
  <2>3. CASE ~(k < n)
    BY <2>1, <2>3, <1>1, <1>2
  <2> QED BY <2>2, <2>3
<1> QED BY <1>2, <1>3, <1>4

(* The chunks cover the state in order, and none is empty. *)
LEMMA ChunkIs ==
    ASSUME NEW s \in Data, NEW i \in 1..Len(Chunks(s))
    PROVE  /\ Chunks(s)[i] = SubSeq(s, (i - 1) * CHUNK_SIZE + 1, UpTo(s, i))
           /\ (i - 1) * CHUNK_SIZE \in Nat
           /\ (i - 1) * CHUNK_SIZE < UpTo(s, i)
           /\ UpTo(s, i) \in 0..Len(s)
           /\ UpTo(s, i - 1) = (i - 1) * CHUNK_SIZE
           /\ Chunks(s)[i] \in Data
           /\ Len(Chunks(s)[i]) = UpTo(s, i) - (i - 1) * CHUNK_SIZE
           /\ Len(Chunks(s)[i]) \in 1..CHUNK_SIZE
<1> DEFINE n == (Len(s) + CHUNK_SIZE - 1) \div CHUNK_SIZE
           a == (i - 1) * CHUNK_SIZE
           b == UpTo(s, i)
<1>1. CHUNK_SIZE \in Nat \ {0} /\ Len(s) \in Nat
  BY RepoAssumption, LenProperties DEF Data
<1>2. n \in Nat
  BY <1>1, CeilDivision
<1>3. Len(Chunks(s)) = n
  BY <1>2 DEF Chunks
<1>4. i \in 1..n
  BY <1>3
<1>5. Chunks(s)[i] = SubSeq(s, a + 1, b)
  <2> HIDE DEF n
  <2>1. Chunks(s)[i] = SubSeq(s, (i - 1) * CHUNK_SIZE + 1,
                              IF i * CHUNK_SIZE < Len(s) THEN i * CHUNK_SIZE ELSE Len(s))
    BY <1>4 DEF Chunks, n
  <2> QED BY <2>1 DEF UpTo
<1> HIDE DEF n
<1>6. i - 1 \in Nat /\ i - 1 < Len(Chunks(s)) /\ i \in Nat
  BY <1>2, <1>3, <1>4
<1>7. a < Len(s)
  BY <1>6, ChunkCount
<1>8. a \in Int /\ i * CHUNK_SIZE \in Int /\ i * CHUNK_SIZE = a + CHUNK_SIZE /\ a >= 0
  <2>1. /\ (i - 1) * CHUNK_SIZE \in Int /\ i * CHUNK_SIZE \in Int
        /\ (i - 1) * CHUNK_SIZE = i * CHUNK_SIZE - CHUNK_SIZE
    BY <1>1, <1>6, Multiples
  <2>2. 0 <= i - 1 <=> 0 * CHUNK_SIZE <= (i - 1) * CHUNK_SIZE
    BY <1>1, <1>6, Multiples
  <2> QED BY <2>1, <2>2, <1>1, <1>6
<1>9. a < b /\ b \in 0..Len(s) /\ b <= a + CHUNK_SIZE
  BY <1>1, <1>7, <1>8 DEF UpTo
<1>10. UpTo(s, i - 1) = a
  BY <1>7 DEF UpTo
<1>11. \A j \in (a + 1)..b : s[j] \in BYTES
  <2> HIDE DEF a, b
  <2>1. \A j \in (a + 1)..b : j \in 1..Len(s)
    BY <1>1, <1>8, <1>9
  <2> QED BY <2>1, ElementOfSeq DEF Data
<1> HIDE DEF a, b
<1>12. Chunks(s)[i] \in Data /\ Len(Chunks(s)[i]) = b - a
  <2>1. /\ SubSeq(s, a + 1, b) \in Seq(BYTES)
        /\ Len(SubSeq(s, a + 1, b)) = IF a + 1 <= b THEN b - (a + 1) + 1 ELSE 0
    BY <1>1, <1>8, <1>9, <1>11, SubSeqProperties
  <2> QED BY <2>1, <1>1, <1>5, <1>8, <1>9 DEF Data
<1> QED BY <1>1, <1>5, <1>8, <1>9, <1>10, <1>12 DEF a, b

LEMMA ChunksType ==
    ASSUME NEW s \in Data
    PROVE  Chunks(s) \in Seq(Data) /\ Len(Chunks(s)) \in Nat
<1> DEFINE n == (Len(s) + CHUNK_SIZE - 1) \div CHUNK_SIZE
           c == Chunks(s)
<1>1. n \in Nat
  BY RepoAssumption, LenProperties, CeilDivision DEF Data
<1>2. DOMAIN c = 1..n /\ Len(c) = n
  BY <1>1 DEF Chunks
<1>3. \A i \in 1..n : c[i] \in Data
  BY <1>2, ChunkIs
<1>4. c \in [1..n -> Data]
  <2> DEFINE e(i) == SubSeq(s, (i - 1) * CHUNK_SIZE + 1,
                            IF i * CHUNK_SIZE < Len(s) THEN i * CHUNK_SIZE ELSE Len(s))
  <2>1. c = [i \in 1..n |-> e(i)]
    BY DEF Chunks
  <2> HIDE DEF e, n, c
  <2>2. \A i \in 1..n : e(i) \in Data
    BY <2>1, <1>3
  <2> QED BY <2>1, <2>2
<1> HIDE DEF n, c
<1>5. c \in Seq(Data)
  BY <1>1, <1>4, SeqDef
<1> QED BY <1>1, <1>2, <1>5 DEF c

(* A non-empty set of numbers has a least one: induction over an index is  *)
(* done with the least index for which the claim fails.                    *)
LEMMA Least ==
    ASSUME NEW T \in SUBSET Nat, T # {}
    PROVE  \E x \in T : \A y \in T : x <= y
<1> DEFINE Less == {ss \in Nat \X Nat : ss[1] < ss[2]}
<1>1. IsWellFoundedOn(Less, Nat)
  BY NatLessThanWellFounded DEF OpToRel
<1>2. \A y, x \in Nat : <<y, x>> \in Less <=> y < x
  OBVIOUS
<1> HIDE DEF Less
<1>3. PICK x \in T : \A y \in T : ~(<<y, x>> \in Less)
  BY <1>1, WFMin
<1>4. \A y \in T : ~(y < x)
  BY <1>2, <1>3
<1> QED BY <1>4

(* The concatenation of the first sequences of c, step by step. *)
Joined(f, c) == [i \in 0..Len(c) |-> IF i = 0 THEN << >> ELSE f[i - 1] \o c[i]]

(* There is only one such function. *)
LEMMA ConcatenatedIs ==
    ASSUME NEW c, Len(c) \in Nat, NEW g, g = Joined(g, c)
    PROVE  Concatenated(c) = g[Len(c)]
<1> DEFINE f == CHOOSE h : h = Joined(h, c)
<1>1. Concatenated(c) = f[Len(c)]
  BY DEF Concatenated, Joined
<1>2. f = Joined(f, c)
  BY Zenon
<1> HIDE DEF f
<1> DEFINE T == {i \in 0..Len(c) : f[i] # g[i]}
<1>3. ASSUME T # {} PROVE FALSE
  <2>1. PICK i \in T : \A j \in T : i <= j
    <3>1. T \in SUBSET Nat
      OBVIOUS
    <3> QED BY <3>1, <1>3, Least
  <2>2. i \in 0..Len(c) /\ f[i] # g[i]
    BY <2>1
  <2>3. i # 0 => i - 1 \in 0..Len(c) /\ i - 1 \notin T
    BY <2>1, <2>2
  <2>4. i # 0 => f[i - 1] = g[i - 1]
    BY <2>3
  <2>5. f[i] = IF i = 0 THEN << >> ELSE f[i - 1] \o c[i]
    BY <1>2, <2>2 DEF Joined
  <2>6. g[i] = IF i = 0 THEN << >> ELSE g[i - 1] \o c[i]
    BY <2>2 DEF Joined
  <2> QED BY <2>2, <2>4, <2>5, <2>6
<1>4. Len(c) \notin T
  BY <1>3
<1> QED BY <1>1, <1>4

LEMMA FirstChunksStep ==
    ASSUME NEW s \in Data, NEW i \in 1..Len(Chunks(s))
    PROVE  /\ FirstChunks(s, i - 1) \in Data
           /\ FirstChunks(s, i - 1) \o Chunks(s)[i] = FirstChunks(s, i)
<1> DEFINE a == (i - 1) * CHUNK_SIZE
           b == UpTo(s, i)
<1>1. /\ Chunks(s)[i] = SubSeq(s, a + 1, b) /\ a \in Nat /\ a < b
      /\ b \in 0..Len(s) /\ UpTo(s, i - 1) = a
  BY ChunkIs
<1>2. FirstChunks(s, i - 1) = SubSeq(s, 1, a) /\ FirstChunks(s, i) = SubSeq(s, 1, b)
  BY <1>1 DEF FirstChunks
<1> HIDE DEF a, b
<1>3. Len(s) \in Nat /\ s \in Seq(BYTES)
  BY LenProperties DEF Data
<1>4. 1 \in 1..(Len(s) + 1) /\ a \in (1 - 1)..Len(s) /\ b \in a..Len(s)
  BY <1>1, <1>3
<1>5. SubSeq(s, 1, a) \o SubSeq(s, a + 1, b) = SubSeq(s, 1, b)
  BY <1>3, <1>4, ConcatAdjacentSubSeq
<1>6. SubSeq(s, 1, a) \in Seq(BYTES)
  <2>1. \A j \in 1..a : j \in 1..Len(s)
    BY <1>1, <1>3, <1>4
  <2>2. \A j \in 1..a : s[j] \in BYTES
    BY <2>1, <1>3, ElementOfSeq
  <2> QED BY <2>2, <1>1, SubSeqProperties
<1> QED BY <1>1, <1>2, <1>5, <1>6 DEF Data

LEMMA FirstChunksEnds ==
    ASSUME NEW s \in Data
    PROVE  FirstChunks(s, 0) = << >> /\ FirstChunks(s, Len(Chunks(s))) = s
<1>1. Len(s) \in Nat /\ s \in Seq(BYTES)
  BY LenProperties DEF Data
<1>2. UpTo(s, 0) = 0
  BY <1>1, RepoAssumption DEF UpTo
<1>3. UpTo(s, Len(Chunks(s))) = Len(s)
  BY ChunkCount DEF UpTo
<1>4. SubSeq(s, 1, 0) = << >>
  BY SubSeqEmpty
<1>5. SubSeq(s, 1, Len(s)) = s
  BY <1>1, SubSeqFull
<1> QED BY <1>2, <1>3, <1>4, <1>5 DEF FirstChunks

(* The chunks of a state, one after the other, are the state. *)
LEMMA ConcatenatedChunks ==
    ASSUME NEW s \in Data
    PROVE  Concatenated(Chunks(s)) = s
<1> DEFINE c == Chunks(s)
           g == [i \in 0..Len(c) |-> FirstChunks(s, i)]
<1>1. Len(c) \in Nat
  BY ChunksType
<1> HIDE DEF c
<1>2. \A i \in 0..Len(c) : g[i] = IF i = 0 THEN << >> ELSE g[i - 1] \o c[i]
  <2> TAKE i \in 0..Len(c)
  <2>1. CASE i = 0
    BY <2>1, FirstChunksEnds
  <2>2. CASE i # 0
    <3>1. i - 1 \in 0..Len(c) /\ i \in 1..Len(c)
      BY <1>1, <2>2
    <3>2. FirstChunks(s, i - 1) \o c[i] = FirstChunks(s, i)
      BY <3>1, FirstChunksStep DEF c
    <3> QED BY <2>2, <3>1, <3>2
  <2> QED BY <2>1, <2>2
<1>3. g = Joined(g, c)
  BY <1>2 DEF Joined
<1>4. Concatenated(c) = g[Len(c)]
  BY <1>1, <1>3, ConcatenatedIs
<1>5. g[Len(c)] = s
  BY <1>1, FirstChunksEnds DEF c
<1> QED BY <1>4, <1>5 DEF c

-----------------------------------------------------------------------------
(* Files, and what can be checked out *)

LEMMA KindsDiffer == \A c \in CommitFiles, f \in ChunkFiles : c # f
BY DEF CommitFiles, ChunkFiles

LEMMA StateFacts ==
    ASSUME NEW s \in States
    PROVE  /\ s \in Data /\ Chunks(s) \in Seq(Data) /\ Len(Chunks(s)) \in Nat
           /\ Id(s) \in CommitFiles /\ Id(s).of = Chunks(s)
           /\ Size(Id(s)) = Len(Chunks(s)) + 1
           /\ Count(s) \in Nat \ {0} /\ FileOf(s, Count(s)) = Id(s)
           /\ \A i \in 1..Len(Chunks(s)) :
                 /\ FileOf(s, i) = ChunkFile(Chunks(s)[i])
                 /\ FileOf(s, i) \in ChunkFiles
           /\ \A i \in 1..Count(s) : FileOf(s, i) \in FileNames
           /\ ChunksOf(Id(s)) = {FileOf(s, i) : i \in 1..Len(Chunks(s))}
<1>1. s \in Data /\ Chunks(s) \in Seq(Data) /\ Len(Chunks(s)) \in Nat
  BY RepoAssumption, ChunksType DEF Data
<1>2. Id(s) \in CommitFiles /\ Id(s).of = Chunks(s) /\ Id(s).kind = "commit"
  BY <1>1 DEF Id, CommitFile, CommitFiles
<1>3. Count(s) \in Nat \ {0} /\ FileOf(s, Count(s)) = Id(s)
  BY <1>1 DEF Count, FileOf
<1>4. ASSUME NEW i \in 1..Len(Chunks(s))
      PROVE  FileOf(s, i) = ChunkFile(Chunks(s)[i]) /\ FileOf(s, i) \in ChunkFiles
  <2>1. FileOf(s, i) = ChunkFile(Chunks(s)[i])
    BY <1>1 DEF FileOf, Count
  <2>2. Chunks(s)[i] \in Data
    BY <1>1, ChunkIs
  <2> QED BY <2>1, <2>2 DEF ChunkFile, ChunkFiles
<1>5. \A i \in 1..Count(s) : FileOf(s, i) \in FileNames
  <2> TAKE i \in 1..Count(s)
  <2>1. i \in 1..Len(Chunks(s)) \/ i = Count(s)
    BY <1>1 DEF Count
  <2> QED BY <2>1, <1>2, <1>3, <1>4 DEF FileNames
<1>6. ChunksOf(Id(s)) = {FileOf(s, i) : i \in 1..Len(Chunks(s))}
  BY <1>2, <1>4 DEF ChunksOf
<1>7. Size(Id(s)) = Len(Chunks(s)) + 1
  BY <1>2 DEF Size
<1> QED BY <1>1, <1>2, <1>3, <1>4, <1>5, <1>6, <1>7

(* checkout finds what it needs or says what is missing. *)
LEMMA CheckoutOfAll ==
    ASSUME NEW dir, NEW s \in States, Id(s) \in DOMAIN dir, dir[Id(s)] = Size(Id(s)),
           ChunksOf(Id(s)) \subseteq DOMAIN dir
    PROVE  Checkout(dir, Id(s)) =
             Outcome("Ok", Concatenated([i \in 1..Len(Chunks(s)) |-> Load(dir, Chunks(s)[i])]))
<1>1. \A i \in 1..Len(Chunks(s)) : Exists(dir, ChunkFile(Chunks(s)[i]))
  BY StateFacts DEF Exists
<1>2. ~(dir[Id(s)] < Size(Id(s)))
  BY StateFacts
<1> QED BY <1>1, <1>2, StateFacts DEF Checkout, Exists

(* With every file complete it gives the state. *)
LEMMA CheckoutComplete ==
    ASSUME NEW dir, NEW s \in States, Id(s) \in DOMAIN dir, dir[Id(s)] = Size(Id(s)),
           \A f \in ChunksOf(Id(s)) : f \in DOMAIN dir /\ dir[f] = Size(f)
    PROVE  Checkout(dir, Id(s)) = Outcome("Ok", s)
<1> DEFINE c == Chunks(s)
<1>1. s \in Data /\ c \in Seq(Data) /\ Len(c) \in Nat
  BY StateFacts
<1>2. ASSUME NEW i \in 1..Len(c)
      PROVE  Load(dir, c[i]) = c[i]
  <2>1. c[i] \in Data
    BY <1>1, ChunkIs
  <2>2. ChunkFile(c[i]) \in ChunksOf(Id(s))
    BY StateFacts
  <2>3. dir[ChunkFile(c[i])] = Len(c[i])
    BY <2>2 DEF Size, ChunkFile
  <2>4. SubSeq(c[i], 1, Len(c[i])) = c[i]
    BY <2>1, SubSeqFull DEF Data
  <2> QED BY <2>3, <2>4 DEF Load
<1>3. [i \in 1..Len(c) |-> Load(dir, c[i])] = c
  <2> HIDE DEF c
  <2>1. c \in [1..Len(c) -> Data]
    BY <1>1, LenProperties
  <2> QED BY <1>2, <2>1
<1>4. Concatenated(c) = s
  BY <1>1, ConcatenatedChunks
<1>5. ChunksOf(Id(s)) \subseteq DOMAIN dir
  OBVIOUS
<1> HIDE DEF c
<1>6. Checkout(dir, Id(s)) = Outcome("Ok", Concatenated([i \in 1..Len(c) |-> Load(dir, c[i])]))
  BY <1>5, CheckoutOfAll DEF c
<1> QED BY <1>3, <1>4, <1>6

(* It looks at nothing but the commit and its chunks. *)
LEMMA CheckoutSame ==
    ASSUME NEW dir, NEW dirr, NEW s \in States,
           Id(s) \in DOMAIN dir, dir[Id(s)] = Size(Id(s)),
           Id(s) \in DOMAIN dirr, dirr[Id(s)] = Size(Id(s)),
           \A f \in ChunksOf(Id(s)) : f \in DOMAIN dir /\ f \in DOMAIN dirr /\ dir[f] = dirr[f]
    PROVE  Checkout(dir, Id(s)) = Checkout(dirr, Id(s))
<1> DEFINE c == Chunks(s)
<1>1. ASSUME NEW i \in 1..Len(c)
      PROVE  Load(dir, c[i]) = Load(dirr, c[i])
  <2>1. ChunkFile(c[i]) \in ChunksOf(Id(s))
    BY StateFacts
  <2> QED BY <2>1 DEF Load
<1> HIDE DEF c
<1>2. [i \in 1..Len(c) |-> Load(dir, c[i])] = [i \in 1..Len(c) |-> Load(dirr, c[i])]
  BY <1>1
<1>3. ChunksOf(Id(s)) \subseteq DOMAIN dir /\ ChunksOf(Id(s)) \subseteq DOMAIN dirr
  OBVIOUS
<1>4. /\ Checkout(dir, Id(s))
           = Outcome("Ok", Concatenated([i \in 1..Len(c) |-> Load(dir, c[i])]))
      /\ Checkout(dirr, Id(s))
           = Outcome("Ok", Concatenated([i \in 1..Len(c) |-> Load(dirr, c[i])]))
  BY <1>3, CheckoutOfAll DEF c
<1> QED BY <1>2, <1>4

LEMMA Sizes == \A f \in FileNames : Size(f) \in Nat
<1> TAKE f \in FileNames
<1>1. CASE f \in ChunkFiles
  BY <1>1, LenProperties DEF ChunkFiles, Data, Size
<1>2. CASE f \in CommitFiles
  BY <1>2, LenProperties DEF CommitFiles, Size
<1> QED BY <1>1, <1>2 DEF FileNames

(* Files that are there are complete unless a failure left them short. *)
LEMMA NotShort ==
    ASSUME FilesType, NEW s \in States, ~Short(Id(s)),
           NEW f \in {Id(s)} \cup ChunksOf(Id(s)), f \in DOMAIN disk
    PROVE  disk[f] = Size(f)
<1>1. ~(disk[f] < Size(f))
  BY DEF Short, Exists, ChunksOf
<1>2. disk[f] \in 0..Size(f) /\ Size(f) \in Nat
  BY Sizes DEF FilesType
<1> QED BY <1>1, <1>2

-----------------------------------------------------------------------------
(* What the invariant says of the properties *)

LEMMA InvNoChunkMissing == FilesInv => NoChunkMissing
<1> SUFFICES ASSUME FilesInv, NEW s \in States
             PROVE  /\ Checkout(disk, Id(s)).result # "ChunkNotFound"
                    /\ Checkout(snap, Id(s)).result # "ChunkNotFound"
  BY DEF NoChunkMissing
<1>1. Id(s) \in DOMAIN disk => \A i \in 1..Len(Id(s).of) : Exists(disk, ChunkFile(Id(s).of[i]))
  BY StateFacts DEF FilesInv, DiskInv, ChunksOf, Exists
<1>2. Id(s) \in DOMAIN snap => \A i \in 1..Len(Id(s).of) : Exists(snap, ChunkFile(Id(s).of[i]))
  BY StateFacts DEF FilesInv, SnapInv, ChunksOf, Exists
<1> QED BY <1>1, <1>2 DEF Checkout, Outcome, Exists

LEMMA InvCommittedChecksOut == FilesInv => CommittedChecksOut
<1> SUFFICES ASSUME FilesInv, NEW r \in returned, ~Short(r.id)
             PROVE  Checkout(disk, r.id) = Outcome("Ok", r.state)
  BY DEF CommittedChecksOut
<1> DEFINE s == r.state
<1>1. s \in States /\ r.id = Id(s) /\ Id(s) \in DOMAIN disk
  BY DEF FilesInv, FilesType, ReturnedInv
<1> HIDE DEF s
<1>2. ~Short(Id(s)) /\ FilesType
  BY <1>1 DEF FilesInv
<1>3. disk[Id(s)] = Size(Id(s))
  BY <1>1, <1>2, NotShort
<1>4. \A f \in ChunksOf(Id(s)) : f \in DOMAIN disk
  BY <1>1, StateFacts DEF FilesInv, DiskInv
<1>5. \A f \in ChunksOf(Id(s)) : f \in DOMAIN disk /\ disk[f] = Size(f)
  BY <1>1, <1>2, <1>4, NotShort
<1>6. Checkout(disk, Id(s)) = Outcome("Ok", s)
  BY <1>1, <1>3, <1>5, CheckoutComplete
<1> QED BY <1>1, <1>6 DEF s

LEMMA InvReaderAgrees == RepoInv => ReaderAgrees
<1> SUFFICES ASSUME RepoInv, job.op = "end", ~Short(job.id)
             PROVE  Checkout(disk, job.id) = Outcome("Ok", job.out)
  BY DEF ReaderAgrees
<1>1. PICK s \in States : /\ job.id = Id(s) /\ Id(s) \in DOMAIN disk
                          /\ disk[Id(s)] = Size(Id(s)) /\ job.out = s
  BY DEF RepoInv, JobInv, EndInv
<1>2. ~Short(Id(s)) /\ FilesType
  BY <1>1 DEF RepoInv, FilesInv
<1>3. \A f \in ChunksOf(Id(s)) : f \in DOMAIN disk
  BY <1>1, StateFacts DEF RepoInv, FilesInv, DiskInv
<1>4. \A f \in ChunksOf(Id(s)) : f \in DOMAIN disk /\ disk[f] = Size(f)
  BY <1>2, <1>3, NotShort
<1>5. Checkout(disk, Id(s)) = Outcome("Ok", s)
  BY <1>1, <1>4, CheckoutComplete
<1> QED BY <1>1, <1>5

LEMMA InvSnapshotFaithful == FilesInv => SnapshotFaithful
<1> SUFFICES ASSUME FilesInv, NEW s \in States,
                    Id(s) \in DOMAIN snap, snap[Id(s)] = Size(Id(s))
             PROVE  Checkout(snap, Id(s)) = Checkout(disk, Id(s))
  BY DEF SnapshotFaithful, Exists
<1>1. Id(s) \in DOMAIN disk /\ snap[Id(s)] \in 0..disk[Id(s)] /\ disk[Id(s)] \in 0..Size(Id(s))
  BY DEF FilesInv, FilesType
<1>2. disk[Id(s)] = Size(Id(s))
  BY <1>1, StateFacts
<1>3. \A f \in ChunksOf(Id(s)) : f \in DOMAIN snap /\ snap[f] = disk[f]
  BY StateFacts DEF FilesInv, SnapInv
<1>4. \A f \in ChunksOf(Id(s)) : f \in DOMAIN snap /\ f \in DOMAIN disk /\ snap[f] = disk[f]
  BY <1>3 DEF FilesInv, FilesType
<1> QED BY <1>1, <1>2, <1>4, CheckoutSame

(* A step that changes no file of a commit does not change its checkout. *)
LEMMA InvCommitsStay ==
    ASSUME FilesInv, NEW s \in States, Checkout(disk, Id(s)) = Outcome("Ok", s),
           Id(s) \in DOMAIN disk => \A f \in {Id(s)} \cup ChunksOf(Id(s)) :
                                       f \in DOMAIN disk' /\ disk'[f] = disk[f]
    PROVE  Checkout(disk', Id(s)) = Outcome("Ok", s)
<1>1. Id(s) \in DOMAIN disk /\ ~(disk[Id(s)] < Size(Id(s)))
  BY DEF Checkout, Outcome, Exists
<1>2. disk[Id(s)] = Size(Id(s))
  BY <1>1, StateFacts DEF FilesInv, FilesType
<1>3. \A f \in ChunksOf(Id(s)) : f \in DOMAIN disk
  BY <1>1, StateFacts DEF FilesInv, DiskInv
<1>4. \A f \in ChunksOf(Id(s)) : f \in DOMAIN disk /\ f \in DOMAIN disk' /\ disk[f] = disk'[f]
  BY <1>1, <1>3
<1>5. Id(s) \in DOMAIN disk' /\ disk'[Id(s)] = Size(Id(s))
  BY <1>1, <1>2
<1>6. Checkout(disk, Id(s)) = Checkout(disk', Id(s))
  BY <1>1, <1>2, <1>4, <1>5, CheckoutSame
<1> QED BY <1>6

-----------------------------------------------------------------------------
(* The lists of files that are left to do *)

LEMMA AllFiles ==
    ASSUME NEW s \in States
    PROVE  LET todo == [i \in 1..Len(Chunks(s)) |-> ChunkFile(Chunks(s)[i])] \o <<Id(s)>>
           IN  todo \in Seq(FileNames) /\ LastFiles(todo, s) /\ FirstFiles(todo, s) = {}
<1> DEFINE n == Len(Chunks(s))
           front == [i \in 1..n |-> ChunkFile(Chunks(s)[i])]
           todo == front \o <<Id(s)>>
<1>1. n \in Nat /\ Count(s) = n + 1 /\ Id(s) \in FileNames
  BY StateFacts DEF Count, FileNames
<1>2. front \in [1..n -> FileNames]
  <2>1. \A i \in 1..n : ChunkFile(Chunks(s)[i]) \in FileNames
    BY StateFacts DEF FileNames
  <2> HIDE DEF n
  <2> QED BY <2>1
<1>3. front \in Seq(FileNames) /\ Len(front) = n
  <2> HIDE DEF n, front
  <2>1. front \in Seq(FileNames)
    BY <1>1, <1>2, SeqDef
  <2>2. DOMAIN front = 1..n /\ DOMAIN front = 1..Len(front) /\ Len(front) \in Nat
    BY <1>2, <2>1, LenProperties
  <2> QED BY <1>1, <2>1, <2>2
<1>4. <<Id(s)>> \in Seq(FileNames) /\ Len(<<Id(s)>>) = 1 /\ <<Id(s)>>[1] = Id(s)
  BY <1>1
<1> HIDE DEF front
<1>5. /\ todo \in Seq(FileNames) /\ Len(todo) = n + 1
      /\ \A i \in 1..(n + 1) : todo[i] = IF i <= n THEN front[i] ELSE <<Id(s)>>[i - n]
  BY <1>3, <1>4, ConcatProperties
<1>6. \A j \in 1..(n + 1) : todo[j] = FileOf(s, j)
  <2> TAKE j \in 1..(n + 1)
  <2>1. CASE j \in 1..n
    BY <2>1, <1>1, <1>5, StateFacts DEF front
  <2>2. CASE j = n + 1
    BY <2>2, <1>1, <1>4, <1>5, StateFacts
  <2>3. j \in 1..n \/ j = n + 1
    <3> HIDE DEF n
    <3> QED BY <1>1
  <2> QED BY <2>1, <2>2, <2>3
<1> HIDE DEF todo, n
<1>7. LastFiles(todo, s)
  BY <1>1, <1>5, <1>6 DEF LastFiles
<1>8. FirstFiles(todo, s) = {}
  BY <1>1, <1>5 DEF FirstFiles
<1> QED BY <1>5, <1>7, <1>8 DEF todo, front, n

LEMMA NextFile ==
    ASSUME NEW s \in States, NEW todo \in Seq(FileNames), LastFiles(todo, s)
    PROVE  /\ todo # << >> /\ Head(todo) = todo[1] /\ Head(todo) \in FileNames
           /\ Len(todo) \in 1..Count(s)
           /\ Len(todo) = 1 => Head(todo) = Id(s) /\ FirstFiles(todo, s) = ChunksOf(Id(s))
           /\ Len(todo) # 1 => /\ Head(todo) \in ChunkFiles
                               /\ Tail(todo) \in Seq(FileNames)
                               /\ LastFiles(Tail(todo), s)
                               /\ FirstFiles(Tail(todo), s)
                                    = FirstFiles(todo, s) \cup {Head(todo)}
                               /\ Len(Tail(todo)) = Len(todo) - 1
<1> DEFINE l == Len(todo)
           k == Count(s) - l
<1>1. Count(s) \in Nat \ {0} /\ l \in 1..Count(s) /\ k \in Nat /\ k + l = Count(s)
      /\ Count(s) = Len(Chunks(s)) + 1 /\ Len(Chunks(s)) \in Nat
  BY StateFacts DEF LastFiles, Count
<1>2. \A j \in 1..l : todo[j] = FileOf(s, k + j)
  BY DEF LastFiles
<1>3. todo # << >>
  BY <1>1, EmptySeq
<1>4. Head(todo) = todo[1] /\ Head(todo) = FileOf(s, k + 1)
  BY <1>1, <1>2, <1>3
<1>5. Head(todo) \in FileNames
  BY <1>1, <1>4, StateFacts
<1>6. ASSUME l = 1
      PROVE  Head(todo) = Id(s) /\ FirstFiles(todo, s) = ChunksOf(Id(s))
  BY <1>1, <1>4, <1>6, StateFacts DEF FirstFiles
<1>7. ASSUME l # 1
      PROVE  /\ Head(todo) \in ChunkFiles
             /\ Tail(todo) \in Seq(FileNames) /\ Len(Tail(todo)) = l - 1
             /\ LastFiles(Tail(todo), s)
             /\ FirstFiles(Tail(todo), s) = FirstFiles(todo, s) \cup {Head(todo)}
  <2>1. k + 1 \in 1..Len(Chunks(s))
    <3> HIDE DEF k, l
    <3> QED BY <1>1, <1>7
  <2>2. Head(todo) \in ChunkFiles
    BY <2>1, <1>4, StateFacts
  <2>3. /\ Tail(todo) \in Seq(FileNames) /\ Len(Tail(todo)) = l - 1
        /\ \A i \in 1..(l - 1) : Tail(todo)[i] = todo[i + 1]
    BY <1>3, HeadTailProperties
  <2> HIDE DEF k, l
  <2>4. \A j \in 1..(l - 1) : Tail(todo)[j] = FileOf(s, Count(s) - (l - 1) + j)
    <3> TAKE j \in 1..(l - 1)
    <3>1. j + 1 \in 1..l /\ k + (j + 1) = Count(s) - (l - 1) + j
      BY <1>1
    <3> QED BY <3>1, <2>3, <1>2
  <2>5. LastFiles(Tail(todo), s)
    BY <1>1, <1>7, <2>3, <2>4 DEF LastFiles
  <2>6. FirstFiles(Tail(todo), s) = {FileOf(s, i) : i \in 1..(k + 1)}
    BY <1>1, <2>3 DEF FirstFiles
  <2>7. FirstFiles(todo, s) = {FileOf(s, i) : i \in 1..k}
    BY DEF FirstFiles, k, l
  <2>8. \A i \in 1..(k + 1) : i \in 1..k \/ i = k + 1
    BY <1>1
  <2>9. \A i \in 1..k : i \in 1..(k + 1)
    BY <1>1
  <2>10. FirstFiles(Tail(todo), s) = FirstFiles(todo, s) \cup {Head(todo)}
    BY <1>1, <1>4, <2>6, <2>7, <2>8, <2>9
  <2> QED BY <2>2, <2>3, <2>5, <2>10
<1> QED BY <1>1, <1>3, <1>4, <1>5, <1>6, <1>7

-----------------------------------------------------------------------------
(* Every step keeps the invariant *)

LEMMA InitInv == Init => RepoInv
<1> SUFFICES ASSUME Init PROVE RepoInv
  OBVIOUS
<1>1. DOMAIN disk = {} /\ DOMAIN snap = {} /\ returned = {} /\ job = Idle
  BY DEF Init
<1>2. FilesInv
  BY <1>1 DEF FilesInv, FilesType, DiskInv, ReturnedInv, SnapInv
<1>3. JobInv
  BY <1>1 DEF JobInv, Jobs, Idle, WritingInv, Storing, StoreInv, SerialiseInv, ExportInv,
              ReadInv, EndInv
<1> QED BY <1>2, <1>3 DEF RepoInv

(* The record of an operation tells which it is. *)
LEMMA JobShapes ==
    ASSUME job \in Jobs
    PROVE  /\ job = Idle <=> job.op = "none"
           /\ job.op = "store" => job \in StoreJobs
           /\ job.op = "serialise" => job \in SerialiseJobs
           /\ job.op = "export" => job \in ExportJobs
           /\ job.op = "read" => job \in ReadJobs
           /\ job.op = "end" => job \in EndJobs
BY DEF Jobs, Idle, StoreJobs, SerialiseJobs, ExportJobs, ReadJobs, EndJobs

LEMMA SameFiles ==
    ASSUME FilesInv, UNCHANGED <<disk, snap, returned>>
    PROVE  FilesInv'
BY DEF FilesInv, FilesType, DiskInv, ReturnedInv, SnapInv

LEMMA IdleInv ==
    ASSUME job' = Idle
    PROVE  JobInv'
BY DEF JobInv, Jobs, Idle, WritingInv, Storing, StoreInv, SerialiseInv, ExportInv, ReadInv, EndInv

(* Only the invariant of the operation in progress says anything. *)
LEMMA JobInvCases ==
    /\ job' \in StoreJobs /\ WritingInv' /\ StoreInv' => JobInv'
    /\ job' \in SerialiseJobs /\ WritingInv' /\ SerialiseInv' => JobInv'
    /\ job' \in ExportJobs /\ ExportInv' => JobInv'
    /\ job' \in ReadJobs /\ ReadInv' => JobInv'
    /\ job' \in EndJobs /\ EndInv' => JobInv'
<1>1. job' \in StoreJobs => job'.op = "store"
  BY DEF StoreJobs
<1>2. job' \in SerialiseJobs => job'.op = "serialise"
  BY DEF SerialiseJobs
<1>3. job' \in ExportJobs => job'.op = "export"
  BY DEF ExportJobs
<1>4. job' \in ReadJobs => job'.op = "read"
  BY DEF ReadJobs
<1>5. job' \in EndJobs => job'.op = "end"
  BY DEF EndJobs
<1>6. job' \in Jobs <=> \/ job' = Idle \/ job' \in StoreJobs \/ job' \in SerialiseJobs
                        \/ job' \in ExportJobs \/ job' \in ReadJobs \/ job' \in EndJobs
  BY DEF Jobs
<1>7. /\ job'.op \notin {"store", "serialise"} => WritingInv'
      /\ job'.op # "store" => StoreInv'
      /\ job'.op # "serialise" => SerialiseInv'
      /\ job'.op # "export" => ExportInv'
      /\ job'.op # "read" => ReadInv'
      /\ job'.op # "end" => EndInv'
  BY DEF WritingInv, Storing, StoreInv, SerialiseInv, ExportInv, ReadInv, EndInv
<1> QED BY <1>1, <1>2, <1>3, <1>4, <1>5, <1>6, <1>7 DEF JobInv

LEMMA CommitInv ==
    ASSUME RepoInv, NEW s \in States, Commit(s)
    PROVE  RepoInv'
<1> DEFINE todo == [i \in 1..Len(Chunks(s)) |-> ChunkFile(Chunks(s)[i])] \o <<Id(s)>>
<1>1. todo \in Seq(FileNames) /\ LastFiles(todo, s) /\ FirstFiles(todo, s) = {}
  BY AllFiles
<1>2. job' = [op |-> "store", state |-> s, writing |-> FALSE, todo |-> todo]
      /\ UNCHANGED <<disk, snap, returned>>
  BY DEF Commit
<1> HIDE DEF todo
<1>3. job' \in StoreJobs
  BY <1>1, <1>2 DEF StoreJobs
<1>4. WritingInv' /\ StoreInv'
  BY <1>1, <1>2 DEF WritingInv, StoreInv
<1> QED BY <1>2, <1>3, <1>4, JobInvCases, SameFiles DEF RepoInv

LEMMA CommitSerialisedInv ==
    ASSUME RepoInv, NEW s \in States, CommitSerialised(s)
    PROVE  RepoInv'
<1>1. /\ job' = [op |-> "serialise", state |-> s, rest |-> s, buffer |-> << >>,
                 hashes |-> << >>, writing |-> FALSE, todo |-> << >>]
      /\ UNCHANGED <<disk, snap, returned>>
  BY DEF CommitSerialised
<1>2. /\ s \in Data /\ Len(s) \in Nat /\ Count(s) \in Nat \ {0}
      /\ s = SubSeq(s, 1, Len(s)) /\ << >> = SubSeq(s, 1, 0)
      /\ CHUNK_SIZE \in Nat \ {0}
  BY StateFacts, LenProperties, SubSeqFull, RepoAssumption DEF Data
<1>3. job' \in SerialiseJobs
  BY <1>1, <1>2 DEF SerialiseJobs, Data
<1>4. WritingInv'
  BY <1>1 DEF WritingInv
<1>5. /\ job'.state = s /\ job'.rest = s /\ job'.buffer = << >> /\ job'.hashes = << >>
      /\ job'.todo = << >> /\ ~job'.writing /\ Taken(job') = 0
  BY <1>1, <1>2 DEF Taken
<1>6. 0 * CHUNK_SIZE = 0 /\ (0 + 1) * CHUNK_SIZE = CHUNK_SIZE
  BY <1>2
<1>7. SerialiseInv'
  BY <1>2, <1>5, <1>6 DEF SerialiseInv
<1> QED BY <1>1, <1>3, <1>4, <1>7, JobInvCases, SameFiles DEF RepoInv

LEMMA ExportInvStep ==
    ASSUME RepoInv, NEW s \in States, Export(Id(s))
    PROVE  RepoInv'
<1> DEFINE todo == [i \in 1..Len(Chunks(s)) |-> ChunkFile(Chunks(s)[i])] \o <<Id(s)>>
<1>1. todo \in Seq(FileNames) /\ LastFiles(todo, s) /\ FirstFiles(todo, s) = {}
  BY AllFiles
<1>2. /\ job' = [op |-> "export", id |-> Id(s), copying |-> FALSE, todo |-> todo]
      /\ snap = << >> /\ UNCHANGED <<disk, snap, returned>>
  BY StateFacts DEF Export
<1> HIDE DEF todo
<1>3. job' \in ExportJobs
  BY <1>1, <1>2, StateFacts DEF ExportJobs
<1>4. DOMAIN snap' = {}
  BY <1>2
<1>5. ExportInv'
  BY <1>1, <1>2, <1>4 DEF ExportInv
<1> QED BY <1>2, <1>3, <1>5, JobInvCases, SameFiles DEF RepoInv

LEMMA CheckoutSerialisedInv ==
    ASSUME RepoInv, NEW s \in States, CheckoutSerialised(Id(s))
    PROVE  RepoInv'
<1>1. /\ job' = [op |-> "read", id |-> Id(s), hashes |-> Chunks(s), buffer |-> << >>,
                 out |-> << >>]
      /\ Id(s) \in DOMAIN disk /\ disk[Id(s)] = Size(Id(s))
      /\ UNCHANGED <<disk, snap, returned>>
  BY StateFacts DEF CheckoutSerialised, Exists
<1>2. job' \in ReadJobs
  BY <1>1, StateFacts DEF ReadJobs, Data
<1>3. job'.hashes = Chunks(s) /\ job'.id = Id(s) /\ job'.out \o job'.buffer = << >>
  BY <1>1
<1>4. Len(Chunks(s)) \in Nat /\ Len(Chunks(s)) - Len(job'.hashes) = 0
      /\ FirstChunks(s, 0) = << >>
  BY <1>3, StateFacts, FirstChunksEnds
<1>5. ReadInv'
  <2>1. \A j \in 1..Len(job'.hashes) : job'.hashes[j] = Chunks(s)[0 + j]
    BY <1>3, <1>4
  <2> QED BY <1>1, <1>3, <1>4, <2>1 DEF ReadInv
<1> QED BY <1>1, <1>2, <1>5, JobInvCases, SameFiles DEF RepoInv

LEMMA IdleStep ==
    ASSUME RepoInv, Fail \/ Deserialised
    PROVE  RepoInv'
<1>1. job' = Idle /\ UNCHANGED <<disk, snap, returned>>
  BY DEF Fail, Deserialised
<1> QED BY <1>1, IdleInv, SameFiles DEF RepoInv

LEMMA Slices ==
    ASSUME NEW s \in Data, NEW t \in 0..Len(s), NEW n \in 1..(Len(s) - t)
    PROVE  LET rest == SubSeq(s, t + 1, Len(s))
           IN  /\ rest \in Data /\ Len(rest) = Len(s) - t
               /\ SubSeq(rest, 1, n) = SubSeq(s, t + 1, t + n)
               /\ SubSeq(rest, n + 1, Len(rest)) = SubSeq(s, t + n + 1, Len(s))
               /\ SubSeq(s, t + n + 1, Len(s)) \in Data
               /\ Len(SubSeq(s, t + n + 1, Len(s))) = Len(s) - (t + n)
<1> DEFINE rest == SubSeq(s, t + 1, Len(s))
<1>1. Len(s) \in Nat /\ \A i \in 1..Len(s) : s[i] \in BYTES
  BY LenProperties, ElementOfSeq DEF Data
<1>2. rest \in Data /\ Len(rest) = Len(s) - t
  BY <1>1, SubSeqProperties DEF Data
<1>3. SubSeq(rest, 1, n) = SubSeq(s, t + 1, t + n)
  <2>1. t + 1 \in 1..Len(s) /\ Len(s) \in 1..Len(s)
        /\ 1 \in 1..(Len(s) - (t + 1) + 1) /\ n \in 1..(Len(s) - (t + 1) + 1)
        /\ t + 1 + 1 - 1 = t + 1 /\ t + 1 + n - 1 = t + n
    BY <1>1
  <2> QED BY <2>1, SubSeqOfSubSeq DEF Data
<1>4. /\ SubSeq(s, t + n + 1, Len(s)) \in Data
      /\ Len(SubSeq(s, t + n + 1, Len(s))) = Len(s) - (t + n)
  BY <1>1, SubSeqProperties DEF Data
<1>5. SubSeq(rest, n + 1, Len(rest)) = SubSeq(s, t + n + 1, Len(s))
  <2>1. CASE n = Len(s) - t
    <3>1. SubSeq(rest, n + 1, Len(rest)) = << >>
      BY <2>1, <1>1, <1>2, SubSeqEmpty
    <3>2. SubSeq(s, t + n + 1, Len(s)) = << >>
      BY <2>1, <1>1, SubSeqEmpty
    <3> QED BY <3>1, <3>2
  <2>2. CASE n < Len(s) - t
    <3>1. t + 1 \in 1..Len(s) /\ Len(s) \in 1..Len(s)
          /\ n + 1 \in 1..(Len(s) - (t + 1) + 1)
          /\ Len(s) - t \in 1..(Len(s) - (t + 1) + 1)
          /\ t + 1 + (n + 1) - 1 = t + n + 1 /\ t + 1 + (Len(s) - t) - 1 = Len(s)
      BY <1>1, <2>2
    <3> QED BY <3>1, <1>2, SubSeqOfSubSeq DEF Data
  <2> QED BY <1>1, <2>1, <2>2
<1> QED BY <1>2, <1>3, <1>4, <1>5

(* A buffer that holds the next chunk is flushed. *)
LEMMA FlushedInv ==
    ASSUME NEW j \in SerialiseJobs, NEW k \in Nat, k = Len(j.hashes),
           k < Len(Chunks(j.state)), j.buffer = Chunks(j.state)[k + 1],
           \A i \in 1..k : /\ j.hashes[i] = Chunks(j.state)[i]
                           /\ ChunkFile(j.hashes[i]) \in DOMAIN disk,
           ~j.writing, Len(j.rest) <= Len(j.state),
           j.rest = SubSeq(j.state, Taken(j) + 1, Len(j.state)),
           \/ k + 1 = Len(Chunks(j.state)) /\ j.rest = << >>
           \/ Taken(j) = (k + 1) * CHUNK_SIZE,
           job' = Flushed(j), UNCHANGED disk
    PROVE  job' \in SerialiseJobs /\ WritingInv' /\ SerialiseInv'
<1> DEFINE s == j.state
           h == Append(j.hashes, j.buffer)
<1>1. /\ s \in States /\ j.hashes \in Seq(Data) /\ j.buffer \in Data /\ j.rest \in Data
      /\ j.writing \in BOOLEAN /\ j.op = "serialise"
  BY DEF SerialiseJobs
<1>2. /\ h \in Seq(Data) /\ Len(h) = k + 1 /\ \A i \in 1..k : h[i] = j.hashes[i]
      /\ h[k + 1] = j.buffer
  BY <1>1, AppendProperties
<1>3. /\ job'.op = "serialise" /\ job'.state = s /\ job'.rest = j.rest
      /\ job'.buffer = << >> /\ job'.hashes = h /\ ~job'.writing
      /\ job'.todo = <<ChunkFile(j.buffer)>>
  BY DEF SerialiseJobs, Flushed
<1>4. ChunkFile(j.buffer) \in FileNames
  BY <1>1 DEF FileNames, ChunkFiles, ChunkFile
<1>5. job' \in SerialiseJobs
  <2>1. h \in Seq(Data) /\ << >> \in Data /\ <<ChunkFile(j.buffer)>> \in Seq(FileNames)
    BY <1>2, <1>4 DEF Data
  <2> HIDE DEF h
  <2> QED BY <2>1 DEF SerialiseJobs, Flushed, h
<1>6. WritingInv'
  BY <1>3 DEF WritingInv
<1>7. /\ CHUNK_SIZE \in Nat \ {0} /\ Len(Chunks(s)) \in Nat /\ Count(s) = Len(Chunks(s)) + 1
      /\ Len(s) \in Nat /\ Len(j.rest) \in Nat
  BY <1>1, RepoAssumption, StateFacts, LenProperties DEF Count, Data
<1>8. Taken(job') = Taken(j) /\ Taken(j) \in Nat
  BY <1>3, <1>7 DEF Taken
<1>9. ASSUME Taken(j) = (k + 1) * CHUNK_SIZE
      PROVE  /\ (k + 1) * CHUNK_SIZE <= Taken(j) /\ Taken(j) < (k + 1 + 1) * CHUNK_SIZE
             /\ << >> = SubSeq(s, (k + 1) * CHUNK_SIZE + 1, Taken(j))
  <2>1. (k + 1 + 1) * CHUNK_SIZE = (k + 1) * CHUNK_SIZE + CHUNK_SIZE
    BY <1>7, Multiples
  <2>2. << >> = SubSeq(s, Taken(j) + 1, Taken(j))
    BY <1>8, SubSeqEmpty
  <2>3. << >> = SubSeq(s, (k + 1) * CHUNK_SIZE + 1, Taken(j))
    BY <2>2, <1>9, Zenon
  <2>4. (k + 1) * CHUNK_SIZE <= Taken(j) /\ Taken(j) < Taken(j) + CHUNK_SIZE
    BY <1>7, <1>8, <1>9
  <2> QED BY <2>1, <2>3, <2>4, <1>9, Zenon
<1> HIDE DEF h
<1>10. \A i \in 1..(k + 1) : i \in 1..k \/ i = k + 1
  OBVIOUS
<1>11. \A i \in 1..(k + 1) : h[i] = Chunks(s)[i]
  BY <1>2, <1>10
<1>12. job'.todo = <<ChunkFile(job'.hashes[k + 1])>> /\ job'.todo # << >> /\ k + 1 > 0
  BY <1>2, <1>3
<1>13. \A i \in 1..(k + 1) : \/ ChunkFile(job'.hashes[i]) \in DOMAIN disk'
                             \/ i = k + 1 /\ job'.todo # << >>
  BY <1>2, <1>3, <1>10, <1>12
<1>14. SerialiseInv'
  <2>1. Len(job'.hashes) = k + 1
    BY <1>2, <1>3
  <2>2. \/ k + 1 = Len(Chunks(job'.state)) /\ job'.buffer = << >> /\ job'.rest = << >>
        \/ /\ (k + 1) * CHUNK_SIZE <= Taken(job')
           /\ Taken(job') < (k + 1 + 1) * CHUNK_SIZE
           /\ job'.buffer = SubSeq(job'.state, (k + 1) * CHUNK_SIZE + 1, Taken(job'))
    BY <1>3, <1>8, <1>9
  <2>3. /\ k + 1 < Count(job'.state)
        /\ \A i \in 1..(k + 1) : job'.hashes[i] = Chunks(job'.state)[i]
        /\ Len(job'.rest) <= Len(job'.state)
        /\ job'.rest = SubSeq(job'.state, Taken(job') + 1, Len(job'.state))
    BY <1>3, <1>7, <1>8, <1>11
  <2> QED BY <2>1, <2>2, <2>3, <1>12, <1>13 DEF SerialiseInv
<1> QED BY <1>5, <1>6, <1>14

(* The next n bytes go to the buffer, from a state of which t bytes are    *)
(* taken, the last ones, from a on, in the buffer.                         *)
RoundBefore(s, a, t, n, rest, buffer) ==
    /\ s \in Data /\ a \in Nat /\ t \in Nat /\ n \in Nat
    /\ a <= t /\ t <= Len(s) /\ 1 <= n /\ n <= Len(s) - t
    /\ rest = SubSeq(s, t + 1, Len(s))
    /\ buffer = SubSeq(s, a + 1, t)

RoundAfter(s, a, t, n, rest, buffer) ==
    /\ Len(rest) = Len(s) - t /\ Len(buffer) = t - a
    /\ buffer \o SubSeq(rest, 1, n) = SubSeq(s, a + 1, t + n)
    /\ buffer \o SubSeq(rest, 1, n) \in Data
    /\ Len(buffer \o SubSeq(rest, 1, n)) = t + n - a
    /\ SubSeq(rest, n + 1, Len(rest)) = SubSeq(s, t + n + 1, Len(s))
    /\ SubSeq(rest, n + 1, Len(rest)) \in Data
    /\ Len(SubSeq(rest, n + 1, Len(rest))) = Len(s) - (t + n)

LEMMA WriteRound ==
    ASSUME NEW s, NEW a, NEW t, NEW n, NEW rest, NEW buffer,
           RoundBefore(s, a, t, n, rest, buffer)
    PROVE  RoundAfter(s, a, t, n, rest, buffer)
<1> USE DEF RoundBefore
<1>1. Len(s) \in Nat /\ s \in Seq(BYTES) /\ \A i \in 1..Len(s) : s[i] \in BYTES
  BY LenProperties, ElementOfSeq DEF Data
<1>2. /\ Len(rest) = Len(s) - t
      /\ SubSeq(rest, 1, n) = SubSeq(s, t + 1, t + n)
      /\ SubSeq(rest, n + 1, Len(rest)) = SubSeq(s, t + n + 1, Len(s))
      /\ SubSeq(s, t + n + 1, Len(s)) \in Data
      /\ Len(SubSeq(s, t + n + 1, Len(s))) = Len(s) - (t + n)
  <2>1. t \in 0..Len(s) /\ n \in 1..(Len(s) - t)
    BY <1>1
  <2> QED BY <2>1, Slices
<1>3. Len(buffer) = t - a
  <2>1. \A i \in (a + 1)..t : s[i] \in BYTES
    BY <1>1
  <2>2. a + 1 \in Int /\ t \in Int
    OBVIOUS
  <2>3. Len(SubSeq(s, a + 1, t)) = IF a + 1 <= t THEN t - (a + 1) + 1 ELSE 0
    BY <2>1, <2>2, SubSeqProperties
  <2> QED BY <2>3
<1>4. buffer \o SubSeq(rest, 1, n) = SubSeq(s, a + 1, t + n)
  <2>1. a + 1 \in 1..(Len(s) + 1) /\ t \in (a + 1 - 1)..Len(s) /\ t + n \in t..Len(s)
    BY <1>1
  <2> DEFINE m == a + 1
             e == t + n
  <2>2. SubSeq(s, t + 1, e) = SubSeq(rest, 1, n)
    BY <1>2
  <2>3. m \in 1..(Len(s) + 1) /\ t \in (m - 1)..Len(s) /\ e \in t..Len(s)
    BY <2>1
  <2> HIDE DEF m, e
  <2>4. SubSeq(s, m, t) \o SubSeq(s, t + 1, e) = SubSeq(s, m, e)
    BY <2>3, <1>1, ConcatAdjacentSubSeq
  <2> QED BY <2>2, <2>4 DEF m, e
<1>5. SubSeq(s, a + 1, t + n) \in Data /\ Len(SubSeq(s, a + 1, t + n)) = t + n - a
  <2> DEFINE b == t + n
  <2>1. b \in Int /\ b <= Len(s) /\ a + 1 <= b /\ a + 1 \in Int
    BY <1>1
  <2> HIDE DEF b
  <2>2. \A i \in (a + 1)..b : s[i] \in BYTES
    BY <1>1, <2>1
  <2>3. /\ SubSeq(s, a + 1, b) \in Seq(BYTES)
        /\ Len(SubSeq(s, a + 1, b)) = IF a + 1 <= b THEN b - (a + 1) + 1 ELSE 0
    BY <2>1, <2>2, SubSeqProperties
  <2>4. SubSeq(s, a + 1, b) \in Data /\ Len(SubSeq(s, a + 1, b)) = b - a
    BY <2>1, <2>3 DEF Data
  <2> QED BY <2>4 DEF b
<1> QED BY <1>2, <1>3, <1>4, <1>5 DEF RoundAfter

AtBefore(s, k, t, n, rest, buffer) ==
    /\ k \in Nat /\ k * CHUNK_SIZE <= t /\ t < (k + 1) * CHUNK_SIZE
    /\ RoundBefore(s, k * CHUNK_SIZE, t, n, rest, buffer)
    /\ n <= CHUNK_SIZE - Len(buffer)

AtAfter(s, k, t, n, out, left) ==
    /\ out = SubSeq(s, k * CHUNK_SIZE + 1, t + n) /\ out \in Data
    /\ left = SubSeq(s, t + n + 1, Len(s)) /\ left \in Data
    /\ Len(left) = Len(s) - (t + n)
    /\ k < Len(Chunks(s))
    /\ k * CHUNK_SIZE <= t + n
    /\ Len(out) # CHUNK_SIZE => t + n < (k + 1) * CHUNK_SIZE
    /\ Len(out) = CHUNK_SIZE => t + n = (k + 1) * CHUNK_SIZE /\ out = Chunks(s)[k + 1]

LEMMA WriteRoundAt ==
    ASSUME NEW s, NEW k, NEW t, NEW n, NEW rest, NEW buffer,
           AtBefore(s, k, t, n, rest, buffer)
    PROVE  AtAfter(s, k, t, n, buffer \o SubSeq(rest, 1, n),
                   SubSeq(rest, n + 1, Len(rest)))
<1> DEFINE a == k * CHUNK_SIZE
           out == buffer \o SubSeq(rest, 1, n)
           left == SubSeq(rest, n + 1, Len(rest))
<1>0. /\ RoundBefore(s, a, t, n, rest, buffer) /\ k \in Nat
      /\ t < (k + 1) * CHUNK_SIZE /\ n <= CHUNK_SIZE - Len(buffer)
  BY DEF AtBefore
<1>1. /\ CHUNK_SIZE \in Nat \ {0} /\ Len(s) \in Nat /\ Len(Chunks(s)) \in Nat
      /\ s \in Data /\ a \in Nat /\ t \in Nat /\ n \in Nat
      /\ a <= t /\ t <= Len(s) /\ 1 <= n /\ n <= Len(s) - t
      /\ (k + 1) * CHUNK_SIZE = a + CHUNK_SIZE
  BY <1>0, RepoAssumption, LenProperties, ChunkCount, Multiples DEF Data, RoundBefore
<1>2. k < Len(Chunks(s))
  <2>1. k * CHUNK_SIZE < Len(s)
    BY <1>1
  <2> QED BY <2>1, <1>0, <1>1, ChunkCount
<1>3. RoundAfter(s, a, t, n, rest, buffer)
  BY <1>0, WriteRound
<1>4. /\ Len(buffer) = t - a /\ out = SubSeq(s, a + 1, t + n) /\ out \in Data
      /\ Len(out) = t + n - a
      /\ left = SubSeq(s, t + n + 1, Len(s)) /\ left \in Data
      /\ Len(left) = Len(s) - (t + n)
  BY <1>3 DEF RoundAfter
<1> HIDE DEF a, out, left
<1>5. Len(out) <= CHUNK_SIZE /\ a <= t + n
  BY <1>0, <1>1, <1>4
<1>6. ASSUME Len(out) = CHUNK_SIZE
      PROVE  t + n = a + CHUNK_SIZE /\ out = Chunks(s)[k + 1]
  <2>1. t + n = a + CHUNK_SIZE
    BY <1>1, <1>4, <1>6
  <2>2. k + 1 \in 1..Len(Chunks(s)) /\ (k + 1) - 1 = k
    BY <1>0, <1>1, <1>2
  <2>3. Chunks(s)[k + 1] = SubSeq(s, ((k + 1) - 1) * CHUNK_SIZE + 1, UpTo(s, k + 1))
    BY <2>2, <1>1, ChunkIs
  <2>4. Chunks(s)[k + 1] = SubSeq(s, a + 1, UpTo(s, k + 1))
    BY <2>2, <2>3 DEF a
  <2>5. UpTo(s, k + 1) = t + n
    <3>1. (k + 1) * CHUNK_SIZE = t + n /\ t + n <= Len(s)
      BY <2>1, <1>1
    <3> QED BY <3>1, <1>1 DEF UpTo
  <2> QED BY <2>1, <2>4, <2>5, <1>4
<1>7. Len(out) # CHUNK_SIZE => t + n < a + CHUNK_SIZE
  BY <1>1, <1>4, <1>5
<1> QED BY <1>1, <1>2, <1>4, <1>5, <1>6, <1>7 DEF a, out, left, AtAfter

LEMMA WriteInv ==
    ASSUME RepoInv, NEW n \in 1..CHUNK_SIZE, Write(n)
    PROVE  RepoInv'
<1> DEFINE s == job.state
           k == Len(job.hashes)
           t == Taken(job)
           buffer == job.buffer \o SubSeq(job.rest, 1, n)
           j == [job EXCEPT !.buffer = @ \o SubSeq(job.rest, 1, n),
                            !.rest = SubSeq(@, n + 1, Len(@))]
<1>1. /\ job \in SerialiseJobs /\ job.op = "serialise" /\ job.todo = << >>
      /\ n <= Len(job.rest) /\ n <= CHUNK_SIZE - Len(job.buffer)
      /\ job' = IF Len(j.buffer) = CHUNK_SIZE THEN Flushed(j) ELSE j
      /\ UNCHANGED <<disk, snap, returned>>
  BY JobShapes DEF RepoInv, JobInv, Write
<1>2. /\ s \in States /\ job.hashes \in Seq(Data) /\ job.buffer \in Data /\ job.rest \in Data
      /\ job.writing \in BOOLEAN /\ s \in Data
  BY <1>1, StateFacts DEF SerialiseJobs
<1>3. /\ CHUNK_SIZE \in Nat \ {0} /\ k \in Nat /\ Len(s) \in Nat /\ Len(job.rest) \in Nat
      /\ Len(Chunks(s)) \in Nat /\ Count(s) = Len(Chunks(s)) + 1
  BY <1>2, RepoAssumption, StateFacts, LenProperties DEF Count, Data
<1>4. SerialiseInv
  BY DEF RepoInv, JobInv
<1>5. /\ k < Count(s) /\ \A i \in 1..k : job.hashes[i] = Chunks(s)[i]
      /\ Len(job.rest) <= Len(s) /\ job.rest = SubSeq(s, t + 1, Len(s)) /\ ~job.writing
      /\ \A i \in 1..k : ChunkFile(job.hashes[i]) \in DOMAIN disk
  BY <1>1, <1>4 DEF SerialiseInv
<1>6. job.rest # << >>
  BY <1>1, <1>3, EmptySeq
<1>7. /\ k * CHUNK_SIZE <= t /\ t < (k + 1) * CHUNK_SIZE
      /\ job.buffer = SubSeq(s, k * CHUNK_SIZE + 1, t)
  BY <1>1, <1>4, <1>6 DEF SerialiseInv
<1>8. t \in Nat /\ t <= Len(s) /\ n \in Nat /\ 1 <= n /\ n <= Len(s) - t
  <2>1. t = Len(s) - Len(job.rest)
    BY DEF Taken
  <2>2. n <= Len(job.rest) /\ n \in 1..CHUNK_SIZE
    BY <1>1
  <2> HIDE DEF t, s, k
  <2> QED BY <2>1, <2>2, <1>3, <1>5
<1>9. n <= CHUNK_SIZE - Len(job.buffer)
  BY <1>1
<1> DEFINE left == SubSeq(job.rest, n + 1, Len(job.rest))
<1>10. /\ buffer = SubSeq(s, k * CHUNK_SIZE + 1, t + n) /\ buffer \in Data
       /\ left = SubSeq(s, t + n + 1, Len(s)) /\ left \in Data
       /\ Len(left) = Len(s) - (t + n)
       /\ k < Len(Chunks(s))
       /\ k * CHUNK_SIZE <= t + n
       /\ Len(buffer) # CHUNK_SIZE => t + n < (k + 1) * CHUNK_SIZE
       /\ Len(buffer) = CHUNK_SIZE => t + n = (k + 1) * CHUNK_SIZE /\ buffer = Chunks(s)[k + 1]
  <2> HIDE DEF k, t, s, j
  <2>1. k * CHUNK_SIZE \in Nat
    BY <1>3, Multiples
  <2>2. AtBefore(s, k, t, n, job.rest, job.buffer)
    BY <2>1, <1>2, <1>3, <1>5, <1>7, <1>8, <1>9 DEF AtBefore, RoundBefore
  <2>3. AtAfter(s, k, t, n, buffer, left)
    BY <2>2, WriteRoundAt
  <2> HIDE DEF buffer, left
  <2> QED BY <2>3 DEF AtAfter
<1> HIDE DEF k, t, s, buffer, left
<1>13. /\ j.op = "serialise" /\ j.state = s /\ j.hashes = job.hashes /\ j.writing = job.writing
       /\ j.todo = << >> /\ j.buffer = buffer /\ j.rest = left
  BY <1>1 DEF SerialiseJobs, buffer, left, s
<1>14. j \in SerialiseJobs
  BY <1>1, <1>10 DEF SerialiseJobs, buffer, left
<1> HIDE DEF j
<1>15. Taken(j) = t + n /\ Len(j.rest) <= Len(j.state)
       /\ j.rest = SubSeq(s, Taken(j) + 1, Len(s))
  <2>1. Len(j.rest) = Len(s) - (t + n)
    BY <1>10, <1>13
  <2>2. Taken(j) = t + n
    BY <2>1, <1>3, <1>8, <1>13 DEF Taken
  <2> QED BY <2>1, <2>2, <1>3, <1>8, <1>10, <1>13
<1>16. Len(j.hashes) = k
  BY <1>13 DEF k
<1>18. CASE Len(buffer) = CHUNK_SIZE
  <2>4. j.buffer = Chunks(j.state)[k + 1]
    BY <1>10, <1>13, <1>18
  <2>5. Taken(j) = (k + 1) * CHUNK_SIZE
    BY <1>10, <1>15, <1>18
  <2>6. job' = Flushed(j)
    BY <1>1, <1>13, <1>18
  <2>7. k \in Nat /\ k < Len(Chunks(j.state)) /\ ~j.writing
    BY <1>3, <1>5, <1>10, <1>13
  <2>8. \A i \in 1..k : /\ j.hashes[i] = Chunks(j.state)[i]
                        /\ ChunkFile(j.hashes[i]) \in DOMAIN disk
    BY <1>5, <1>13
  <2>9. k = Len(j.hashes) /\ UNCHANGED disk /\ Len(j.rest) <= Len(j.state)
        /\ j.rest = SubSeq(j.state, Taken(j) + 1, Len(j.state))
    BY <1>1, <1>13, <1>15, <1>16
  <2>10. job' \in SerialiseJobs /\ WritingInv' /\ SerialiseInv'
    BY <2>4, <2>5, <2>6, <2>7, <2>8, <2>9, <1>14, FlushedInv
  <2> QED BY <2>10, <1>1, JobInvCases, SameFiles DEF RepoInv
<1>19. CASE Len(buffer) # CHUNK_SIZE
  <2>1. job' = j
    BY <1>1, <1>13, <1>19
  <2>3. WritingInv'
    BY <2>1, <1>5, <1>13 DEF WritingInv
  <2>4. SerialiseInv'
    <3>1. /\ k * CHUNK_SIZE <= Taken(job') /\ Taken(job') < (k + 1) * CHUNK_SIZE
          /\ job'.buffer = SubSeq(job'.state, k * CHUNK_SIZE + 1, Taken(job'))
      BY <2>1, <1>10, <1>13, <1>15, <1>19
    <3> QED BY <2>1, <3>1, <1>1, <1>5, <1>13, <1>15, <1>16 DEF SerialiseInv
  <2> QED BY <2>1, <2>3, <2>4, <1>1, <1>14, JobInvCases, SameFiles DEF RepoInv
<1> QED BY <1>18, <1>19

(* At the end of the state the buffer holds the last chunk, or nothing.    *)
EndBefore(s, k, buffer) ==
    /\ s \in Data /\ k \in Nat
    /\ k * CHUNK_SIZE <= Len(s) /\ Len(s) < (k + 1) * CHUNK_SIZE
    /\ k <= Len(Chunks(s))
    /\ buffer = SubSeq(s, k * CHUNK_SIZE + 1, Len(s))

EndAfter(s, k, buffer) ==
    /\ buffer # << >> => k + 1 = Len(Chunks(s)) /\ buffer = Chunks(s)[k + 1]
    /\ buffer = << >> => k = Len(Chunks(s))

LEMMA LastChunk ==
    ASSUME NEW s, NEW k, NEW buffer, EndBefore(s, k, buffer)
    PROVE  EndAfter(s, k, buffer)
<1> DEFINE a == k * CHUNK_SIZE
<1>0. /\ s \in Data /\ k \in Nat /\ k <= Len(Chunks(s)) /\ buffer = SubSeq(s, a + 1, Len(s))
      /\ a <= Len(s) /\ Len(s) < (k + 1) * CHUNK_SIZE
  BY DEF EndBefore
<1>1. /\ CHUNK_SIZE \in Nat \ {0} /\ Len(s) \in Nat /\ Len(Chunks(s)) \in Nat
      /\ a \in Nat /\ k + 1 \in Nat
      /\ k < Len(Chunks(s)) <=> a < Len(s)
      /\ k + 1 < Len(Chunks(s)) <=> (k + 1) * CHUNK_SIZE < Len(s)
  BY <1>0, RepoAssumption, LenProperties, ChunkCount, Multiples DEF Data
<1>2. (k + 1) * CHUNK_SIZE \in Nat
  BY <1>1, Multiples
<1>3. UpTo(s, k + 1) = Len(s)
  BY <1>0, <1>1, <1>2 DEF UpTo
<1> HIDE DEF a
<1>4. ASSUME buffer # << >> PROVE a < Len(s)
  <2>1. SUFFICES ASSUME ~(a < Len(s)) PROVE FALSE
    OBVIOUS
  <2>2. SubSeq(s, a + 1, Len(s)) = << >>
    BY <2>1, <1>1, SubSeqEmpty
  <2> QED BY <2>2, <1>0, <1>4
<1>5. ASSUME a < Len(s) PROVE buffer # << >>
  <2>1. \A i \in (a + 1)..Len(s) : s[i] \in BYTES
    BY <1>0, <1>1, ElementOfSeq DEF Data
  <2>2. Len(SubSeq(s, a + 1, Len(s))) = IF a + 1 <= Len(s) THEN Len(s) - (a + 1) + 1 ELSE 0
    BY <2>1, <1>1, SubSeqProperties
  <2>3. Len(buffer) > 0
    BY <2>2, <1>0, <1>1, <1>5
  <2> QED BY <2>3
<1>6. ASSUME a < Len(s)
      PROVE  k + 1 = Len(Chunks(s)) /\ buffer = Chunks(s)[k + 1]
  <2>1. k + 1 = Len(Chunks(s)) /\ k + 1 \in 1..Len(Chunks(s)) /\ (k + 1) - 1 = k
    BY <1>0, <1>1, <1>2, <1>6
  <2>2. Chunks(s)[k + 1] = SubSeq(s, ((k + 1) - 1) * CHUNK_SIZE + 1, UpTo(s, k + 1))
    BY <2>1, <1>0, ChunkIs
  <2> QED BY <2>1, <2>2, <1>0, <1>3 DEF a
<1>7. ~(a < Len(s)) => k = Len(Chunks(s))
  BY <1>0, <1>1
<1> QED BY <1>4, <1>5, <1>6, <1>7 DEF EndAfter

LEMMA FinaliseInv ==
    ASSUME RepoInv, Finalise
    PROVE  RepoInv'
<1> DEFINE s == job.state
           k == Len(job.hashes)
<1>1. /\ job \in SerialiseJobs /\ job.op = "serialise" /\ job.todo = << >> /\ job.rest = << >>
      /\ UNCHANGED <<disk, snap, returned>> /\ SerialiseInv
  BY JobShapes DEF RepoInv, JobInv, Finalise
<1>2. /\ s \in States /\ job.hashes \in Seq(Data) /\ job.buffer \in Data /\ s \in Data
  BY <1>1, StateFacts DEF SerialiseJobs
<1>3. /\ k \in Nat /\ Len(s) \in Nat /\ Len(job.rest) = 0
      /\ Len(Chunks(s)) \in Nat /\ Count(s) = Len(Chunks(s)) + 1
  BY <1>1, <1>2, StateFacts, LenProperties DEF Count, Data
<1>4. /\ k < Count(s) /\ \A i \in 1..k : job.hashes[i] = Chunks(s)[i]
      /\ job.rest = SubSeq(s, Taken(job) + 1, Len(s)) /\ ~job.writing
      /\ \A i \in 1..k : ChunkFile(job.hashes[i]) \in DOMAIN disk
      /\ \/ k = Len(Chunks(s)) /\ job.buffer = << >>
         \/ /\ k * CHUNK_SIZE <= Taken(job) /\ Taken(job) < (k + 1) * CHUNK_SIZE
            /\ job.buffer = SubSeq(s, k * CHUNK_SIZE + 1, Taken(job))
  BY <1>1 DEF SerialiseInv
<1>5. Taken(job) = Len(s)
  BY <1>3 DEF Taken
<1>6. EndAfter(s, k, job.buffer)
  <2>1. CASE k = Len(Chunks(s)) /\ job.buffer = << >>
    BY <2>1 DEF EndAfter
  <2>2. CASE /\ k * CHUNK_SIZE <= Taken(job) /\ Taken(job) < (k + 1) * CHUNK_SIZE
             /\ job.buffer = SubSeq(s, k * CHUNK_SIZE + 1, Taken(job))
    <3>1. k <= Len(Chunks(s))
      BY <1>3, <1>4
    <3> HIDE DEF s, k
    <3>2. EndBefore(s, k, job.buffer)
      BY <2>2, <3>1, <1>2, <1>3, <1>5 DEF EndBefore
    <3> QED BY <3>2, LastChunk
  <2> QED BY <2>1, <2>2, <1>4
<1>7. CASE job.buffer # << >>
  <2>1. k + 1 = Len(Chunks(s)) /\ job.buffer = Chunks(s)[k + 1] /\ k < Len(Chunks(s))
    BY <1>3, <1>6, <1>7 DEF EndAfter
  <2>2. job' = Flushed(job)
    BY <1>7 DEF Finalise
  <2>3. Len(job.rest) <= Len(s)
    BY <1>3
  <2>4. job' \in SerialiseJobs /\ WritingInv' /\ SerialiseInv'
    BY <2>1, <2>2, <2>3, <1>1, <1>3, <1>4, FlushedInv
  <2> QED BY <2>4, <1>1, JobInvCases, SameFiles DEF RepoInv
<1>8. CASE job.buffer = << >>
  <2>1. k = Len(Chunks(s))
    BY <1>6, <1>8 DEF EndAfter
  <2>2. job.hashes = Chunks(s)
    <3>1. Chunks(s) \in Seq(Data)
      BY <1>2, StateFacts
    <3> QED BY <3>1, <2>1, <1>2, <1>4, SeqEqual
  <2>3. job' = [op |-> "store", state |-> s, writing |-> FALSE, todo |-> <<Id(s)>>]
    BY <1>8, <2>2 DEF Finalise, Id
  <2>4. Id(s) \in FileNames /\ FileOf(s, Count(s)) = Id(s)
        /\ ChunksOf(Id(s)) = {FileOf(s, i) : i \in 1..Len(Chunks(s))}
        /\ \A i \in 1..Len(Chunks(s)) : FileOf(s, i) = ChunkFile(Chunks(s)[i])
    BY <1>2, StateFacts DEF FileNames
  <2> HIDE DEF s
  <2>5. job' \in StoreJobs
    BY <2>3, <2>4, <1>2 DEF StoreJobs
  <2>6. WritingInv'
    BY <2>3 DEF WritingInv
  <2>7. LastFiles(<<Id(s)>>, s)
    BY <2>4, <1>3 DEF LastFiles
  <2>8. FirstFiles(<<Id(s)>>, s) = {FileOf(s, i) : i \in 1..Len(Chunks(s))}
    BY <1>3 DEF FirstFiles
  <2>9. FirstFiles(<<Id(s)>>, s) \subseteq DOMAIN disk
    BY <2>1, <2>2, <2>4, <2>8, <1>4
  <2>10. StoreInv'
    BY <2>3, <2>7, <2>9, <1>1 DEF StoreInv
  <2> QED BY <2>5, <2>6, <2>10, <1>1, JobInvCases, SameFiles DEF RepoInv
<1> QED BY <1>7, <1>8

LEMMA SplitRead ==
    ASSUME NEW out \in Data, NEW buffer \in Data, NEW m \in 0..Len(buffer)
    PROVE  /\ out \o SubSeq(buffer, 1, m) \in Data
           /\ SubSeq(buffer, m + 1, Len(buffer)) \in Data
           /\ (out \o SubSeq(buffer, 1, m)) \o SubSeq(buffer, m + 1, Len(buffer))
                = out \o buffer
<1> DEFINE first == SubSeq(buffer, 1, m)
           last == SubSeq(buffer, m + 1, Len(buffer))
<1>1. Len(buffer) \in Nat /\ buffer \in Seq(BYTES) /\ \A i \in 1..Len(buffer) : buffer[i] \in BYTES
  BY LenProperties, ElementOfSeq DEF Data
<1>2. first \in Seq(BYTES)
  BY <1>1, SubSeqProperties
<1>3. last \in Seq(BYTES)
  BY <1>1, SubSeqProperties
<1>4. first \o last = buffer
  <2>1. 1 \in 1..(Len(buffer) + 1) /\ m \in (1 - 1)..Len(buffer)
        /\ Len(buffer) \in m..Len(buffer)
    BY <1>1
  <2>2. first \o last = SubSeq(buffer, 1, Len(buffer))
    BY <2>1, <1>1, ConcatAdjacentSubSeq
  <2>3. SubSeq(buffer, 1, Len(buffer)) = buffer
    BY <1>1, SubSeqFull
  <2> QED BY <2>2, <2>3
<1> HIDE DEF first, last
<1>5. out \o first \in Data /\ (out \o first) \o last = out \o (first \o last)
  BY <1>2, <1>3, ConcatProperties, ConcatAssociative DEF Data
<1> QED BY <1>3, <1>4, <1>5 DEF first, last, Data

(* A chunk of a commit is there, and is loaded whole if it is not short.   *)
LEMMA LoadIs ==
    ASSUME FilesInv, NEW s \in States, Id(s) \in DOMAIN disk, NEW i \in 1..Len(Chunks(s))
    PROVE  /\ Load(disk, Chunks(s)[i]) \in Data
           /\ ~Short(Id(s)) => Load(disk, Chunks(s)[i]) = Chunks(s)[i]
           /\ Chunks(s)[i] # << >>
<1> DEFINE h == Chunks(s)[i]
           f == ChunkFile(h)
<1>1. h \in Data /\ Len(h) \in Nat /\ Len(h) > 0
  <2>1. h \in Data /\ Len(h) \in 1..CHUNK_SIZE
    BY StateFacts, ChunkIs
  <2> HIDE DEF h
  <2> QED BY <2>1, RepoAssumption
<1>2. f \in ChunksOf(Id(s)) /\ f \in DOMAIN disk
  BY StateFacts DEF FilesInv, DiskInv
<1>3. Size(f) = Len(h)
  BY DEF Size, ChunkFile
<1>4. disk[f] \in 0..Len(h)
  BY <1>2, <1>3 DEF FilesInv, FilesType
<1>5. ~Short(Id(s)) => disk[f] = Len(h)
  BY <1>2, <1>3, NotShort DEF FilesInv
<1> HIDE DEF h
<1>6. SubSeq(h, 1, disk[f]) \in Data
  <2>1. \A j \in 1..disk[f] : h[j] \in BYTES
    BY <1>1, <1>4, ElementOfSeq DEF Data
  <2> QED BY <2>1, <1>4, SubSeqProperties DEF Data
<1>7. SubSeq(h, 1, Len(h)) = h
  BY <1>1, SubSeqFull DEF Data
<1>8. h # << >>
  BY <1>1
<1> QED BY <1>5, <1>6, <1>7, <1>8 DEF Load, h

LEMMA ReadStep ==
    ASSUME RepoInv, NEW n \in 1..(CHUNK_SIZE + 1), Read(n)
    PROVE  RepoInv'
<1> DEFINE next == job.buffer = << >> /\ job.hashes # << >>
           buffer == IF next THEN Load(disk, Head(job.hashes)) ELSE job.buffer
           m == IF n < Len(buffer) THEN n ELSE Len(buffer)
           hashes == IF next THEN Tail(job.hashes) ELSE job.hashes
<1>1. /\ job \in ReadJobs /\ job.op = "read" /\ UNCHANGED <<disk, snap, returned>> /\ ReadInv
      /\ job' = IF m = 0 THEN [op |-> "end", id |-> job.id, out |-> job.out]
                ELSE [job EXCEPT !.hashes = hashes,
                                 !.buffer = SubSeq(buffer, m + 1, Len(buffer)),
                                 !.out = @ \o SubSeq(buffer, 1, m)]
  BY JobShapes DEF RepoInv, JobInv, Read
<1>2. PICK s \in States :
         LET k == Len(Chunks(s)) - Len(job.hashes)
         IN  /\ job.id = Id(s) /\ Id(s) \in DOMAIN disk /\ disk[Id(s)] = Size(Id(s))
             /\ k \in Nat
             /\ \A j \in 1..Len(job.hashes) : job.hashes[j] = Chunks(s)[k + j]
             /\ ~Short(job.id) => job.out \o job.buffer = FirstChunks(s, k)
  BY <1>1 DEF ReadInv
<1> DEFINE k == Len(Chunks(s)) - Len(job.hashes)
           kk == Len(Chunks(s)) - Len(hashes)
<1>3. /\ job.hashes \in Seq(Data) /\ job.buffer \in Data /\ job.out \in Data
      /\ job.id \in CommitFiles
  BY <1>1 DEF ReadJobs
<1>4. /\ s \in Data /\ Len(Chunks(s)) \in Nat /\ Len(job.hashes) \in Nat
      /\ k \in Nat /\ Len(job.hashes) = Len(Chunks(s)) - k
  BY <1>2, <1>3, StateFacts, LenProperties
<1>13. /\ \A j \in 1..Len(job.hashes) : job.hashes[j] = Chunks(s)[k + j]
       /\ ~Short(Id(s)) => job.out \o job.buffer = FirstChunks(s, k)
       /\ Id(s) \in DOMAIN disk
  BY <1>2
<1>5. FilesInv /\ n \in Nat \ {0}
  BY RepoAssumption DEF RepoInv
<1>6. ASSUME next
      PROVE  /\ k + 1 \in 1..Len(Chunks(s)) /\ Head(job.hashes) = Chunks(s)[k + 1]
             /\ buffer \in Data /\ hashes \in Seq(Data) /\ kk = k + 1
             /\ \A j \in 1..Len(hashes) : hashes[j] = Chunks(s)[kk + j]
             /\ ~Short(Id(s)) => buffer = Chunks(s)[k + 1] /\ buffer # << >>
             /\ ~Short(Id(s)) => job.out \o buffer = FirstChunks(s, kk)
  <2>1. Len(job.hashes) > 0 /\ Head(job.hashes) = job.hashes[1]
        /\ hashes = Tail(job.hashes) /\ buffer = Load(disk, Head(job.hashes))
    BY <1>3, <1>4, <1>6, EmptySeq
  <2>4. Tail(job.hashes) \in Seq(Data) /\ Len(Tail(job.hashes)) = Len(job.hashes) - 1
        /\ \A j \in 1..Len(Tail(job.hashes)) : Tail(job.hashes)[j] = job.hashes[j + 1]
    BY <1>3, <1>6, HeadTailProperties
  <2>8. job.out \o job.buffer = job.out
    BY <1>3, <1>6, ConcatEmptySeq DEF Data
  <2>0. kk = Len(Chunks(s)) - Len(Tail(job.hashes))
    BY <2>1
  <2> HIDE DEF k, kk, buffer, hashes, next
  <2>2. k + 1 \in 1..Len(Chunks(s)) /\ (k + 1) - 1 = k
    BY <2>1, <1>4
  <2>3. Head(job.hashes) = Chunks(s)[k + 1]
    <3>1. 1 \in 1..Len(job.hashes)
      BY <2>1, <1>4
    <3> QED BY <3>1, <2>1, <1>13
  <2>5. kk = k + 1
    <3>1. Len(Tail(job.hashes)) = Len(job.hashes) - 1
      BY <2>4
    <3>2. kk = Len(Chunks(s)) - (Len(job.hashes) - 1)
      BY <2>0, <3>1
    <3> QED BY <3>2, <1>4
  <2>6. \A j \in 1..Len(hashes) : hashes[j] = Chunks(s)[kk + j]
    <3> SUFFICES ASSUME NEW j \in 1..Len(hashes)
                 PROVE  hashes[j] = Chunks(s)[kk + j]
      OBVIOUS
    <3>1. j + 1 \in 1..Len(job.hashes) /\ k + (j + 1) = kk + j
      BY <2>1, <2>4, <2>5, <1>4
    <3>2. job.hashes[j + 1] = Chunks(s)[k + (j + 1)]
      BY <3>1, <1>13
    <3>3. hashes[j] = job.hashes[j + 1]
      BY <2>1, <2>4
    <3> QED BY <3>1, <3>2, <3>3
  <2>7. /\ buffer \in Data
        /\ ~Short(Id(s)) => buffer = Chunks(s)[k + 1] /\ buffer # << >>
    <3> DEFINE i == k + 1
    <3>1. i \in 1..Len(Chunks(s)) /\ buffer = Load(disk, Chunks(s)[i])
      BY <2>1, <2>2, <2>3
    <3> HIDE DEF i
    <3>2. /\ Load(disk, Chunks(s)[i]) \in Data
          /\ ~Short(Id(s)) => Load(disk, Chunks(s)[i]) = Chunks(s)[i]
          /\ Chunks(s)[i] # << >>
      BY <3>1, <1>5, <1>13, LoadIs
    <3>3. buffer \in Data /\ (~Short(Id(s)) => buffer = Chunks(s)[i] /\ buffer # << >>)
      BY <3>1, <3>2
    <3> QED BY <3>3 DEF i
  <2>9. FirstChunks(s, (k + 1) - 1) \o Chunks(s)[k + 1] = FirstChunks(s, k + 1)
    BY <2>2, <1>4, FirstChunksStep
  <2>10. ~Short(Id(s)) => job.out = FirstChunks(s, k)
    BY <2>8, <1>13
  <2>11. hashes \in Seq(Data)
    BY <2>1, <2>4
  <2> QED BY <2>2, <2>3, <2>5, <2>6, <2>7, <2>9, <2>10, <2>11
<1>7. ASSUME ~next
      PROVE  /\ buffer \in Data /\ hashes \in Seq(Data) /\ kk = k
             /\ \A j \in 1..Len(hashes) : hashes[j] = Chunks(s)[kk + j]
             /\ ~Short(Id(s)) => job.out \o buffer = FirstChunks(s, kk)
             /\ buffer = << >> => job.hashes = << >> /\ job.buffer = << >>
  BY <1>2, <1>3, <1>7
<1>8. /\ buffer \in Data /\ hashes \in Seq(Data) /\ kk \in Nat
      /\ \A j \in 1..Len(hashes) : hashes[j] = Chunks(s)[kk + j]
      /\ ~Short(Id(s)) => job.out \o buffer = FirstChunks(s, kk)
  <2> HIDE DEF k, kk, buffer, hashes, next
  <2> QED BY <1>4, <1>6, <1>7
<1>9. buffer = << >> /\ ~Short(Id(s)) => ~next
  BY <1>6
<1> HIDE DEF hashes, buffer, next
<1>10. Len(buffer) \in Nat /\ m \in 0..Len(buffer) /\ (m = 0 => buffer = << >>)
  BY <1>5, <1>8, LenProperties, EmptySeq DEF Data
<1>11. CASE m = 0
  <2>1. job' = [op |-> "end", id |-> job.id, out |-> job.out]
    BY <1>1, <1>11
  <2>2. job' \in EndJobs
    BY <2>1, <1>3 DEF EndJobs
  <2>3. ~Short(Id(s)) => job.out = s
    <3>1. SUFFICES ASSUME ~Short(Id(s)) PROVE job.out = s
      OBVIOUS
    <3>2. job.hashes = << >> /\ job.buffer = << >>
      BY <3>1, <1>7, <1>9, <1>10, <1>11
    <3>3. k = Len(Chunks(s)) /\ job.out \o job.buffer = job.out
      BY <3>2, <1>3, <1>4, ConcatEmptySeq DEF Data
    <3>4. job.out \o job.buffer = FirstChunks(s, k)
      BY <3>1, <1>2
    <3>5. FirstChunks(s, Len(Chunks(s))) = s
      BY <1>4, FirstChunksEnds
    <3> HIDE DEF k
    <3> QED BY <3>3, <3>4, <3>5
  <2>4. Short(Id(s))' = Short(Id(s))
    BY <1>1 DEF Short
  <2>5. EndInv'
    BY <2>1, <2>3, <2>4, <1>1, <1>2 DEF EndInv
  <2> QED BY <2>2, <2>5, <1>1, JobInvCases, SameFiles DEF RepoInv
<1>12. CASE m # 0
  <2> DEFINE rest == SubSeq(buffer, m + 1, Len(buffer))
             out == job.out \o SubSeq(buffer, 1, m)
  <2>1. rest \in Data /\ out \in Data /\ out \o rest = job.out \o buffer
    BY <1>3, <1>8, <1>10, SplitRead
  <2>2. job' = [job EXCEPT !.hashes = hashes, !.buffer = rest, !.out = out]
    BY <1>1, <1>12
  <2> HIDE DEF rest, out
  <2>3. job' \in ReadJobs
    BY <2>1, <2>2, <1>1, <1>8 DEF ReadJobs
  <2>4. job'.hashes = hashes /\ job'.buffer = rest /\ job'.out = out /\ job'.id = Id(s)
    BY <2>2, <1>1, <1>2 DEF ReadJobs
  <2>5. Short(Id(s))' = Short(Id(s))
    BY <1>1 DEF Short
  <2>6. ReadInv'
    BY <2>1, <2>4, <2>5, <1>1, <1>2, <1>8 DEF ReadInv
  <2> QED BY <2>3, <2>6, <1>1, JobInvCases, SameFiles DEF RepoInv
<1> QED BY <1>11, <1>12

-----------------------------------------------------------------------------
(* Files *)

LEMMA ChunksAreChunks == \A c \in CommitFiles : ChunksOf(c) \subseteq ChunkFiles
<1> SUFFICES ASSUME NEW c \in CommitFiles, NEW i \in 1..Len(c.of)
             PROVE  ChunkFile(c.of[i]) \in ChunkFiles
  BY DEF ChunksOf
<1>1. c.of \in Seq(Data)
  BY DEF CommitFiles
<1>2. c.of[i] \in Data
  BY <1>1, ElementOfSeq
<1> QED BY <1>2 DEF ChunkFile, ChunkFiles

(* What is being stored: a chunk, or a commit whose chunks are there.      *)
LEMMA StoringFile ==
    ASSUME RepoInv, Storing
    PROVE  LET f == Head(job.todo)
           IN  /\ f \in FileNames
               /\ \/ f \in ChunkFiles
                  \/ f \in CommitFiles /\ ChunksOf(f) \subseteq DOMAIN disk
               /\ job \in StoreJobs \/ job \in SerialiseJobs
<1>1. JobInv /\ job.todo # << >>
  BY DEF RepoInv, Storing
<1>2. CASE job.op = "store"
  <2>1. job \in StoreJobs /\ job.state \in States /\ job.todo \in Seq(FileNames)
    BY <1>1, <1>2, JobShapes DEF JobInv, StoreJobs
  <2>2. LastFiles(job.todo, job.state) /\ FirstFiles(job.todo, job.state) \subseteq DOMAIN disk
    BY <1>1, <1>2 DEF JobInv, StoreInv
  <2>3. Id(job.state) \in CommitFiles
    BY <2>1, StateFacts
  <2> QED BY <2>1, <2>2, <2>3, NextFile
<1>3. CASE job.op = "serialise"
  <2>1. job \in SerialiseJobs /\ job.hashes \in Seq(Data)
    BY <1>1, <1>3, JobShapes DEF JobInv, SerialiseJobs
  <2> DEFINE k == Len(job.hashes)
  <2>2. k > 0 /\ job.todo = <<ChunkFile(job.hashes[k])>>
    BY <1>1, <1>3 DEF JobInv, SerialiseInv
  <2>3. k \in Nat
    BY <2>1, LenProperties
  <2>4. job.hashes[k] \in Data
    BY <2>1, <2>2, <2>3, ElementOfSeq
  <2>5. Head(job.todo) = ChunkFile(job.hashes[k])
    BY <2>2
  <2> HIDE DEF k
  <2>6. Head(job.todo) \in ChunkFiles
    BY <2>4, <2>5 DEF ChunkFile, ChunkFiles
  <2> QED BY <2>1, <2>6 DEF FileNames
<1> QED BY <1>2, <1>3 DEF Storing

LEMMA StoredInv ==
    ASSUME RepoInv, Storing, Head(job.todo) \in DOMAIN disk, Stored(job),
           UNCHANGED <<disk, snap>>
    PROVE  RepoInv'
<1>1. JobInv /\ job.todo # << >>
  BY DEF RepoInv, Storing
<1>2. CASE job.op = "store"
  <2>1. job \in StoreJobs /\ job.state \in States /\ job.todo \in Seq(FileNames)
    BY <1>1, <1>2, JobShapes DEF JobInv, StoreJobs
  <2>2. LastFiles(job.todo, job.state) /\ FirstFiles(job.todo, job.state) \subseteq DOMAIN disk
    BY <1>1, <1>2 DEF JobInv, StoreInv
  <2>3. CASE Len(job.todo) = 1
    <3>1. job' = Idle /\ returned' = returned \cup {[state |-> job.state, id |-> Head(job.todo)]}
      BY <1>2, <2>3 DEF Stored
    <3>2. Head(job.todo) = Id(job.state) /\ Id(job.state) \in CommitFiles
      BY <2>1, <2>2, <2>3, NextFile, StateFacts
    <3>3. returned' \subseteq [state : States, id : CommitFiles]
      BY <2>1, <3>1, <3>2 DEF RepoInv, FilesInv, FilesType
    <3>4. ReturnedInv'
      BY <3>1, <3>2 DEF RepoInv, FilesInv, ReturnedInv
    <3>5. FilesInv'
      BY <3>3, <3>4 DEF RepoInv, FilesInv, FilesType, DiskInv, SnapInv
    <3> QED BY <3>1, <3>5, IdleInv DEF RepoInv
  <2>4. CASE Len(job.todo) # 1
    <3> DEFINE todo == Tail(job.todo)
    <3>1. job' = [job EXCEPT !.todo = todo, !.writing = FALSE] /\ UNCHANGED returned
      BY <2>4 DEF Stored
    <3>2. /\ todo \in Seq(FileNames) /\ LastFiles(todo, job.state)
          /\ FirstFiles(todo, job.state)
               = FirstFiles(job.todo, job.state) \cup {Head(job.todo)}
      BY <2>1, <2>2, <2>4, NextFile
    <3> HIDE DEF todo
    <3>3. job' \in StoreJobs
      BY <2>1, <3>1, <3>2 DEF StoreJobs
    <3>4. job'.todo = todo /\ job'.state = job.state /\ ~job'.writing
      BY <2>1, <3>1 DEF StoreJobs
    <3>5. WritingInv' /\ StoreInv'
      BY <2>2, <3>2, <3>4 DEF WritingInv, StoreInv
    <3> QED BY <3>1, <3>3, <3>5, JobInvCases, SameFiles DEF RepoInv
  <2> QED BY <2>3, <2>4
<1>3. CASE job.op = "serialise"
  <2>1. job \in SerialiseJobs /\ job.hashes \in Seq(Data)
    BY <1>1, <1>3, JobShapes DEF JobInv, SerialiseJobs
  <2>2. SerialiseInv
    BY <1>1 DEF JobInv
  <2> DEFINE k == Len(job.hashes)
  <2>3. k \in Nat /\ k > 0 /\ job.todo = <<ChunkFile(job.hashes[k])>>
    BY <1>1, <1>3, <2>1, <2>2, LenProperties DEF SerialiseInv
  <2>4. Head(job.todo) = ChunkFile(job.hashes[k]) /\ Tail(job.todo) = << >>
    BY <2>3
  <2>5. job' = [job EXCEPT !.todo = << >>, !.writing = FALSE] /\ UNCHANGED returned
    BY <1>3, <2>4 DEF Stored
  <2>6. job' \in SerialiseJobs
    <3>1. << >> \in Seq(FileNames)
      OBVIOUS
    <3> QED BY <3>1, <2>1, <2>5 DEF SerialiseJobs
  <2>7. /\ job'.todo = << >> /\ ~job'.writing /\ job'.state = job.state
        /\ job'.rest = job.rest /\ job'.buffer = job.buffer /\ job'.hashes = job.hashes
    BY <2>1, <2>5 DEF SerialiseJobs
  <2>8. \A i \in 1..k : ChunkFile(job.hashes[i]) \in DOMAIN disk
    BY <1>3, <2>2, <2>4 DEF SerialiseInv
  <2>9. Taken(job') = Taken(job)
    BY <2>7 DEF Taken
  <2>10. SerialiseInv'
    BY <1>3, <2>2, <2>7, <2>8, <2>9 DEF SerialiseInv
  <2>11. WritingInv'
    BY <2>7 DEF WritingInv
  <2> QED BY <2>5, <2>6, <2>10, <2>11, JobInvCases, SameFiles DEF RepoInv
<1> QED BY <1>2, <1>3 DEF Storing

(* What is stored stays when files are added. *)
LEMMA StoringStays ==
    ASSUME RepoInv, Storing, DOMAIN disk \subseteq DOMAIN disk',
           job' = job \/ job' = [job EXCEPT !.writing = TRUE]
    PROVE  /\ job'.todo = job.todo
           /\ \/ job' \in StoreJobs /\ StoreInv'
              \/ job' \in SerialiseJobs /\ SerialiseInv'
<1>1. JobInv /\ job.todo # << >>
  BY DEF RepoInv, Storing
<1>2. CASE job.op = "store"
  <2>1. job \in StoreJobs
    BY <1>1, <1>2, JobShapes DEF JobInv
  <2>2. job' \in StoreJobs /\ job'.todo = job.todo /\ job'.state = job.state
    BY <2>1 DEF StoreJobs
  <2>3. StoreInv'
    BY <1>1, <1>2, <2>2 DEF JobInv, StoreInv
  <2> QED BY <2>2, <2>3
<1>3. CASE job.op = "serialise"
  <2>1. job \in SerialiseJobs /\ SerialiseInv
    BY <1>1, <1>3, JobShapes DEF JobInv
  <2>2. /\ job' \in SerialiseJobs /\ job'.todo = job.todo /\ job'.state = job.state
        /\ job'.rest = job.rest /\ job'.buffer = job.buffer /\ job'.hashes = job.hashes
    BY <2>1 DEF SerialiseJobs
  <2>3. Taken(job') = Taken(job)
    BY <2>2 DEF Taken
  <2>4. SerialiseInv'
    BY <1>1, <1>3, <2>1, <2>2, <2>3 DEF SerialiseInv
  <2> QED BY <2>2, <2>4
<1> QED BY <1>2, <1>3 DEF Storing

LEMMA FileExistsInv ==
    ASSUME RepoInv, FileExists
    PROVE  RepoInv'
BY StoredInv DEF FileExists, Exists

LEMMA CreateFileInv ==
    ASSUME RepoInv, CreateFile
    PROVE  RepoInv'
<1> DEFINE f == Head(job.todo)
<1>1. /\ Storing /\ f \notin DOMAIN disk /\ disk' = Written(disk, f, 0)
      /\ job' = [job EXCEPT !.writing = TRUE] /\ UNCHANGED <<snap, returned>>
      /\ FilesInv
  BY DEF CreateFile, Exists, RepoInv
<1>2. /\ f \in FileNames
      /\ f \in ChunkFiles \/ (f \in CommitFiles /\ ChunksOf(f) \subseteq DOMAIN disk)
  BY <1>1, StoringFile
<1>3. job'.todo = job.todo
      /\ ((job' \in StoreJobs /\ StoreInv') \/ (job' \in SerialiseJobs /\ SerialiseInv'))
  <2>1. DOMAIN disk \subseteq DOMAIN disk'
    BY <1>1 DEF Written
  <2> QED BY <2>1, <1>1, StoringStays
<1> HIDE DEF f
<1>4. /\ DOMAIN disk' = DOMAIN disk \cup {f} /\ disk'[f] = 0
      /\ \A g \in DOMAIN disk : disk'[g] = disk[g]
  BY <1>1 DEF Written
<1>5. FilesType'
  BY <1>1, <1>2, <1>4, Sizes DEF FilesInv, FilesType
<1>6. DiskInv'
  <2> SUFFICES ASSUME NEW c \in DOMAIN disk', c \in CommitFiles
               PROVE  ChunksOf(c) \subseteq DOMAIN disk'
    BY DEF DiskInv
  <2>1. CASE c = f
    BY <2>1, <1>2, <1>4, KindsDiffer
  <2>2. CASE c # f
    BY <2>2, <1>1, <1>4 DEF FilesInv, DiskInv
  <2> QED BY <2>1, <2>2
<1>7. ReturnedInv'
  BY <1>1, <1>4 DEF FilesInv, ReturnedInv
<1>8. SnapInv'
  BY <1>1, <1>4 DEF FilesInv, FilesType, SnapInv
<1>9. WritingInv'
  <2>1. f \notin DOMAIN snap'
    BY <1>1 DEF FilesInv, FilesType
  <2>2. ASSUME NEW c \in DOMAIN disk', c \in CommitFiles
        PROVE  f \notin ChunksOf(c)
    <3>1. CASE c = f
      BY <3>1, <2>2, ChunksAreChunks, KindsDiffer
    <3>2. CASE c # f
      BY <3>2, <2>2, <1>1, <1>4 DEF FilesInv, DiskInv
    <3> QED BY <3>1, <3>2
  <2>3. Head(job'.todo) = f
    BY <1>3 DEF f
  <2> QED BY <2>1, <2>2, <2>3, <1>4 DEF WritingInv
<1> QED BY <1>3, <1>5, <1>6, <1>7, <1>8, <1>9, JobInvCases DEF RepoInv, FilesInv

LEMMA WriteFileInv ==
    ASSUME RepoInv, WriteFile
    PROVE  RepoInv'
<1> DEFINE f == Head(job.todo)
<1>1. /\ Storing /\ job.writing /\ UNCHANGED snap
      /\ IF disk[f] < Size(f)
         THEN disk' = Written(disk, f, disk[f] + 1) /\ UNCHANGED <<job, returned>>
         ELSE Stored(job) /\ UNCHANGED disk
  BY DEF WriteFile
<1>2. /\ f \in DOMAIN disk /\ f \notin DOMAIN snap
      /\ \A c \in DOMAIN disk \cap CommitFiles : f \notin ChunksOf(c)
  BY <1>1 DEF RepoInv, JobInv, WritingInv
<1>3. CASE ~(disk[f] < Size(f))
  BY <1>1, <1>2, <1>3, StoredInv
<1>4. CASE disk[f] < Size(f)
  <2>1. disk' = Written(disk, f, disk[f] + 1) /\ UNCHANGED <<snap, job, returned>> /\ FilesInv
    BY <1>1, <1>4 DEF RepoInv
  <2>2. f \in FileNames
    BY <1>1, StoringFile
  <2> HIDE DEF f
  <2>3. /\ DOMAIN disk' = DOMAIN disk /\ disk'[f] = disk[f] + 1
        /\ \A g \in DOMAIN disk : g # f => disk'[g] = disk[g]
    BY <2>1, <1>2 DEF Written
  <2>4. disk'[f] \in 0..Size(f)
    BY <2>1, <2>2, <2>3, <1>2, <1>4, Sizes DEF FilesInv, FilesType
  <2>5. FilesType'
    BY <2>1, <2>3, <2>4, <1>2 DEF FilesInv, FilesType
  <2>6. DiskInv' /\ ReturnedInv'
    BY <2>1, <2>3 DEF FilesInv, DiskInv, ReturnedInv
  <2>7. SnapInv'
    BY <2>1, <2>3, <1>2 DEF FilesInv, FilesType, SnapInv
  <2>8. WritingInv'
    BY <2>1, <2>3, <1>2 DEF WritingInv, f
  <2>9. (job' \in StoreJobs /\ StoreInv') \/ (job' \in SerialiseJobs /\ SerialiseInv')
    BY <2>1, <2>3, <1>1, StoringStays
  <2> QED BY <2>5, <2>6, <2>7, <2>8, <2>9, JobInvCases DEF RepoInv, FilesInv
<1> QED BY <1>3, <1>4

(* The file that an export is at. *)
LEMMA ExportFile ==
    ASSUME RepoInv, job.op = "export"
    PROVE  \E s \in States :
             /\ job \in ExportJobs /\ job.todo \in Seq(FileNames)
             /\ job.id = Id(s) /\ LastFiles(job.todo, s)
             /\ \A g \in FirstFiles(job.todo, s) :
                   /\ g \in DOMAIN snap
                   /\ snap[g] = disk[g] \/ (job.copying /\ g = Head(job.todo))
             /\ job.copying => Head(job.todo) \in DOMAIN snap
             /\ DOMAIN snap \cap CommitFiles # {} => Len(job.todo) = 1
             /\ Head(job.todo) \in FileNames
             /\ Len(job.todo) = 1 => /\ Head(job.todo) \in CommitFiles
                                     /\ FirstFiles(job.todo, s) = ChunksOf(Head(job.todo))
             /\ Len(job.todo) # 1 => Head(job.todo) \in ChunkFiles
<1>1. job \in ExportJobs /\ job.todo \in Seq(FileNames) /\ ExportInv
  BY JobShapes DEF RepoInv, JobInv, ExportJobs
<1>2. PICK s \in States :
            /\ job.id = Id(s)
            /\ LastFiles(job.todo, s)
            /\ \A f \in FirstFiles(job.todo, s) :
                  /\ f \in DOMAIN snap
                  /\ snap[f] = disk[f] \/ (job.copying /\ f = Head(job.todo))
            /\ job.copying => Head(job.todo) \in DOMAIN snap
            /\ DOMAIN snap \cap CommitFiles # {} => Len(job.todo) = 1
  BY <1>1 DEF ExportInv
<1>3. Id(s) \in CommitFiles
  BY StateFacts
<1> QED BY <1>1, <1>2, <1>3, NextFile

LEMMA StartCopyInv ==
    ASSUME RepoInv, StartCopy
    PROVE  RepoInv'
<1> DEFINE f == Head(job.todo)
<1>1. /\ job.op = "export" /\ ~job.copying /\ f \in DOMAIN disk
      /\ snap' = Written(snap, f, 0) /\ job' = [job EXCEPT !.copying = TRUE]
      /\ UNCHANGED <<disk, returned>> /\ FilesInv
  BY DEF StartCopy, Exists, RepoInv
<1>2. PICK s \in States :
             /\ job \in ExportJobs /\ job.todo \in Seq(FileNames)
             /\ job.id = Id(s) /\ LastFiles(job.todo, s)
             /\ \A g \in FirstFiles(job.todo, s) :
                   /\ g \in DOMAIN snap
                   /\ snap[g] = disk[g] \/ (job.copying /\ g = Head(job.todo))
             /\ job.copying => Head(job.todo) \in DOMAIN snap
             /\ DOMAIN snap \cap CommitFiles # {} => Len(job.todo) = 1
             /\ Head(job.todo) \in FileNames
             /\ Len(job.todo) = 1 => /\ Head(job.todo) \in CommitFiles
                                     /\ FirstFiles(job.todo, s) = ChunksOf(Head(job.todo))
             /\ Len(job.todo) # 1 => Head(job.todo) \in ChunkFiles
  BY <1>1, ExportFile
<1>3. /\ job' \in ExportJobs /\ job'.todo = job.todo /\ job'.id = Id(s) /\ job'.copying
  BY <1>1, <1>2 DEF ExportJobs
<1> HIDE DEF f
<1>4. /\ DOMAIN snap' = DOMAIN snap \cup {f} /\ snap'[f] = 0
      /\ \A g \in DOMAIN snap : g # f => snap'[g] = snap[g]
  BY <1>1 DEF Written
<1>5. FilesType'
  <2>1. \A g \in DOMAIN snap' : snap'[g] \in 0..disk'[g]
    <3> SUFFICES ASSUME NEW g \in DOMAIN snap' PROVE snap'[g] \in 0..disk'[g]
      OBVIOUS
    <3>1. CASE g = f
      <4>1. disk[f] \in 0..Size(f) /\ Size(f) \in Nat
        BY <1>1, Sizes DEF FilesInv, FilesType
      <4> QED BY <3>1, <4>1, <1>1, <1>4
    <3>2. CASE g # f
      BY <3>2, <1>1, <1>4 DEF FilesInv, FilesType
    <3> QED BY <3>1, <3>2
  <2> QED BY <2>1, <1>1, <1>4 DEF FilesInv, FilesType
<1>6. DiskInv' /\ ReturnedInv'
  BY <1>1 DEF FilesInv, DiskInv, ReturnedInv
<1>7. SnapInv'
  <2> SUFFICES ASSUME NEW c \in DOMAIN snap', c \in CommitFiles, NEW g \in ChunksOf(c)
               PROVE  g \in DOMAIN snap' /\ snap'[g] = disk'[g]
    BY DEF SnapInv
  <2>1. g \in ChunkFiles
    BY ChunksAreChunks
  <2>2. Len(job.todo) = 1 /\ f \in CommitFiles /\ FirstFiles(job.todo, s) = ChunksOf(f)
    <3>1. CASE c = f
      BY <3>1, <1>2, KindsDiffer DEF f
    <3>2. CASE c # f
      BY <3>2, <1>2, <1>4 DEF f
    <3> QED BY <3>1, <3>2
  <2>3. g # f
    BY <2>1, <2>2, KindsDiffer
  <2>4. g \in DOMAIN snap /\ snap[g] = disk[g]
    <3>1. CASE c = f
      BY <3>1, <2>2, <2>3, <1>2 DEF f
    <3>2. CASE c # f
      BY <3>2, <1>1, <1>4 DEF FilesInv, SnapInv
    <3> QED BY <3>1, <3>2
  <2> QED BY <2>3, <2>4, <1>1, <1>4
<1>8. ExportInv'
  <2>1. \A g \in FirstFiles(job.todo, s) :
            /\ g \in DOMAIN snap'
            /\ snap'[g] = disk'[g] \/ (job'.copying /\ g = Head(job'.todo))
    BY <1>1, <1>2, <1>3, <1>4 DEF f
  <2>2. Head(job'.todo) \in DOMAIN snap'
    BY <1>3, <1>4 DEF f
  <2>3. DOMAIN snap' \cap CommitFiles # {} => Len(job'.todo) = 1
    BY <1>2, <1>3, <1>4, KindsDiffer DEF f
  <2> QED BY <2>1, <2>2, <2>3, <1>2, <1>3 DEF ExportInv
<1> QED BY <1>3, <1>5, <1>6, <1>7, <1>8, JobInvCases DEF RepoInv, FilesInv

LEMMA CopyInv ==
    ASSUME RepoInv, Copy
    PROVE  RepoInv'
<1> DEFINE f == Head(job.todo)
<1>1. /\ job.op = "export" /\ job.copying /\ UNCHANGED <<disk, returned>> /\ FilesInv
      /\ IF snap[f] < disk[f]
         THEN snap' = Written(snap, f, snap[f] + 1) /\ UNCHANGED job
         ELSE /\ job' = IF Len(job.todo) = 1 THEN Idle
                        ELSE [job EXCEPT !.todo = Tail(@), !.copying = FALSE]
              /\ UNCHANGED snap
  BY DEF Copy, RepoInv
<1>2. PICK s \in States :
             /\ job \in ExportJobs /\ job.todo \in Seq(FileNames)
             /\ job.id = Id(s) /\ LastFiles(job.todo, s)
             /\ \A g \in FirstFiles(job.todo, s) :
                   /\ g \in DOMAIN snap
                   /\ snap[g] = disk[g] \/ (job.copying /\ g = Head(job.todo))
             /\ job.copying => Head(job.todo) \in DOMAIN snap
             /\ DOMAIN snap \cap CommitFiles # {} => Len(job.todo) = 1
             /\ Head(job.todo) \in FileNames
             /\ Len(job.todo) = 1 => /\ Head(job.todo) \in CommitFiles
                                     /\ FirstFiles(job.todo, s) = ChunksOf(Head(job.todo))
             /\ Len(job.todo) # 1 => Head(job.todo) \in ChunkFiles
  BY <1>1, ExportFile
<1>3. f \in DOMAIN snap /\ f \in DOMAIN disk /\ snap[f] \in 0..disk[f] /\ disk[f] \in Nat
  BY <1>1, <1>2, Sizes DEF FilesInv, FilesType
<1>4. CASE snap[f] < disk[f]
  <2>1. snap' = Written(snap, f, snap[f] + 1) /\ UNCHANGED job
    BY <1>1, <1>4
  <2> HIDE DEF f
  <2>2. /\ DOMAIN snap' = DOMAIN snap /\ snap'[f] = snap[f] + 1
        /\ \A g \in DOMAIN snap : g # f => snap'[g] = snap[g]
    BY <2>1, <1>3 DEF Written
  <2>3. FilesType'
    BY <2>2, <1>1, <1>3, <1>4 DEF FilesInv, FilesType
  <2>4. DiskInv' /\ ReturnedInv'
    BY <1>1 DEF FilesInv, DiskInv, ReturnedInv
  <2>5. SnapInv'
    <3> SUFFICES ASSUME NEW c \in DOMAIN snap', c \in CommitFiles, NEW g \in ChunksOf(c)
                 PROVE  g \in DOMAIN snap' /\ snap'[g] = disk'[g]
      BY DEF SnapInv
    <3>1. g \in ChunkFiles
      BY ChunksAreChunks
    <3>2. f \in CommitFiles
      BY <1>2, <2>2 DEF f
    <3>3. g # f
      BY <3>1, <3>2, KindsDiffer
    <3>4. g \in DOMAIN snap /\ snap[g] = disk[g]
      BY <2>2, <1>1 DEF FilesInv, SnapInv
    <3> QED BY <3>3, <3>4, <2>2, <1>1
  <2>6. ExportInv'
    <3>1. \A g \in FirstFiles(job.todo, s) :
              /\ g \in DOMAIN snap'
              /\ snap'[g] = disk'[g] \/ (job'.copying /\ g = Head(job'.todo))
      BY <2>1, <2>2, <1>1, <1>2 DEF f
    <3> QED BY <3>1, <2>1, <2>2, <1>2 DEF ExportInv
  <2>7. job' \in ExportJobs
    BY <2>1, <1>2
  <2> QED BY <2>3, <2>4, <2>5, <2>6, <2>7, JobInvCases DEF RepoInv, FilesInv
<1>5. CASE ~(snap[f] < disk[f])
  <2>1. snap[f] = disk[f] /\ UNCHANGED snap
    BY <1>1, <1>3, <1>5
  <2>2. FilesInv'
    BY <2>1, <1>1, SameFiles
  <2>3. CASE Len(job.todo) = 1
    BY <2>2, <2>3, <1>1, <1>5, IdleInv DEF RepoInv
  <2>4. CASE Len(job.todo) # 1
    <3> DEFINE todo == Tail(job.todo)
    <3>1. job' = [job EXCEPT !.todo = todo, !.copying = FALSE]
      BY <2>4, <1>1, <1>5
    <3>2. /\ todo \in Seq(FileNames) /\ LastFiles(todo, s)
          /\ FirstFiles(todo, s) = FirstFiles(job.todo, s) \cup {f}
      BY <2>4, <1>2, NextFile
    <3> HIDE DEF todo
    <3>3. job' \in ExportJobs /\ job'.todo = todo /\ job'.id = Id(s) /\ ~job'.copying
      BY <3>1, <3>2, <1>2 DEF ExportJobs
    <3>4. \A g \in FirstFiles(todo, s) : g \in DOMAIN snap' /\ snap'[g] = disk'[g]
      BY <3>2, <2>1, <1>1, <1>2, <1>3
    <3>5. ExportInv'
      BY <3>2, <3>3, <3>4, <2>1, <2>4, <1>2 DEF ExportInv
    <3> QED BY <3>3, <3>5, <2>2, JobInvCases DEF RepoInv
  <2> QED BY <2>3, <2>4
<1> QED BY <1>4, <1>5

LEMMA NewDirectoryInv ==
    ASSUME RepoInv, NewDirectory
    PROVE  RepoInv'
<1>1. job' = Idle /\ DOMAIN snap' = {} /\ UNCHANGED <<disk, returned>> /\ FilesInv
  BY DEF NewDirectory, RepoInv
<1>2. FilesInv'
  BY <1>1 DEF FilesInv, FilesType, DiskInv, ReturnedInv, SnapInv
<1> QED BY <1>1, <1>2, IdleInv DEF RepoInv

LEMMA NextInv == RepoInv /\ [Next]_vars => RepoInv'
<1> SUFFICES ASSUME RepoInv, [Next]_vars PROVE RepoInv'
  OBVIOUS
<1>1. CASE \E s \in States :
              Commit(s) \/ CommitSerialised(s) \/ CheckoutSerialised(Id(s)) \/ Export(Id(s))
  BY <1>1, CommitInv, CommitSerialisedInv, CheckoutSerialisedInv, ExportInvStep
<1>2. CASE \E n \in 1..CHUNK_SIZE : Write(n)
  BY <1>2, WriteInv
<1>3. CASE \E n \in 1..(CHUNK_SIZE + 1) : Read(n)
  BY <1>3, ReadStep
<1>4. CASE Deserialised \/ Fail
  BY <1>4, IdleStep
<1>5. CASE Finalise
  BY <1>5, FinaliseInv
<1>6. CASE FileExists
  BY <1>6, FileExistsInv
<1>7. CASE CreateFile
  BY <1>7, CreateFileInv
<1>8. CASE WriteFile
  BY <1>8, WriteFileInv
<1>9. CASE StartCopy
  BY <1>9, StartCopyInv
<1>10. CASE Copy
  BY <1>10, CopyInv
<1>11. CASE NewDirectory
  BY <1>11, NewDirectoryInv
<1>12. CASE UNCHANGED vars
  <2>1. UNCHANGED disk /\ UNCHANGED snap /\ UNCHANGED job /\ UNCHANGED returned
    BY <1>12 DEF vars
  <2>2. FilesInv'
    BY <2>1, SameFiles DEF RepoInv
  <2>3. \A id : Short(id)' = Short(id)
    BY <2>1 DEF Short
  <2>4. JobInv'
    BY <2>1, <2>3 DEF RepoInv, JobInv, WritingInv, Storing, StoreInv, SerialiseInv, ExportInv,
                      ReadInv, EndInv
  <2> QED BY <2>2, <2>4 DEF RepoInv
<1> QED BY <1>1, <1>2, <1>3, <1>4, <1>5, <1>6, <1>7, <1>8, <1>9, <1>10, <1>11, <1>12 DEF Next

-----------------------------------------------------------------------------
(* The invariant of the repository, for every chunk size and every set of  *)
(* states: RepoInv holds in every state of every behaviour of storage.rs,  *)
(* with writes that fail and crashes anywhere.                             *)
THEOREM RepoInvariant == Spec => []RepoInv
BY InitInv, NextInv, PTL DEF Spec

(* Repo::commit and commit_serialised keep what they returned an id for:   *)
(* it checks out as it was given, whatever its length and however its      *)
(* writes were split, unless a failure left one of its files short.        *)
THEOREM CommittedStatesCheckOut == Spec => []CommittedChecksOut
<1>1. RepoInv => CommittedChecksOut
  BY InvCommittedChecksOut DEF RepoInv
<1> QED BY <1>1, RepoInvariant, PTL

(* A commit is stored after its chunks, and copied after them: checkout    *)
(* never fails with ChunkNotFound, in the repository or in a snapshot.     *)
THEOREM NoChunkIsMissing == Spec => []NoChunkMissing
<1>1. RepoInv => NoChunkMissing
  BY InvNoChunkMissing DEF RepoInv
<1> QED BY <1>1, RepoInvariant, PTL

(* ChunkedReader gives the bytes of Repo::checkout, all of them and in     *)
(* their order, for reads of any sizes.                                    *)
THEOREM ReaderIsCheckout == Spec => []ReaderAgrees
<1>1. RepoInv => ReaderAgrees
  BY InvReaderAgrees
<1> QED BY <1>1, RepoInvariant, PTL

(* export_snapshot: a snapshot with a complete commit checks out as the    *)
(* repository does, although the same chunk may be copied over itself.     *)
THEOREM SnapshotsAreFaithful == Spec => []SnapshotFaithful
<1>1. RepoInv => SnapshotFaithful
  BY InvSnapshotFaithful DEF RepoInv
<1> QED BY <1>1, RepoInvariant, PTL

LEMMA DiskChanges == [Next]_vars => UNCHANGED disk \/ CreateFile \/ WriteFile
BY DEF Next, vars, Commit, CommitSerialised, CheckoutSerialised, Export, Write, Read,
       Deserialised, Finalise, FileExists, Fail, StartCopy, Copy, NewDirectory

LEMMA StayStep ==
    ASSUME RepoInv, [Next]_vars, NEW s \in States, Checkout(disk, Id(s)) = Outcome("Ok", s)
    PROVE  Checkout(disk', Id(s)) = Outcome("Ok", s)
<1> DEFINE f == Head(job.todo)
<1>0. FilesInv
  BY DEF RepoInv
<1>1. CASE UNCHANGED disk
  BY <1>1
<1>2. CASE CreateFile
  <2>1. f \notin DOMAIN disk /\ disk' = Written(disk, f, 0)
    BY <1>2 DEF CreateFile, Exists
  <2> HIDE DEF f
  <2>2. \A g \in DOMAIN disk : g \in DOMAIN disk' /\ disk'[g] = disk[g]
    BY <2>1 DEF Written
  <2>3. Id(s) \in DOMAIN disk => ChunksOf(Id(s)) \subseteq DOMAIN disk
    BY <1>0, StateFacts DEF FilesInv, DiskInv
  <2> QED BY <2>2, <2>3, <1>0, InvCommitsStay
<1>3. CASE WriteFile
  <2>1. /\ disk[f] < Size(f) => disk' = Written(disk, f, disk[f] + 1)
        /\ ~(disk[f] < Size(f)) => UNCHANGED disk
        /\ f \in DOMAIN disk /\ \A c \in DOMAIN disk \cap CommitFiles : f \notin ChunksOf(c)
    BY <1>3 DEF WriteFile, RepoInv, JobInv, WritingInv
  <2> HIDE DEF f
  <2>2. CASE disk[f] < Size(f) /\ f = Id(s)
    <3>1. Checkout(disk, Id(s)) = Outcome("SerializationError", << >>)
      BY <2>1, <2>2 DEF Checkout, Exists
    <3> QED BY <3>1 DEF Outcome
  <2>3. CASE disk[f] < Size(f) /\ f # Id(s)
    <3>1. \A g \in DOMAIN disk : g # f => g \in DOMAIN disk' /\ disk'[g] = disk[g]
      BY <2>1, <2>3 DEF Written
    <3>2. Id(s) \in DOMAIN disk => /\ ChunksOf(Id(s)) \subseteq DOMAIN disk
                                   /\ f \notin ChunksOf(Id(s))
      BY <1>0, <2>1, StateFacts DEF FilesInv, DiskInv
    <3> QED BY <2>3, <3>1, <3>2, <1>0, InvCommitsStay
  <2> QED BY <2>1, <2>2, <2>3
<1> QED BY <1>1, <1>2, <1>3, DiskChanges

(* No later commit, failed write or crash damages a commit that could be   *)
(* checked out, although commits share chunks: write_data_if_new leaves a  *)
(* file that exists as it is.                                              *)
THEOREM EarlierCommitsStay == Spec => CommitsStay
<1>1. RepoInv /\ [Next]_vars
        => [\A s \in States : Checkout(disk, Id(s)) = Outcome("Ok", s)
                                => Checkout(disk', Id(s)) = Outcome("Ok", s)]_vars
  BY StayStep
<1> QED BY <1>1, RepoInvariant, PTL DEF Spec, CommitsStay
=============================================================================
