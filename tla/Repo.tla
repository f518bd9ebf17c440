-------------------------------- MODULE Repo --------------------------------
(***************************************************************************)
(* The content-addressed repository (storage.rs, storage/chunked_io.rs)    *)
(* that PVM states are committed to, checked out from and exported to      *)
(* snapshots.  A hash is taken to be free of collisions: a file is named   *)
(* by the data it is meant to hold, a chunk of bytes or a commit, the list *)
(* of the hashes of its chunks.                                            *)
(*                                                                         *)
(* A file is written piece by piece after it has been created; a write may *)
(* fail and the process may crash at any moment.                           *)
(* One process uses the repository; commit, commit_serialised and          *)
(* export_snapshot are sequences of steps, reading is one step.            *)
(***************************************************************************)
EXTENDS Integers, Sequences

CONSTANTS
    CHUNK_SIZE,
    BYTES,        \* the values of a byte
    States        \* byte sequences that are committed

ASSUME RepoAssumption == CHUNK_SIZE \in Nat \ {0} /\ States \subseteq Seq(BYTES)

VARIABLES
    disk,         \* the repository: how much of each file is written
    snap,         \* the directory of the snapshot, likewise
    job,          \* the operation in progress
    returned      \* states for which a commit has returned its id

vars == <<disk, snap, job, returned>>

(* bytes.chunks(CHUNK_SIZE) *)
Chunks(bytes) ==
    [i \in 1..((Len(bytes) + CHUNK_SIZE - 1) \div CHUNK_SIZE) |->
        SubSeq(bytes, (i - 1) * CHUNK_SIZE + 1,
               IF i * CHUNK_SIZE < Len(bytes) THEN i * CHUNK_SIZE ELSE Len(bytes))]

(* Names of files: the hash of a chunk, and of a serialised commit.  The   *)
(* latter starts with the number of hashes.                                *)
ChunkFile(bytes) == [kind |-> "chunk", of |-> bytes]
CommitFile(hashes) == [kind |-> "commit", of |-> hashes]
Size(file) == IF file.kind = "chunk" THEN Len(file.of) ELSE Len(file.of) + 1

Id(bytes) == CommitFile(Chunks(bytes))

Exists(dir, file) == file \in DOMAIN dir
Written(dir, file, n) == [f \in DOMAIN dir \cup {file} |-> IF f = file THEN n ELSE dir[f]]

(* Store::load and checkout.  A commit that was not written to its end     *)
(* does not deserialise; a chunk is whatever the file holds.               *)
Load(dir, hash) == SubSeq(hash, 1, dir[ChunkFile(hash)])

(* Sequences one after the other. *)
Concatenated(seqs) ==
    LET upto[i \in 0..Len(seqs)] == IF i = 0 THEN << >> ELSE upto[i - 1] \o seqs[i]
    IN  upto[Len(seqs)]

Outcome(result, bytes) == [result |-> result, bytes |-> bytes]

Checkout(dir, id) ==
    IF ~Exists(dir, id) THEN Outcome("NotFound", << >>)
    ELSE IF dir[id] < Size(id) THEN Outcome("SerializationError", << >>)
    ELSE IF \E i \in 1..Len(id.of) : ~Exists(dir, ChunkFile(id.of[i]))
         THEN Outcome("ChunkNotFound", << >>)
    ELSE Outcome("Ok", Concatenated([i \in 1..Len(id.of) |-> Load(dir, id.of[i])]))

Idle == [op |-> "none"]

Init ==
    /\ disk = << >>
    /\ snap = << >>
    /\ job = Idle
    /\ returned = {}

-----------------------------------------------------------------------------
(* Mutant: the commit is stored before its chunks *)
CommitBeforeChunks(bytes) ==
    /\ job = Idle
    /\ job' = [op |-> "store", state |-> bytes, writing |-> FALSE,
               todo |-> <<Id(bytes)>> \o
                        [i \in 1..Len(Chunks(bytes)) |-> ChunkFile(Chunks(bytes)[i])]]
    /\ UNCHANGED <<disk, snap, returned>>

(* commit: store every chunk, then the commit. *)
Commit(bytes) ==
    /\ job = Idle
    /\ job' = [op |-> "store", state |-> bytes, writing |-> FALSE,
               todo |-> [i \in 1..Len(Chunks(bytes)) |-> ChunkFile(Chunks(bytes)[i])]
                          \o <<Id(bytes)>>]
    /\ UNCHANGED <<disk, snap, returned>>

(* commit_serialised: the serialiser writes the state to a ChunkWriter in  *)
(* pieces of any size.                                                     *)
CommitSerialised(bytes) ==
    /\ job = Idle
    /\ job' = [op |-> "serialise", state |-> bytes, rest |-> bytes,
               buffer |-> << >>, hashes |-> << >>, writing |-> FALSE, todo |-> << >>]
    /\ UNCHANGED <<disk, snap, returned>>

Flushed(j) == [j EXCEPT !.todo = <<ChunkFile(j.buffer)>>,
                        !.hashes = Append(@, j.buffer),
                        !.buffer = << >>]

(* One round of the loop of ChunkWriter::write: as much as the caller has  *)
(* and the buffer takes; a full buffer is flushed.                         *)
Write(n) ==
    /\ job.op = "serialise" /\ job.todo = << >>
    /\ n <= Len(job.rest)
    /\ n <= CHUNK_SIZE - Len(job.buffer)
    /\ LET j == [job EXCEPT !.buffer = @ \o SubSeq(job.rest, 1, n),
                            !.rest = SubSeq(@, n + 1, Len(@))]
       IN  job' = IF Len(j.buffer) = CHUNK_SIZE THEN Flushed(j) ELSE j
    /\ UNCHANGED <<disk, snap, returned>>

(* Mutant: the last, unfinished chunk is not stored *)
FinaliseWithoutFlush ==
    /\ job.op = "serialise" /\ job.todo = << >> /\ job.rest = << >>
    /\ job' = [op |-> "store", state |-> job.state, writing |-> FALSE,
               todo |-> <<CommitFile(job.hashes)>>]
    /\ UNCHANGED <<disk, snap, returned>>

(* ChunkWriter::finalise, then the commit is stored. *)
Finalise ==
    /\ job.op = "serialise" /\ job.todo = << >> /\ job.rest = << >>
    /\ job' = IF job.buffer # << >> THEN Flushed(job)
              ELSE [op |-> "store", state |-> job.state, writing |-> FALSE,
                    todo |-> <<CommitFile(job.hashes)>>]
    /\ UNCHANGED <<disk, snap, returned>>

(* The next file has been stored; after the last one the id is returned.   *)
Stored(j) ==
    IF j.op = "store" /\ Len(j.todo) = 1
    THEN /\ job' = Idle
         /\ returned' = returned \cup {[state |-> j.state, id |-> Head(j.todo)]}
    ELSE /\ job' = [j EXCEPT !.todo = Tail(@), !.writing = FALSE]
         /\ UNCHANGED returned

Storing == job.op \in {"store", "serialise"} /\ job.todo # << >>

(* Mutant: a file that exists is created again *)
FileExistsTruncate ==
    /\ Storing /\ ~job.writing
    /\ Exists(disk, Head(job.todo))
    /\ disk' = Written(disk, Head(job.todo), 0)
    /\ job' = [job EXCEPT !.writing = TRUE]
    /\ UNCHANGED <<snap, returned>>

(* write_data_if_new: an existing file is left as it is. *)
FileExists ==
    /\ Storing /\ ~job.writing
    /\ Exists(disk, Head(job.todo))
    /\ Stored(job)
    /\ UNCHANGED <<disk, snap>>

CreateFile ==
    /\ Storing /\ ~job.writing
    /\ ~Exists(disk, Head(job.todo))
    /\ disk' = Written(disk, Head(job.todo), 0)
    /\ job' = [job EXCEPT !.writing = TRUE]
    /\ UNCHANGED <<snap, returned>>

WriteFile ==
    /\ Storing /\ job.writing
    /\ LET file == Head(job.todo)
       IN  IF disk[file] < Size(file)
           THEN /\ disk' = Written(disk, file, disk[file] + 1)
                /\ UNCHANGED <<job, returned>>
           ELSE Stored(job) /\ UNCHANGED disk
    /\ UNCHANGED snap

(* A create or write fails (the operation returns the error) or the        *)
(* process crashes.                                                        *)
Fail ==
    /\ job # Idle
    /\ job' = Idle
    /\ UNCHANGED <<disk, snap, returned>>

-----------------------------------------------------------------------------
(* Mutant: the commit is exported before its chunks *)
ExportCommitFirst(id) ==
    /\ job = Idle
    /\ snap = << >>
    /\ Exists(disk, id) /\ disk[id] = Size(id)
    /\ job' = [op |-> "export", id |-> id, copying |-> FALSE,
               todo |-> <<id>> \o [i \in 1..Len(id.of) |-> ChunkFile(id.of[i])]]
    /\ UNCHANGED <<disk, snap, returned>>

(* export_snapshot, only to an empty directory: the chunks are copied      *)
(* first, then the commit.                                                 *)
Export(id) ==
    /\ job = Idle
    /\ snap = << >>
    /\ Exists(disk, id) /\ disk[id] = Size(id)
    /\ job' = [op |-> "export", id |-> id, copying |-> FALSE,
               todo |-> [i \in 1..Len(id.of) |-> ChunkFile(id.of[i])] \o <<id>>]
    /\ UNCHANGED <<disk, snap, returned>>

(* Store::copy: the target is truncated, then written. *)
StartCopy ==
    /\ job.op = "export" /\ ~job.copying
    /\ Exists(disk, Head(job.todo))
    /\ snap' = Written(snap, Head(job.todo), 0)
    /\ job' = [job EXCEPT !.copying = TRUE]
    /\ UNCHANGED <<disk, returned>>

Copy ==
    /\ job.op = "export" /\ job.copying
    /\ LET file == Head(job.todo)
       IN  IF snap[file] < disk[file]
           THEN snap' = Written(snap, file, snap[file] + 1) /\ UNCHANGED job
           ELSE /\ job' = IF Len(job.todo) = 1 THEN Idle
                          ELSE [job EXCEPT !.todo = Tail(@), !.copying = FALSE]
                /\ UNCHANGED snap
    /\ UNCHANGED <<disk, returned>>

(* The snapshot is taken away, and the next one is exported elsewhere.     *)
NewDirectory ==
    /\ job = Idle
    /\ snap # << >>
    /\ snap' = << >>
    /\ UNCHANGED <<disk, job, returned>>

(* checkout_serialised: ChunkedReader::new, then reads of any size until   *)
(* one returns nothing, the end of the data for the deserialiser.          *)
CheckoutSerialised(id) ==
    /\ job = Idle
    /\ Exists(disk, id) /\ disk[id] = Size(id)
    /\ job' = [op |-> "read", id |-> id, hashes |-> id.of, buffer |-> << >>,
               out |-> << >>]
    /\ UNCHANGED <<disk, snap, returned>>

(* Mutant: a read does not go on to the next chunk *)
ReadWithinChunk(n) ==
    /\ job.op = "read"
    /\ LET next == job.buffer = << >> /\ job.hashes # << >>
           buffer == IF next THEN Load(disk, Head(job.hashes)) ELSE job.buffer
           k == IF n < Len(buffer) THEN n ELSE Len(buffer)
       IN  job' = IF k = 0 THEN [op |-> "end", id |-> job.id, out |-> job.out]
                  ELSE [job EXCEPT !.hashes = IF next THEN Tail(@) ELSE @,
                                   !.buffer = << >>,
                                   !.out = @ \o SubSeq(buffer, 1, k)]
    /\ UNCHANGED <<disk, snap, returned>>

(* ChunkedReader::read: the next chunk when this one is read, and then     *)
(* what fits into the caller's buffer.                                     *)
Read(n) ==
    /\ job.op = "read"
    /\ LET next == job.buffer = << >> /\ job.hashes # << >>
           buffer == IF next THEN Load(disk, Head(job.hashes)) ELSE job.buffer
           k == IF n < Len(buffer) THEN n ELSE Len(buffer)
       IN  job' = IF k = 0 THEN [op |-> "end", id |-> job.id, out |-> job.out]
                  ELSE [job EXCEPT !.hashes = IF next THEN Tail(@) ELSE @,
                                   !.buffer = SubSeq(buffer, k + 1, Len(buffer)),
                                   !.out = @ \o SubSeq(buffer, 1, k)]
    /\ UNCHANGED <<disk, snap, returned>>

Deserialised ==
    /\ job.op = "end"
    /\ job' = Idle
    /\ UNCHANGED <<disk, snap, returned>>

Next ==
    \/ \E s \in States :
          \/ Commit(s)
          \/ CommitSerialised(s)
          \/ CheckoutSerialised(Id(s))
          \/ Export(Id(s))
    \/ \E n \in 1..CHUNK_SIZE : Write(n)
    \/ \E n \in 1..(CHUNK_SIZE + 1) : Read(n)
    \/ Deserialised
    \/ Finalise
    \/ FileExists
    \/ CreateFile
    \/ WriteFile
    \/ Fail
    \/ StartCopy
    \/ Copy
    \/ NewDirectory

Spec == Init /\ [][Next]_vars

-----------------------------------------------------------------------------
(* A file of the commit that a failure has left short.                     *)
Short(id) ==
    \E f \in {id} \cup {ChunkFile(id.of[i]) : i \in 1..Len(id.of)} :
        Exists(disk, f) /\ disk[f] < Size(f)

(* What commit or commit_serialised returned an id for can be checked out  *)
(* under it, however the serialiser split its writes and whatever failed   *)
(* before or after, unless a failure has left one of its files short.      *)
CommittedChecksOut ==
    \A r \in returned :
        ~Short(r.id) => Checkout(disk, r.id) = Outcome("Ok", r.state)

(* Repo::checkout: "Checkout the bytes committed under `id`, if the commit *)
(* exists."                                                                *)
NoOtherBytes ==
    \A r \in returned : LET c == Checkout(disk, r.id)
                        IN  c.result = "Ok" => c.bytes = r.state

(* Reading a commit chunk by chunk, in pieces of any size, gives the bytes *)
(* that checkout does, and the reader says "end of data" only then.        *)
ReaderAgrees ==
    job.op = "end" /\ ~Short(job.id)
        => Checkout(disk, job.id) = Outcome("Ok", job.out)

(* A commit is stored after its chunks and nothing is ever removed: where  *)
(* a commit exists, in the repository or in a snapshot, no chunk is        *)
(* missing (ChunkNotFound never happens), crashes or not.                  *)
NoChunkMissing ==
    \A s \in States : /\ Checkout(disk, Id(s)).result # "ChunkNotFound"
                      /\ Checkout(snap, Id(s)).result # "ChunkNotFound"

(* What can be checked out stays so: no later commit, failed commit or     *)
(* crash damages an earlier one, although they share chunks.               *)
CommitsStay ==
    [][\A s \in States :
         Checkout(disk, Id(s)) = Outcome("Ok", s)
             => Checkout(disk', Id(s)) = Outcome("Ok", s)]_vars

(* A snapshot that holds a commit checks out as the repository does, also  *)
(* when a chunk occurs in it twice and is copied over itself.              *)
SnapshotFaithful ==
    \A s \in States :
        Exists(snap, Id(s)) /\ snap[Id(s)] = Size(Id(s))
            => Checkout(snap, Id(s)) = Checkout(disk, Id(s))
=============================================================================
