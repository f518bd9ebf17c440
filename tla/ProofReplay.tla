---------------------------- MODULE ProofReplay ----------------------------
(***************************************************************************)
(* One step of the machine run three times: on the Owned backend, on the   *)
(* ProofGen backend that records what the step touches, and on the         *)
(* Verifier backend that holds only what the proof reveals.                *)
(*                                                                         *)
(* The state has the layout ((Atom, .., Array), DynArray): regions, each a *)
(* leaf of the tree, and a dynamic region cut into pages of                *)
(* MERKLE_LEAF_SIZE bytes, each a leaf of a subtree of MERKLE_ARITY.       *)
(***************************************************************************)
EXTENDS Merkle, FiniteSets, Functions

CONSTANTS Lens,              \* the lengths of the regions, as a sequence
          MERKLE_LEAF_SIZE,
          PAGES,             \* a power of MERKLE_ARITY: what the verifier can hash
          Sizes,             \* sizes of the elements read and written in the dynamic region
          MAX_ACCESSES       \* bound on the accesses of a step

ASSUME LayoutAssumption ==
  /\ MERKLE_LEAF_SIZE \in Nat \ {0}
  /\ \E depth \in 1 .. PAGES : PAGES = MERKLE_ARITY ^ depth

LEN == PAGES * MERKLE_LEAF_SIZE

RegionIds == DOMAIN Lens
Addresses == 0 .. LEN - 1
PageIds == {p * MERKLE_LEAF_SIZE : p \in 0 .. PAGES - 1}

VARIABLES
  phase,    \* "prove", "verify" and then the verdict
  count,    \* accesses made by the step so far
  owned,    \* the state of the Owned backend after the same accesses
  gen,      \* ProofGen: the logs over an unmodified source
  proof,    \* the Proof once produced
  partial,  \* Verifier: the parts of the state that are present
  touched,  \* history: the leaves that the accesses of the phase fall into
  proved    \* history: those of the step that was proved

vars == <<phase, count, owned, gen, proof, partial, touched, proved>>

\* Pairwise different contents, so that no leaf can stand for another
Source ==
  [regions |-> [r \in RegionIds |-> [i \in 1 .. Lens[r] |-> 100 * r + i]],
   mem     |-> [a \in Addresses |-> a]]

\* The bytes, or the element, that the next write stores: no two writes of a step store the same
Value(size) == [k \in 1 .. size |-> 1000 + 10 * count + k]

EmptyMap == << >>

\* PageId::from_address
PageId(address) == address - (address % MERKLE_LEAF_SIZE)

Bytes(mem, address, size) == [k \in 1 .. size |-> mem[address + k - 1]]

Range0(address, size) == address .. address + size - 1

-----------------------------------------------------------------------------
(* Owned: state_hash *)

state_hash(state) ==
  LET pages == [p \in 1 .. PAGES |->
                  blake2b_hash_bytes(Bytes(state.mem, (p - 1) * MERKLE_LEAF_SIZE, MERKLE_LEAF_SIZE))]
  IN  combine(<<combine(ApplyTo(blake2b_hash_bytes, state.regions)), build_custom_merkle_hash(pages)>>)

-----------------------------------------------------------------------------
(* ProofGen *)

start_proof ==
  [access |-> [r \in RegionIds |-> FALSE],
   region_writes |-> [r \in RegionIds |-> EmptyMap],
   reads |-> {},
   writes |-> EmptyMap]

\* What ProofGen serves: the write log over the source
unrecorded(log) ==
  [regions |-> [r \in RegionIds |-> [i \in 1 .. Lens[r] |->
                  IF i \in DOMAIN log.region_writes[r] THEN log.region_writes[r][i]
                  ELSE Source.regions[r][i]]],
   mem |-> [a \in Addresses |-> IF a \in DOMAIN log.writes THEN log.writes[a] ELSE Source.mem[a]]]

\* Mutant: the write log is not consulted
MerklePage_ReadsOnly(log, page) ==
  make_merkle_leaf(Bytes(Source.mem, page, MERKLE_LEAF_SIZE),
                   Range0(page, MERKLE_LEAF_SIZE) \cap log.reads # {})

MerklePage(log, page) ==
  make_merkle_leaf(Bytes(Source.mem, page, MERKLE_LEAF_SIZE),
                   Range0(page, MERKLE_LEAF_SIZE) \cap (log.reads \cup DOMAIN log.writes) # {})

to_merkle_tree(log) ==
  make_merkle_node(<<
    make_merkle_node([r \in RegionIds |-> make_merkle_leaf(Source.regions[r], log.access[r])]),
    build_custom_merkle_tree([p \in 1 .. PAGES |-> MerklePage(log, (p - 1) * MERKLE_LEAF_SIZE)])>>)

\* Mutant: the final hash, which reads all of the dynamic region, before the tree
to_proof_HashFirst(log) ==
  LET read == [log EXCEPT !.reads = Addresses]
  IN  [tree |-> to_merkle_proof(to_merkle_tree(read)), final_state_hash |-> state_hash(unrecorded(log))]

\* The tree first: hashing the final state reads all of the dynamic region
to_proof(log) ==
  [tree |-> to_merkle_proof(to_merkle_tree(log)), final_state_hash |-> state_hash(unrecorded(log))]

-----------------------------------------------------------------------------
(* Verifier: a region is the map of its present elements, the dynamic      *)
(* region a map from its known pages to the map of their available bytes   *)

region_alloc(tree) == IF tree.tag = "read" THEN tree.data ELSE EmptyMap

RECURSIVE parse_pages(_, _, _)
parse_pages(start, length, tree) ==
  IF length <= MERKLE_LEAF_SIZE
  THEN IF tree.tag = "read" THEN PageId(start) :> tree.data ELSE EmptyMap
  ELSE LET spans == work_merkle_params(start, length)
           branches == into_branches(tree, MERKLE_ARITY)
           parsed == [i \in 1 .. MERKLE_ARITY |-> parse_pages(spans[i][1], spans[i][2], branches[i])]
       IN  FoldLeft(LAMBDA acc, pages : acc @@ pages, EmptyMap, parsed)

to_verifier_alloc(tree) ==
  LET top == into_branches(tree, 2)
      regions == into_branches(top[1], Len(Lens))
  IN  [regions |-> ApplyTo(region_alloc, regions), pages |-> parse_pages(0, LEN, top[2])]

\* The order in which the layout asks a stream for its nodes and leaves
RECURSIVE page_shape(_, _)
page_shape(start, length) ==
  IF length <= MERKLE_LEAF_SIZE THEN ShapeLeaf(MERKLE_LEAF_SIZE)
  ELSE Node(ApplyTo(LAMBDA span : page_shape(span[1], span[2]), work_merkle_params(start, length)))

layout_shape == Node(<<Node(ApplyTo(ShapeLeaf, Lens)), page_shape(0, LEN)>>)

\* A stream is allocated in two passes, and bytes that are left over are not looked at
stream_deserialise(bytes) ==
  LET read == deserialise_merkle_proof(bytes, TRUE, layout_shape)
  IN  IF read.err # "none" THEN read ELSE Got(to_verifier_alloc(read.out), read.next)

\* Mutant: the offset in the page is forgotten
ChunkLength_NoOffset(address, size) == Min({size, MERKLE_LEAF_SIZE})

\* The part of an access that lies in its first page: read_bytes and write_bytes go page by page
ChunkLength(address, size) == Min({size, MERKLE_LEAF_SIZE - (address % MERKLE_LEAF_SIZE)})

Page(pages, page) == IF page \in DOMAIN pages THEN pages[page] ELSE EmptyMap

\* The bytes as the only element of a set, or {} for the NotFound panic
RECURSIVE read_bytes(_, _, _)
read_bytes(pages, address, size) ==
  IF size = 0 THEN {<< >>}
  ELSE LET page == PageId(address)
           len == ChunkLength(address, size)
           chunk == Range0(address - page + 1, len)
       IN  IF chunk \subseteq DOMAIN Page(pages, page)
           THEN {[k \in 1 .. len |-> pages[page][address - page + k]] \o rest :
                   rest \in read_bytes(pages, address + len, size - len)}
           ELSE {}

RECURSIVE write_bytes(_, _, _)
write_bytes(pages, address, buffer) ==
  IF buffer = << >> THEN pages
  ELSE LET page == PageId(address)
           len == ChunkLength(address, Len(buffer))
           put == [o \in Range0(address - page + 1, len) |-> buffer[o - (address - page)]]
       IN  write_bytes((page :> (put @@ Page(pages, page))) @@ pages,
                       address + len, SubSeq(buffer, len + 1, Len(buffer)))

\* Mutant: a page of which only some bytes are known is hashed with zeros for the others
partial_leaf_hash_Zeros(present, size, tree) ==
  IF present = EmptyMap THEN partial_hash_leaf(tree)
  ELSE Ok(blake2b_hash_bytes([i \in 1 .. size |-> IF i \in DOMAIN present THEN present[i] ELSE 0]))

\* get_partial_region and get_partial_page: absent, complete, or neither
partial_leaf_hash(present, size, tree) ==
  CASE present = EmptyMap -> partial_hash_leaf(tree)
    [] DOMAIN present = 1 .. size -> Ok(blake2b_hash_bytes(present))
    [] OTHER -> Err("fatal")

Span(start, length, tree) == [event |-> "span", start |-> start, length |-> length, tree |-> tree]
NodeEvent(proof_hash) == [event |-> "node", proof_hash |-> proof_hash]

\* The queue of spans and nodes of a dynamic region, and the stack of hashes
RECURSIVE hash_events(_, _, _)
hash_events(pages, queue, hashes) ==
  LET event == Head(queue)
      leaf == partial_leaf_hash(Page(pages, PageId(event.start)), MERKLE_LEAF_SIZE, event.tree)
      spans == work_merkle_params(event.start, event.length)
      branches == into_branches(event.tree, MERKLE_ARITY)
      children == [i \in 1 .. MERKLE_ARITY |-> Span(spans[i][1], spans[i][2], branches[i])]
      below == Len(hashes) - MERKLE_ARITY
  IN  CASE queue = << >> -> IF Len(hashes) = 1 THEN hashes[1] ELSE Err("fatal")
        [] event.event = "span" /\ event.length <= MERKLE_LEAF_SIZE ->
             IF leaf.err = "fatal" THEN leaf
             ELSE hash_events(pages, Tail(queue), Append(hashes, leaf))
        [] event.event = "span" /\ event.length > MERKLE_LEAF_SIZE ->
             IF BadNode(event.tree, MERKLE_ARITY) THEN Err("shape")
             ELSE hash_events(pages,
                              Tail(queue) \o SelectSeq(children, LAMBDA c : c.length > 0)
                                          \o <<NodeEvent(proof_hash_of(event.tree))>>,
                              hashes)
        [] event.event = "node" /\ hashes = << >> ->
             hash_events(pages, Append(Tail(queue), event), hashes)
        [] event.event = "node" /\ hashes # << >> ->
             IF below < 0 THEN Err("fatal")
             ELSE hash_events(pages, Tail(queue),
                    Append(SubSeq(hashes, 1, below),
                           combine_partial_hashes(SubSeq(hashes, below + 1, Len(hashes)), event.proof_hash)))

\* The partial hash of a tuple of `len` from those of its children
tuple_hash(hashes, len, tree) ==
  IF BadNode(tree, len) THEN Err("shape") ELSE combine_partial_hashes(hashes, proof_hash_of(tree))

partial_state_hash(state, tree) ==
  LET branches == into_branches(tree, 2)
      leaves == into_branches(branches[1], Len(Lens))
      regions == [r \in RegionIds |-> partial_leaf_hash(state.regions[r], Lens[r], leaves[r])]
  IN  tuple_hash(<<tuple_hash(regions, Len(Lens), branches[1]),
                   hash_events(state.pages, <<Span(0, LEN, branches[2])>>, << >>)>>, 2, tree)

-----------------------------------------------------------------------------
(* The step *)

Init ==
  /\ phase = "prove"
  /\ count = 0
  /\ owned = Source
  /\ gen = start_proof
  /\ proof = << >>
  /\ partial = << >>
  /\ touched = {}
  /\ proved = {}

\* The indices an operation on a region reads and writes: region_read, region_write,
\* region_replace, region_read_all and region_write_all
RegionAccess(r) ==
  {<<{i}, {}>> : i \in 1 .. Lens[r]} \cup {<<{}, {i}>> : i \in 1 .. Lens[r]}
    \cup {<<{i}, {i}>> : i \in 1 .. Lens[r]} \cup {<<1 .. Lens[r], {}>>, <<{}, 1 .. Lens[r]>>}

Accesses(where) == phase = where /\ count < MAX_ACCESSES /\ count' = count + 1

\* The Owned backend makes the same writes in place
OwnedRegion(r, writes) ==
  /\ owned' = [owned EXCEPT !.regions[r] =
                 [i \in 1 .. Lens[r] |-> IF i \in writes THEN Value(Lens[r])[i] ELSE @[i]]]
  /\ touched' = touched \cup {<<"region", r>>}

OwnedDyn(address, size, writes) ==
  /\ owned' = [owned EXCEPT !.mem =
                 [a \in Addresses |-> IF writes /\ a \in Range0(address, size)
                                      THEN Value(size)[a - address + 1] ELSE @[a]]]
  /\ touched' = touched \cup {<<"page", PageId(a)>> : a \in Range0(address, size)}

ProveRegion(r, writes) ==
  /\ Accesses("prove")
  /\ gen' = [gen EXCEPT !.access[r] = TRUE,
                        !.region_writes[r] = [i \in writes |-> Value(Lens[r])[i]] @@ @]
  /\ OwnedRegion(r, writes)
  /\ UNCHANGED <<phase, proof, partial, proved>>

ProveDynRead(address, size) ==
  /\ Accesses("prove")
  /\ gen' = [gen EXCEPT !.reads = @ \cup Range0(address, size)]
  /\ OwnedDyn(address, size, FALSE)
  /\ UNCHANGED <<phase, proof, partial, proved>>

ProveDynWrite(address, size) ==
  /\ Accesses("prove")
  /\ gen' = [gen EXCEPT !.writes = [a \in Range0(address, size) |-> Value(size)[a - address + 1]] @@ @]
  /\ OwnedDyn(address, size, TRUE)
  /\ UNCHANGED <<phase, proof, partial, proved>>

\* The proof is produced and handed to a verifier, which replays a step from the initial state
ProduceProof ==
  /\ phase = "prove"
  /\ phase' = "verify"
  /\ proof' = to_proof(gen)
  /\ partial' = to_verifier_alloc(proof'.tree)
  /\ owned' = Source
  /\ gen' = start_proof
  /\ count' = 0
  /\ touched' = {}
  /\ proved' = touched

\* A NotFound panic is caught by handle_stepper_panics and ends the verification
NotFound ==
  /\ phase' = "AbsentDataAccess"
  /\ UNCHANGED partial

ReplayRegion(r, reads, writes) ==
  /\ Accesses("verify")
  /\ IF reads \subseteq DOMAIN partial.regions[r]
     THEN /\ partial' = [partial EXCEPT !.regions[r] = [i \in writes |-> Value(Lens[r])[i]] @@ @]
          /\ UNCHANGED phase
     ELSE NotFound
  /\ OwnedRegion(r, writes)
  /\ UNCHANGED <<gen, proof, proved>>

ReplayDynRead(address, size) ==
  /\ Accesses("verify")
  /\ IF read_bytes(partial.pages, address, size) # {} THEN UNCHANGED <<phase, partial>> ELSE NotFound
  /\ OwnedDyn(address, size, FALSE)
  /\ UNCHANGED <<gen, proof, proved>>

ReplayDynWrite(address, size) ==
  /\ Accesses("verify")
  /\ partial' = [partial EXCEPT !.pages = write_bytes(@, address, Value(size))]
  /\ OwnedDyn(address, size, TRUE)
  /\ UNCHANGED <<phase, gen, proof, proved>>

\* The end of verify_proof
CheckFinalHash ==
  /\ phase = "verify"
  /\ LET final == partial_state_hash(partial, proof.tree)
     IN  phase' = IF final.err # "none" THEN "PartialHashError"
                  ELSE IF final.hash # proof.final_state_hash THEN "FinalHashMismatch" ELSE "Ok"
  /\ UNCHANGED <<count, owned, gen, proof, partial, touched, proved>>

Next ==
  \/ \E r \in RegionIds : \E access \in RegionAccess(r) :
       \/ ProveRegion(r, access[2])
       \/ ReplayRegion(r, access[1], access[2])
  \/ \E size \in Sizes : \E address \in 0 .. LEN - size :
       \/ ProveDynRead(address, size)
       \/ ProveDynWrite(address, size)
       \/ ReplayDynRead(address, size)
       \/ ReplayDynWrite(address, size)
  \/ ProduceProof
  \/ CheckFinalHash

Spec == Init /\ [][Next]_vars

-----------------------------------------------------------------------------
(* Properties *)

\* The leaves whose contents a partial state holds in full
Revealed(state) ==
  {<<"region", r>> : r \in {r \in RegionIds : state.regions[r] # EmptyMap}}
    \cup {<<"page", p>> : p \in DOMAIN state.pages}

(***************************************************************************)
(* Every read of the step gives the same on the three backends: ProofGen   *)
(* serves its write log over the source (unrecorded_ref, unrecorded_read), *)
(* and whatever the Verifier serves, page boundaries crossed or not, is    *)
(* what the Owned state holds.                                             *)
(***************************************************************************)
ReadsAgree ==
  /\ phase = "prove" => unrecorded(gen) = owned
  /\ phase = "verify" =>
       /\ \A r \in RegionIds : \A i \in DOMAIN partial.regions[r] :
            partial.regions[r][i] = owned.regions[r][i]
       /\ \A size \in Sizes : \A address \in 0 .. LEN - size :
            read_bytes(partial.pages, address, size) \subseteq {Bytes(owned.mem, address, size)}

(***************************************************************************)
(* A proof is of this step: its tree has the hash of the state before the  *)
(* step (compress changes no hash), its final hash is that of the Owned    *)
(* state after the step, and it reveals to the verifier the leaves that    *)
(* the step touched and no others (to_proof logs no access of its own).    *)
(***************************************************************************)
ProofOfTheStep ==
  [][phase = "prove" /\ phase' = "verify" =>
       /\ root_hash(proof'.tree) = state_hash(Source)
       /\ proof'.final_state_hash = state_hash(owned)
       /\ Revealed(partial') = touched]_vars

\* The shape of a full Merkle tree
RECURSIVE ShapeOf(_)
ShapeOf(tree) == IF tree.tag = "leaf" THEN ShapeLeaf(Len(tree.data)) ELSE Node(ApplyTo(ShapeOf, tree.children))

(***************************************************************************)
(* An encoded proof loses nothing: whatever subtrees are blinded and       *)
(* however many tags fill the last byte, deserialise_proof reads back the  *)
(* proof from its bytes and the shape of the full tree; the stream reader, *)
(* which unpacks tags and follows the layout in code of its own, allocates *)
(* the partial state that the tree gives; an encoding cut anywhere is      *)
(* refused by both, and one with a byte more by deserialise_proof.         *)
(***************************************************************************)
EncodingFaithful ==
  [][phase = "prove" /\ phase' = "verify" =>
       LET bytes == serialise_proof(proof')
           tree == serialise_merkle_proof(proof'.tree)
           shape == ShapeOf(to_merkle_tree(gen))
       IN  /\ deserialise_proof(bytes, shape) = Got(proof', Len(bytes) + 1)
           /\ stream_deserialise(tree) = Got(partial', Len(tree) + 1)
           /\ \A n \in 0 .. Len(bytes) - 1 :
                deserialise_proof(SubSeq(bytes, 1, n), shape) = Err("NotEnoughBytes")
           /\ \A n \in 0 .. Len(tree) - 1 :
                stream_deserialise(SubSeq(tree, 1, n)).err # "none"
           /\ deserialise_proof(Append(bytes, DataByte(0)), shape) = Err("TooManyBytes")]_vars

(***************************************************************************)
(* An honest proof verifies: as long as the replay stays on leaves that    *)
(* the prover's step touched, no access fails for absent data and the hash *)
(* of the partial state can be computed from it and the blinded hashes.    *)
(***************************************************************************)
HonestReplaySucceeds ==
  phase \in {"AbsentDataAccess", "PartialHashError"} => ~ touched \subseteq proved

(***************************************************************************)
(* The verdict is right for any replay, also one that writes where the     *)
(* proof is blind: a final hash that can be computed is the hash of the    *)
(* Owned state after the same accesses, so verify_proof accepts only a     *)
(* proof that claims that state.                                           *)
(***************************************************************************)
VerdictSound ==
  /\ phase = "verify" =>
       LET final == partial_state_hash(partial, proof.tree)
       IN  final.err = "none" => final.hash = state_hash(owned)
  /\ phase = "Ok" => proof.final_state_hash = state_hash(owned)
=============================================================================
