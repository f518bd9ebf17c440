------------------------------- MODULE Merkle -------------------------------
(***************************************************************************)
(* The Merkle trees of state_backend: the full tree of a state with the    *)
(* access flags of its leaves, the proof it is compressed to, and the hash *)
(* a verifier computes from a partial state and the proof.                 *)
(*                                                                         *)
(* A digest is the term it was computed from, so two digests are equal     *)
(* only when their contents are: blake2b is taken to have no collisions.   *)
(***************************************************************************)
EXTENDS Integers, Sequences, SequencesExt

CONSTANTS MERKLE_ARITY,
          DIGEST_SIZE       \* the bytes of an encoded hash

ASSUME ArityAssumption == MERKLE_ARITY \in Nat /\ MERKLE_ARITY >= 2
ASSUME DigestAssumption == DIGEST_SIZE \in Nat \ {0}

blake2b_hash_bytes(data) == <<"data", data>>

combine(hashes) == <<"digests", hashes>>

ApplyTo(Op(_), seq) == [i \in DOMAIN seq |-> Op(seq[i])]

-----------------------------------------------------------------------------
(* MerkleTree: every leaf carries its data and whether it was accessed *)

make_merkle_leaf(data, access) ==
  [tag |-> "leaf", hash |-> blake2b_hash_bytes(data), access |-> access, data |-> data]

make_merkle_node(children) ==
  [tag |-> "node", hash |-> combine(ApplyTo(LAMBDA t : t.hash, children)), children |-> children]

\* `nodes.chunks(size)`: the last chunk may be shorter
Chunks(nodes, size) ==
  [c \in 1 .. (Len(nodes) + size - 1) \div size |->
     SubSeq(nodes, (c - 1) * size + 1, Min({c * size, Len(nodes)}))]

RECURSIVE build_custom_merkle_tree(_)
build_custom_merkle_tree(nodes) ==
  IF Len(nodes) = 1 THEN nodes[1]
  ELSE build_custom_merkle_tree(ApplyTo(make_merkle_node, Chunks(nodes, MERKLE_ARITY)))

RECURSIVE build_custom_merkle_hash(_)
build_custom_merkle_hash(hashes) ==
  IF Len(hashes) = 1 THEN hashes[1]
  ELSE build_custom_merkle_hash(ApplyTo(combine, Chunks(hashes, MERKLE_ARITY)))

-----------------------------------------------------------------------------
(* MerkleProof: Blind(hash), Read(data) and Node(children); Absent is the  *)
(* part of a ProofTree below a blinded node                                *)

Blind(hash) == [tag |-> "blind", hash |-> hash]
Read(data) == [tag |-> "read", data |-> data]
Node(children) == [tag |-> "node", children |-> children]
Absent == [tag |-> "absent"]

\* A node all of whose children were blinded is blinded itself
Compressed(children) ==
  IF \A i \in DOMAIN children : children[i].tag = "blind"
  THEN Blind(combine(ApplyTo(LAMBDA c : c.hash, children)))
  ELSE Node(children)

RECURSIVE to_merkle_proof(_)
to_merkle_proof(tree) ==
  IF tree.tag = "leaf"
  THEN IF tree.access THEN Read(tree.data) ELSE Blind(tree.hash)
  ELSE Compressed(ApplyTo(to_merkle_proof, tree.children))

RECURSIVE root_hash(_)
root_hash(proof) ==
  CASE proof.tag = "blind" -> proof.hash
    [] proof.tag = "read"  -> blake2b_hash_bytes(proof.data)
    [] proof.tag = "node"  -> combine(ApplyTo(root_hash, proof.children))

-----------------------------------------------------------------------------
(* The encoding of a proof: the final hash, the tags of all subtrees in    *)
(* pre-order, four to a byte, and then the contents of the leaves.         *)
(* A byte is marked with what it was written as, a byte of a hash also     *)
(* with its place in the hash.                                             *)

TAG_NODE == 0
TAG_BLIND == 2
TAG_READ == 3
TAGS_PER_BYTE == 4

DataByte(value) == <<"data", value>>
TagByte(bits) == <<"tags", bits>>
HashBytes(hash) == [k \in 1 .. DIGEST_SIZE |-> <<"hash", <<hash, k>>>>]

to_raw_tag(proof) ==
  CASE proof.tag = "node" -> TAG_NODE [] proof.tag = "blind" -> TAG_BLIND [] proof.tag = "read" -> TAG_READ

\* Mutant: the first tag goes to the least significant bits
tag_offset_LowFirst(index) == 2 * index

\* The place of a tag in its byte: the first tag has the most significant bits
tag_offset(index) == 8 - (index + 1) * 2

serialise_raw_tags(tags) ==
  ApplyTo(LAMBDA chunk : TagByte(MapThenSumSet(LAMBDA i : chunk[i] * 2 ^ tag_offset(i - 1), DOMAIN chunk)),
          Chunks(tags, TAGS_PER_BYTE))

RECURSIVE subtree_iterator(_)
subtree_iterator(tree) ==
  <<tree>> \o (IF tree.tag = "node" THEN FlattenSeq(ApplyTo(subtree_iterator, tree.children)) ELSE << >>)

LeafContents(proof) ==
  CASE proof.tag = "read"  -> ApplyTo(DataByte, proof.data)
    [] proof.tag = "blind" -> HashBytes(proof.hash)
    [] proof.tag = "node"  -> << >>

serialise_merkle_proof(tree) ==
  LET subtrees == subtree_iterator(tree)
  IN  serialise_raw_tags(ApplyTo(to_raw_tag, subtrees)) \o FlattenSeq(ApplyTo(LeafContents, subtrees))

serialise_proof(proof) == HashBytes(proof.final_state_hash) \o serialise_merkle_proof(proof.tree)

-----------------------------------------------------------------------------
(* Reading it back. A reader returns what it read and where the next one   *)
(* starts, or an error. `shape` is the full tree with the sizes of leaves. *)

ShapeLeaf(size) == [tag |-> "leaf", size |-> size]

Got(out, next) == [err |-> "none", out |-> out, next |-> next]
Err(err) == [err |-> err]

\* The traversal of impl_modify_map_collect: the subtrees in order, the first error ends it
ReadAll(Reader(_, _), subtrees, start) ==
  LET step(acc, t) ==
        IF acc.err # "none" THEN acc
        ELSE LET r == Reader(t, acc.next)
             IN  IF r.err # "none" THEN r ELSE Got(Append(acc.out, r.out), r.next)
  IN  FoldLeft(step, Got(<< >>, start), subtrees)

AsNode(read) == IF read.err # "none" THEN read ELSE Got(Node(read.out), read.next)

RECURSIVE total_leaf_bytes(_)
total_leaf_bytes(shape) ==
  IF shape.tag = "leaf" THEN shape.size
  ELSE FoldLeft(LAMBDA sum, t : sum + total_leaf_bytes(t), 0, shape.children)

\* The n-th tag, from 0. deserialise_proof shifts a byte by 0, 2, 4 and 6 and pops the
\* last; a stream has the offsets that the tags were written with
raw_tag(bytes, stream, n) ==
  LET index == n % TAGS_PER_BYTE
      offset == IF stream THEN tag_offset(index) ELSE <<0, 2, 4, 6>>[TAGS_PER_BYTE - index]
  IN  (bytes[n \div TAGS_PER_BYTE + 1][2] \div 2 ^ offset) % 4

\* deserialise_proof takes a leaf with data for a whole subtree; a stream, which is read by the layout, does not
RECURSIVE deserialise_tags(_, _, _, _)
deserialise_tags(bytes, stream, shape, n) ==
  LET tag == raw_tag(bytes, stream, n)
      Reader(t, next) == deserialise_tags(bytes, stream, t, next)
  IN  IF n \div TAGS_PER_BYTE >= Len(bytes) THEN Err("NotEnoughBytes")
      ELSE   CASE tag = TAG_BLIND -> Got([tag |-> "blind"], n + 1)
               [] tag = TAG_READ /\ stream /\ shape.tag = "node" -> Err("UnexpectedLeaf")
               [] tag = TAG_READ /\ ~(stream /\ shape.tag = "node") ->
                    Got([tag |-> "read", size |-> total_leaf_bytes(shape)], n + 1)
               [] tag = TAG_NODE /\ shape.tag = "leaf" -> Err("UnexpectedNode")
               [] tag = TAG_NODE /\ shape.tag = "node" -> AsNode(ReadAll(Reader, shape.children, n + 1))
               [] OTHER -> Err("InvalidTag")

HashFrom(bytes) ==
  IF bytes[1][1] = "hash" /\ bytes = HashBytes(bytes[1][2][1]) THEN bytes[1][2][1] ELSE <<"bytes", bytes>>

deserialise_final_hash_encoding(bytes, at) ==
  IF at + DIGEST_SIZE - 1 > Len(bytes) THEN Err("NotEnoughBytes")
  ELSE Got(HashFrom(SubSeq(bytes, at, at + DIGEST_SIZE - 1)), at + DIGEST_SIZE)

RECURSIVE deserialise_values(_, _, _)
deserialise_values(bytes, tagged, at) ==
  LET hash == deserialise_final_hash_encoding(bytes, at)
      Reader(t, next) == deserialise_values(bytes, t, next)
  IN  CASE tagged.tag = "node"  -> AsNode(ReadAll(Reader, tagged.children, at))
        [] tagged.tag = "blind" -> IF hash.err # "none" THEN hash ELSE Got(Blind(hash.out), hash.next)
        [] tagged.tag = "read"  ->
             IF at + tagged.size - 1 > Len(bytes) THEN Err("NotEnoughBytes")
             ELSE Got(Read([k \in 1 .. tagged.size |-> bytes[at + k - 1][2]]), at + tagged.size)

\* The values start at the byte after the last one that a tag was taken from
deserialise_merkle_proof(bytes, stream, shape) ==
  LET tagged == deserialise_tags(bytes, stream, shape, 0)
  IN  IF tagged.err # "none" THEN tagged
      ELSE deserialise_values(bytes, tagged.out, (tagged.next + TAGS_PER_BYTE - 1) \div TAGS_PER_BYTE + 1)

deserialise_proof(bytes, shape) ==
  LET hash == deserialise_final_hash_encoding(bytes, 1)
      rest == SubSeq(bytes, DIGEST_SIZE + 1, Len(bytes))
      read == deserialise_merkle_proof(rest, FALSE, shape)
  IN  CASE hash.err # "none" -> hash
        [] hash.err = "none" /\ read.err # "none" -> read
        [] OTHER -> IF read.next <= Len(rest) THEN Err("TooManyBytes")
                    ELSE Got([tree |-> read.out, final_state_hash |-> hash.out], Len(bytes) + 1)

-----------------------------------------------------------------------------
(* A proof as a tree of known layout *)

\* The branches of a proof read as a node of `len` children
into_branches(proof, len) ==
  IF proof.tag = "node" THEN proof.children ELSE [i \in 1 .. len |-> Absent]

\* FromProofError: a leaf with data, or another number of children, where a node of `len` is due
BadNode(proof, len) ==
  \/ proof.tag = "read"
  \/ proof.tag = "node" /\ Len(proof.children) # len

\* <<start, length>> of the children of a span
work_merkle_params(start, length) ==
  LET most == (length + MERKLE_ARITY - 1) \div MERKLE_ARITY
      before(i) == Min({(i - 1) * most, length})
  IN  [i \in 1 .. MERKLE_ARITY |-> <<start + before(i), Min({most, length - before(i)})>>]

-----------------------------------------------------------------------------
(* Hashing a partial state: a digest, or why there is none *)

Ok(hash) == [err |-> "none", hash |-> hash]

\* The proof's word on a leaf of which the state holds nothing
partial_hash_leaf(proof) ==
  CASE proof.tag = "absent" -> Err("recoverable")
    [] proof.tag = "node"   -> Err("shape")
    [] OTHER                -> Ok(root_hash(proof))

\* `proof_hash` is << >>, or <<hash>> for a blinded node
combine_partial_hashes(results, proof_hash) ==
  CASE \A i \in DOMAIN results : results[i].err = "none" ->
         Ok(combine(ApplyTo(LAMBDA r : r.hash, results)))
    [] \A i \in DOMAIN results : results[i].err = "recoverable" ->
         IF proof_hash = << >> THEN Err("recoverable") ELSE Ok(proof_hash[1])
    [] OTHER -> Err("fatal")

\* The hash that stands for a blinded node, if it is one
proof_hash_of(proof) == IF proof.tag = "blind" THEN <<proof.hash>> ELSE << >>
=============================================================================
