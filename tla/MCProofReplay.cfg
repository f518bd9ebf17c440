SPECIFICATION Spec
CONSTANTS
  MERKLE_ARITY = 2
  DIGEST_SIZE = 2
  MERKLE_LEAF_SIZE = 2
  PAGES = 4
  Lens <- MCLens
  Sizes = {1, 2}
  MAX_ACCESSES = 2
INVARIANTS ReadsAgree HonestReplaySucceeds VerdictSound
PROPERTIES ProofOfTheStep EncodingFaithful
CHECK_DEADLOCK FALSE
