SPECIFICATION Spec
CONSTANTS
    CHUNK_SIZE = 2
    BYTES = {1, 2}
    States <- MCStates
INVARIANTS
    CommittedChecksOut
    ReaderAgrees
    NoChunkMissing
    SnapshotFaithful
PROPERTY
    CommitsStay
