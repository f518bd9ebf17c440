SPECIFICATION Spec
CONSTANTS
    CHUNK_SIZE = 2
    BYTES = {1, 2}
    States <- MCStates
INVARIANT
    NoOtherBytes
