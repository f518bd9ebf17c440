SPECIFICATION FairSpec
CONSTANTS
    Blocks = {b1, b2}
    Cells = {c1, c2, c3}
    Instr = {"next", "jump", "float"}
    Unsupported = {"float"}
    Leaving = {"jump"}
    CACHE_INSTR = 2
    WARMUP = 1
INVARIANTS
    CompiledIsCurrent
    StoreIntoNotCompiled

    
