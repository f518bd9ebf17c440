CONSTANTS
    SIZE = 2
    CACHE_INSTR = 3
    PAGE_SIZE = 8
    MEMORY = 16
    COUNTER = 4
    MaxSteps = 3
    TICKS = 2
SPECIFICATION Spec
INVARIANTS
    BlocksWithinPage
    NoStaleBlock
    RunsWhatWasFetched
PROPERTY BudgetIndependent
