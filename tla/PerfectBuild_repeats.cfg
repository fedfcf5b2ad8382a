INIT MCInit
NEXT MCNext
CONSTANTS
    w1 = w1
    w2 = w2
    none = none
    Hashes = 4
    Fps = 2
    Bins = 2
    RangeSlots = 2
    Stage = 1
    Batch = 2
    MaxFaults = 1
    Inputs <- MCInputs
    Budgets <- MCBudgets
    SlotOrder <- MCSlotOrder
    Threads <- MCThreads
    KeysIn <- MCKeysIn
    Nodes = 5
    Chains = 3
    CHAINS_TAKEN = 2
    Callers <- MCCallers
    Nobody = none
    ITER_CHUNK = 2
    MaxKeys = 3
    MaxCalls = 3
INVARIANT DuplicatesCaught
CHECK_DEADLOCK FALSE
