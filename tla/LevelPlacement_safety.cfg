SPECIFICATION Spec
CONSTANTS
    Chunks = 4
    Threads = {w1, w2, w3}
    NoThread = NoThread
SYMMETRY Symmetry
INVARIANTS GapPlacedOnce KeptForReaders NothingLost LInv
