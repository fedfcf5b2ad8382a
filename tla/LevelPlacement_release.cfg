SPECIFICATION Spec
CONSTANTS
    Chunks = 2
    Threads = {w1, w2}
    NoThread = NoThread
INVARIANT ReleasedOnce
