SPECIFICATION FairSpec
CONSTANTS
    Chunks = 7
    Threads = {w1, w2}
    NoThread = NoThread
INVARIANT HeldPieces
PROPERTIES PlacesTheLevel Terminates
