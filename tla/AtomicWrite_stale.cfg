SPECIFICATION Spec
CONSTANTS
    p1 = p1
    p2 = p2
    a = a
    b = b
    Threads = {a, b}
    Processes = {p1}
    ProcessOf <- Together
    PidOf <- SamePid
    MaxAttempts = 2
    Faults = {}
    MaxSaves <- Thrice
    MaxCrashes = 2
INVARIANTS RetriesAreStale
CHECK_DEADLOCK FALSE
