SPECIFICATION Spec
CONSTANTS
    p1 = p1
    p2 = p2
    a = a
    b = b
    Threads = {a, b}
    Processes = {p1, p2}
    ProcessOf <- Apart
    PidOf <- SamePid
    MaxAttempts = 3
    Faults <- AllFaults
    MaxSaves <- TwoAndOne
    MaxCrashes = 1
INVARIANTS TargetWhole OwnTemp FailedUntouched OkIsDurable
CHECK_DEADLOCK FALSE
