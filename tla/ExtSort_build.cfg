SPECIFICATION FairSpec
CONSTANTS
    Keys = {1, 2, 3}
    LenOf <- LastLong
    Budget = 2
    SpanBytes = 1
    FanIn = 2
    Passes = 3
    Faults <- Checked
    MaxInput = 6
INVARIANTS PublishesTheCorpus KeysKept WalksAgree
PROPERTIES LeavesNoRuns Terminates
