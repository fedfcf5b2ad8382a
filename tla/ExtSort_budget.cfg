SPECIFICATION Spec
CONSTANTS
    Keys = {1, 2}
    LenOf <- LastLong
    Budget = 2
    SpanBytes = 1
    FanIn = 2
    Passes = 1
    Faults = {}
    MaxInput = 3
INVARIANT WithinBudget
