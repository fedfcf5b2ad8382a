SPECIFICATION Spec
CONSTANTS
    Keys = {1, 2, 3}
    Bases = {"string", "perfect", "compact"}
    HashOf <- Colliding
    WordBits = 2
    MaxAdditions = 2
    None = None
INVARIANTS IdsAndKeysAgree SavedLoads StreamsLiveKeys
PROPERTIES RemapCarries KeepsIdsStable
