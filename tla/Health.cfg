SPECIFICATION FairSpec
CONSTANTS
    Deps = {n1, n2, exe}
    Network = {n1, n2}
    MaxConcurrency = 1
    MaxStops = 1
INVARIANTS NoOverlappingChecks SlotsBoundChecks
PROPERTY KeepsObserving
