SPECIFICATION Spec
CONSTANTS
    MaxContext = 10
    Thresholds = {80, 120}
    Boots <- MCBoots
    NewMessages <- MCNewMessages
    MaxMessages = 5
    Summaries = {7, 16, 24}
    Escapes = {0, 6}
    LightMax = 20
    StubChars = 5
    ErrorDistance = 3
    StubDistance = 1
    RemoveDistance = 4
    Overhead = 4
    Tries = 3
    MaxCompactions = 2
INVARIANTS CompactionSuffices CompactionAtomic SourceNeverCut
