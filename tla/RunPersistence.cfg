CONSTANTS
    Agents = {"w"}
    MaxRuns = 2
    MaxRows = 2
    WritesFail = TRUE
    Crashes = TRUE
    Revisits = TRUE
    NoDoc = NoDoc
SPECIFICATION Spec
INVARIANT ActiveHasRecord
INVARIANT MarkersHonest
PROPERTY FinalBeforeClear
