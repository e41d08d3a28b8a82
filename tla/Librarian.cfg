CONSTANTS
    Agents = {"w"}
    MaxRuns = 2
    MaxRows = 2
    WritesFail = FALSE
    Crashes = TRUE
    Revisits = FALSE
    NoDoc = NoDoc
    Librarians = {"lib"}
    Threshold = 1
    MinPending = 4
    SnapshotLimit = 3
    MemoryLimit = 1
    LogLimit = 4
    Aborts = TRUE
SPECIFICATION LibFairSpec
INVARIANT CoverageHonest
INVARIANT WatermarkSafe
INVARIANT SweptBeforeStop
PROPERTY PurgeSparesPending
PROPERTY LibrarianStops
