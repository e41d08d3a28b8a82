CONSTANTS
    Requests <- MCRequests
    Asks <- MCAsks
    Slots = 2
    Limit = 1
    Buffer = 1
SPECIFICATION Spec
CHECK_DEADLOCK FALSE
INVARIANT GateGuardsProcess
INVARIANT CompletionMeansClean
INVARIANT NotStartedIsHonest
INVARIANT SuccessIsWhole
