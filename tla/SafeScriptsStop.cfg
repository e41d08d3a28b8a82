CONSTANTS
    Requests <- MCRequests
    Asks <- MCAsksOneSlot
    Slots = 1
    Limit = 1
    Buffer = 1
SPECIFICATION FairSpec
CHECK_DEADLOCK FALSE
PROPERTY StopEndsService
PROPERTY ScriptsDie
