CONSTANTS
    Calls <- MCCalls
    Threads <- MCThreads
    Owner <- MCOwner
    Timed <- MCTimed
    Slots = 1
SPECIFICATION FairSpec
INVARIANT SlotAccounting
PROPERTY WaitEnds
PROPERTY PoolRecovers
PROPERTY ImplementsContract
