CONSTANTS
    MaxCalls = 2
    MaxAttempts = 2
    MaxChunks = 2
    Timed = {2}
    Replacement = {1}
SPECIFICATION FairSpec
INVARIANT ReturnedStreamWhole
INVARIANT AttemptsNeverMix
INVARIANT AtMostOneLateDelta
PROPERTY SignalEndsCall
