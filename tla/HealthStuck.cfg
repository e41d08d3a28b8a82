SPECIFICATION StuckSpec
CONSTANTS
    Deps = {n1, n2, exe}
    Network = {n1, n2}
    MaxConcurrency = 1
    MaxStops = 0
PROPERTY LocalStaysObserved
