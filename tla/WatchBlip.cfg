CONSTANTS
    Items = {i1}
    Requests = {r1}
    GoneAfter = 2
    RelogAfter = 3
    MaxTime = 4
    MaxMishaps = 0
SPECIFICATION LoopSpec
INVARIANT GoneMeansAbsent
CHECK_DEADLOCK FALSE
