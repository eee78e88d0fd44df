CONSTANTS
    Items = {i1}
    Scans = {s1}
    Drains = {d1}
    NoNudge = NoNudge
    Delay = 1
    Fresh = 0
    BatchLimit = 1
    MaxCrashes = 0
    Requests = {r1}
    GoneAfter = 1
    RelogAfter = 2
    MaxTime = 3
    MaxMishaps = 1
SPECIFICATION BothSpec
INVARIANT LateSightingsCount
CHECK_DEADLOCK FALSE
