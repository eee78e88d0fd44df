CONSTANTS
    Items = {i1}
    Requests = {r1}
    GoneAfter = 1
    RelogAfter = 1
    MaxTime = 1
    MaxMishaps = 1
SPECIFICATION FairLoopSpec
PROPERTY StillSceneStaysCached
CHECK_DEADLOCK FALSE
