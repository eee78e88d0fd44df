CONSTANTS
    Items = {i1}
    Requests = {r1, r2}
    GoneAfter = 2
    RelogAfter = 3
    MaxTime = 4
    MaxMishaps = 1
SPECIFICATION Spec
SYMMETRY Symmetry
INVARIANTS TypeOK SeenIsOnRecord RelogNeedsMishap GoneNeedsMishap MemoryIsBacked
CHECK_DEADLOCK FALSE
