CONSTANTS
    MaxRestarts = 1
    MaxFailures = 2
    MaxAsks = 1
    MaxStrays = 1
SPECIFICATION Spec
INVARIANTS TypeOK StandbyIsOwed StandbyIsAlive OnlyOrphansLinger HandedOnce WordsAwaitAnEnd
PROPERTY WordsNotDropped
CHECK_DEADLOCK FALSE
