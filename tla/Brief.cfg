CONSTANTS
    Calls = {c1, c2}
    DayLength = 8
    CronEvery = 2
    Lead = 2
    Grace = 1
    LastDay = 1
    MaxFailures = 1
SPECIFICATION Spec
SYMMETRY Symmetry
INVARIANTS TypeOK OneBriefADay ClaimIsSpentWell LearnedDayIsBriefed
CHECK_DEADLOCK FALSE
