CONSTANTS
    Items = {i1}
    Scans = {s1, s2}
    Drains = {d1}
    NoNudge = NoNudge
    Delay = 0
    Fresh = 0
    BatchLimit = 1
    MaxTime = 1
    MaxCrashes = 1
SPECIFICATION FairSpec
PROPERTY EveryReminderSettles
CHECK_DEADLOCK FALSE
