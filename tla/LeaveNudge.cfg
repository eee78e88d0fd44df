CONSTANTS
    Items = {i1, i2}
    Scans = {s1}
    Drains = {d1, d2}
    NoNudge = NoNudge
    Delay = 1
    Fresh = 0
    BatchLimit = 1
    MaxTime = 2
    MaxCrashes = 1
SPECIFICATION Spec
SYMMETRY Symmetry
INVARIANTS TypeOK CancelledWereSeen DuplicateNeedsRace NamedItemsWereUnseen NeverEarly
PROPERTIES RetiredStaysQuiet ImplementsReminder
CHECK_DEADLOCK FALSE
