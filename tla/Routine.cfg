CONSTANTS
    work = work
    gym = gym
    badge = badge
    Routines = {work, gym}
    Items = {badge}
    Starter <- MCStarter
    Minutes = {0, 4, 5}
    Calendars <- MCCalendars
    UserTimes = {0}
    Span = 1
    Window = 3
    Requests = {r1, r2}
    MaxTrips = 4
    MaxCorrections = 1
SPECIFICATION Spec
SYMMETRY Symmetry
INVARIANTS TypeOK ExpectedIsAccountedFor CountedTripsWereMade TimeFollowsTheHabit
PROPERTIES TimeIsNeverLost LossIsCorrectionOrRace
CHECK_DEADLOCK FALSE
