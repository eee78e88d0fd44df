CONSTANTS
    airpods = airpods
    case = case
    keys = keys
    inHand = inHand
    onTable = onTable
    byAirpods = byAirpods
    leaving = leaving
    Names = {airpods, case, keys}
    Within <- MCWithin
    Details = {inHand, onTable, byAirpods}
    Mentions <- MCMentions
    OnPerson = {inHand}
    Doings = {leaving}
    HalfLife = 1
    MaxTime = 2
    DayLengths <- MCDayLengths
    WallClock <- MCWallClock
    Limit = 2
    Window = 1
    MaxNames = 1
    MaxBullets = 1
    Expected = {airpods, keys}
    Frames <- MCFrames
    Scans = {s1}
    Sayings <- MCSayings
    Lag = 1
    MaxRows = 3
SPECIFICATION Spec
INVARIANTS TypeOK VerdictOnEvidence ToldOnItsDay RecapAccountsForAll
CHECK_DEADLOCK FALSE
