CONSTANTS
    Turns = {t1, t2}
    Looks = {l1}
    Places = {office, gym}
    NoPlace = NoPlace
    NoFrame = NoFrame
    Home = Home
    Resting = Resting
    MaxUtterances = 2
    MaxLosses = 1
SPECIFICATION Spec
SYMMETRY Symmetry
INVARIANT PlaceIsRemembered
CHECK_DEADLOCK FALSE
