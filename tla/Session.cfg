CONSTANTS
    Turns = {t1, t2}
    Looks = {l1}
    Places = {office, gym}
    NoPlace = NoPlace
    NoFrame = NoFrame
    Home = Home
    Resting = Resting
    MaxUtterances = 1
    MaxLosses = 1
SPECIFICATION Spec
SYMMETRY Symmetry
INVARIANTS TypeOK SaidIsRemembered ScanIsNotBehind ScanStartsWhereTold
CHECK_DEADLOCK FALSE
