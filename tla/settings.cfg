CONSTANTS
    w1 = w1
    w2 = w2
    c1 = c1
    Windows = {w1, w2}
    Kind <- MCKind
    Ranges <- MCRanges
    Callers = {c1}
    Targets <- MCTargets
    Asked = {0, 1}
    Parts = 1
    Touched = {w1}
    AirMax = 2
    MaxFaults = 1
    Poll = Poll
    Nobody = Nobody
CHECK_DEADLOCK FALSE
SPECIFICATION Spec
INVARIANTS TypeOK InBounds SettledIsTrue TypedWrites
PROPERTIES Converges
