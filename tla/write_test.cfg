CONSTANTS
    k1 = k1
    k2 = k2
    Keys = {k1, k2}
    Top = 1
    None = None
    Plans <- MCPlans
    Starts <- MCStarts
    Cuts = {2, 8}
    Touched = {k2}
    AirMax = 2
    QueueMax = 1
    MaxFaults = 1
    MaxSize = 20
    Service = Service
CHECK_DEADLOCK FALSE
SPECIFICATION Spec
INVARIANTS TypeOK Resyncs SpoiltBriefly VerdictTrue PutsBack
PROPERTIES InOrder TestEnds
