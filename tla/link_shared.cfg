SPECIFICATION FairSpec
CONSTANTS
    None = None
    Tasks = {t1, t2}
    Links = {l1, l2, l3}
    Kinds = {"update", "call"}
    ViewId = TRUE
    ShutdownAnyTime = TRUE
    HangUpFails = TRUE
    MaxFaults = 1
    QueueMax = 0
CHECK_DEADLOCK FALSE
PROPERTIES
    GroundlessEnds
