SPECIFICATION FairSpec
CONSTANTS
    None = None
    Tasks = {t1}
    Links = {l1, l2, l3}
    Kinds = {"update", "call"}
    ViewId = TRUE
    ShutdownAnyTime = FALSE
    HangUpFails = FALSE
    MaxFaults = 3
    QueueMax = 2
CHECK_DEADLOCK FALSE
INVARIANTS
    TypeOK
    OneLink
    NoOrphan
    LossIsNoticed
    ShutdownReleases
    Grounded
PROPERTIES
    HealthyLinkKept
    Reconnects
