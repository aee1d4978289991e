SPECIFICATION Spec
CONSTANTS
    None = None
    Tasks = {t1, t2}
    Links = {l1, l2}
    Kinds = {"update", "call"}
    ViewId = FALSE
    ShutdownAnyTime = FALSE
    HangUpFails = FALSE
    MaxFaults = 0
    QueueMax = 1
CHECK_DEADLOCK FALSE
INVARIANTS
    NoOrphan
