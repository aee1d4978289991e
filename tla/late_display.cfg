SPECIFICATION FairSpec
CONSTANTS
    Callers = {c1}
    Attempts = 2
    Polls = 6
    RetryTicks = 4
    DropTicks = 2
    ConfirmMax = 9
    PollHold = 2
    Cap = 10
    Garbled = FALSE
    Faults = TRUE
    Touched = FALSE
INVARIANTS
    LateInv
    OneToggleLands
PROPERTIES
    EveryCallEnds
