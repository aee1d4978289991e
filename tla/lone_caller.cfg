SPECIFICATION FairSpec
CONSTANTS
    Callers = {c1}
    Attempts = 2
    Polls = 6
    RetryTicks = 4
    DropTicks = 2
    ConfirmMax = 5
    PollHold = 2
    Cap = 6
    Garbled = FALSE
    Faults = FALSE
    Touched = FALSE
INVARIANTS
    TypeOK
    LoneInv
PROPERTIES
    PromiseKept
