SPECIFICATION Spec
CONSTANTS
    Callers = {c1, c2}
    Attempts = 2
    Polls = 6
    RetryTicks = 4
    DropTicks = 2
    ConfirmMax = 2
    PollHold = 0
    Cap = 3
    Garbled = FALSE
    Faults = TRUE
    Touched = TRUE
SYMMETRY Symmetry
INVARIANTS
    PromptInv
PROPERTIES
    NeverInverts
