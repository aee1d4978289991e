SPECIFICATION FairSpec
CONSTANTS
    home = home
    stranger = stranger
    None = None
    Live = Live
    Windows = {home, stranger}
    Stored = home
    Views = {v1, v2}
    Tells <- OnlyHomeIsShy
    ViewIds = {"text", "refused"}
    MaxFaults = 2
    MaxChanges = 1
    MaxCalls = 1
INVARIANTS
    TypeOK
    OnlyOwnWindow
    OnlyOwnData
    PowerIsHeard
PROPERTIES
    Converges
