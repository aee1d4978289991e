SPECIFICATION Spec
CONSTANTS
    e1 = e1
    u1 = u1
    u2 = u2
    None = None
    Entries = {e1}
    Names = {n1, n2}
    Uuids = {u1}
    Suffixes = {power}
    DeviceIds = {1, 2}
    Reports <- Shy
    HastyRenames = TRUE
    MaxCrashes = 0
INVARIANTS
    NoStranded
