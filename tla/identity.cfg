SPECIFICATION Spec
CONSTANTS
    e1 = e1
    u1 = u1
    u2 = u2
    None = None
    Entries = {e1, e2}
    Names = {n1, n2, n3}
    Uuids = {u1, u2}
    Suffixes = {power}
    DeviceIds = {1, 2, 3}
    Reports <- Mixed
    HastyRenames = FALSE
    MaxCrashes = 2
SYMMETRY Symmetry
INVARIANTS
    TypeOK
    OneOwner
    Served
    Repaired
    NoStranded
    OneDevice
