SPECIFICATION Spec
CONSTANTS
    Kind = "secret"
    Keys = {k1, k2}
    Policies = {p1, p2, long}
    Oversized = {long}
    Default = Default
    NoKey = NoKey
    NoFile = NoFile
    Faults = {"crash", "write", "rename", "remove"}
    MaxFaults = 1
INVARIANTS
    OwnPolicy
