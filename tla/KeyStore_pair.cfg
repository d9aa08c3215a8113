SPECIFICATION Spec
CONSTANTS
    Kind = "pair"
    Keys = {k1, k2}
    Policies = {p1, p2, long}
    Oversized = {long}
    Default = Default
    NoKey = NoKey
    NoFile = NoFile
    Faults = {"crash", "write", "rename", "remove"}
    MaxFaults = 4
INVARIANTS
    TypeOK
    AcknowledgedSurvives
PROPERTIES
    FailedCreationLeavesNothing
    ImplementsRegistry
