SPECIFICATION Spec
CONSTANTS
    p1 = p1
    p2 = p2
    marked = marked
    ended = ended
    long = long
    Pins <- MCPins
    BadPins <- MCBadPins
    Unmarked <- MCUnmarked
    Rest = Rest
    NoPin = NoPin
    EnvPin = p1
    Faults = {"crash", "memory", "write", "rename", "remove"}
    MaxFaults = 2
INVARIANTS
    PinTypeOK
    PinFilesWhole
PROPERTIES
    LeftByFaultOnly
    StaleKept
    ChangesAreAtomic
