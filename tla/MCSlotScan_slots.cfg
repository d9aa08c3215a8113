SPECIFICATION Spec
CONSTANTS
    Names <- MCNames
    Root = Root
    NoName = NoName
    NoLabel = ""
    MaxId = 15
    LegacyId = 1
INVARIANTS
    ScanTypeOK
    SlotNumbersExact
    NoKeyHidden
    StartExact
