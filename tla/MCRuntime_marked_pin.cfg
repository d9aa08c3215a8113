SPECIFICATION Spec
CONSTANTS
    f1 = f1
    f2 = f2
    NoPin = NoPin
    NoPath = NoPath
    SlotIds = {0}
    LegacyLayout = FALSE
    Files = {f1}
    Pins <- MarkedPins
    EnvPin = NoPin
    InitialPinFiles <- OfficerPinFiles
    InitialKeyFiles <- NoFiles
    SecretTemplates <- Nothing
    PairTemplates <- Nothing
    Updates <- Nothing
    Searches <- Nothing
    MaxSession = 2
    MaxObject = 1
INVARIANTS
    PinsSurviveRestart
