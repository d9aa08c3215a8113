SPECIFICATION Spec
CONSTANTS
    f1 = f1
    f2 = f2
    NoPin = NoPin
    NoPath = NoPath
    SlotIds = {0, 1}
    LegacyLayout = FALSE
    Files = {f1}
    Pins <- TwoPins
    EnvPin <- OtherPin
    InitialPinFiles <- SessionsPinFiles
    InitialKeyFiles <- NoFiles
    SecretTemplates <- Nothing
    PairTemplates <- Nothing
    Updates <- Nothing
    Searches <- Nothing
    MaxSession = 4
    MaxObject = 1
INVARIANTS
    LoginNeedsSession
    SoExcludesReadOnly
    PinsSurviveRestart
