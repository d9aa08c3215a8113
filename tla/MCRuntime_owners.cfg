SPECIFICATION Spec
CONSTANTS
    f1 = f1
    f2 = f2
    NoPin = NoPin
    NoPath = NoPath
    SlotIds = {0, 1}
    LegacyLayout = FALSE
    Files = {f1}
    Pins <- OnePin
    EnvPin = NoPin
    InitialPinFiles <- AccessPinFiles
    InitialKeyFiles <- NoFiles
    SecretTemplates <- AccessSecretTemplates
    PairTemplates <- OwnersPairTemplates
    Updates <- Nothing
    Searches <- Nothing
    MaxSession = 3
    MaxObject = 3
INVARIANTS
    SessionObjectsHaveOwner
PROPERTIES
    SessionObjectsKept
    SlotIsolation
