SPECIFICATION ReadingSpec
CONSTANTS
    f1 = f1
    f2 = f2
    NoPin = NoPin
    NoPath = NoPath
    SlotIds = {0}
    LegacyLayout = FALSE
    Files = {f1}
    Pins <- OnePin
    EnvPin = NoPin
    InitialPinFiles <- PolicyPinFiles
    InitialKeyFiles <- PolicyKeyFiles
    SecretTemplates <- PolicySecretTemplates
    PairTemplates <- Nothing
    Updates <- PolicyUpdates
    Searches <- Nothing
    MaxSession = 1
    MaxObject = 3
INVARIANTS
    RegistryMirrorsDisk
    ClosedKeysKept
PROPERTIES
    StickyPolicy
    UndestroyableStays
