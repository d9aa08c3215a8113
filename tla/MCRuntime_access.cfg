SPECIFICATION Spec
CONSTANTS
    f1 = f1
    f2 = f2
    NoPin = NoPin
    NoPath = NoPath
    SlotIds = {0, 1}
    LegacyLayout = FALSE
    Files = {f1}
    Pins <- OnePin
    EnvPin = NoPin
    InitialPinFiles <- AccessPinFiles
    InitialKeyFiles <- AccessKeyFiles
    SecretTemplates <- AccessSecretTemplates
    PairTemplates <- Nothing
    Updates <- Nothing
    Searches <- AccessSearches
    MaxSession = 2
    MaxObject = 3
INVARIANTS
    TypeOK
    SecretsNeedLogin
    ReferencesInSlot
PROPERTIES
    StaleStaysStale
