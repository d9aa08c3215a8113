SPECIFICATION SigningSpec
CONSTANTS
    f1 = f1
    f2 = f2
    NoPin = NoPin
    NoPath = NoPath
    SlotIds = {1}
    LegacyLayout = TRUE
    Files = {f1, f2}
    Pins <- OnePin
    EnvPin = NoPin
    InitialPinFiles <- LegacyPinFiles
    InitialKeyFiles <- NoFiles
    SecretTemplates <- Nothing
    PairTemplates <- SigningPairTemplates
    Updates <- SigningUpdates
    Searches <- Nothing
    MaxSession = 1
    MaxObject = 2
    MaxUlong = 255
    MaxInt = 127
    MaxMultipart = 64
    Pieces <- SigningPieces
    Capacities <- SigningCapacities
    ClientMechanisms <- SigningMechanisms
    PssParameters <- SigningParameters
    FileKeyType <- SigningFileKeyType
    SessionKeyType = "EC"
    KeyBits <- SigningKeyBits
INVARIANTS
    BufferBounded
PROPERTIES
    FinalUsesAccepted
    UseAuthorised
    LostOnlyByAnswer
    ImplementsRuntime
    TokenWritesAuthorised
