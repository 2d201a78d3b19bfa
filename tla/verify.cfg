CONSTANTS
    MaxInt = 50
    Versions <- FewVersions
    NoVersion = NoVersion
    DataFiles = {"catalog", "schema"}
    Texts = {"x", "y", "z"}
    Catalogs = {"x", "z"}
    Inventories = {"x"}
    Schemas = {1, 2, 3}
    Supported = 2
    Embedded <- TheEmbedded
    EmbeddedSchema = "x"
    MaxTokens = 2
    MaxTotal = 4
    MaxStored = 1
    Offered <- FewOffered
    MaxOdd = 1
SPECIFICATION VerifySpec
CHECK_DEADLOCK FALSE
INVARIANTS TypeOK WarningTellsDrift FallbackAnnounced StrongestDecides PassMeansUsable SoundPasses
PROPERTIES StoresLoadable ActivatesIntact NeverOlder
