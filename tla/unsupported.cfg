CONSTANTS
    MaxInt = 50
    Versions <- FewVersions
    NoVersion = NoVersion
    DataFiles = {"catalog", "schema"}
    Texts = {"x", "y"}
    Catalogs = {"x"}
    Schemas = {1, 2, 3}
    Supported = 2
    Embedded <- TheEmbedded
    EmbeddedSchema = "x"
    MaxTokens = 2
    MaxTotal = 4
    MaxStored = 1
SPECIFICATION Spec
CHECK_DEADLOCK FALSE
PROPERTIES UnsupportedIsLast
