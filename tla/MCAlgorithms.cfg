SPECIFICATION AlgorithmsSpec
CONSTANTS
    Scripts <- MCScripts
    Misreadings <- MCMisreadings
    Cap = 2
    MaxMessages = 3
    Plans <- MCPlans
    MaxBytes = 10
    Ceiling = 4
    Structural <- MCStructural
    Secrets = {"jwt", "jwt link"}
    KeyBegin = "begin key"
    KeyEnd = "end key"
    SensitiveParams = {"code", "auth", "token"}
    WholeCredentials = {"x-api-key"}
    Readables = {"gzip"}
    PlainLinks = {"link", "jwt link"}
    ErrorMarkers = {"at f"}
    ScannedSecrets = {"jwt", "jwt link"}
    Versioned = {"v1"}
    ShortValues <- MCShort
    SensitiveKeys = {"auth", "token"}
    KeyOrder <- MCKeyOrder
    TextualMimes = {"text/html"}
    MaxScan = 5
    SmallBody = 2
    MaxQuoted = 2
    Named <- MCNamed
    Meaning <- MCMeaning
    MaxSamples = 3
    MaxSampleBytes = 3
    MaxTotalBytes = 5
    MaxPositional = 2
    MaxBody = 4
    Unclean = {"", ".", ".."}
    NameLength <- MCNameLength
    NameBytes <- MCNameBytes
    Packed <- MCPacked
    MaxEntries = 3
    MaxOffset = 250
    Canonical <- MCCanonical
    AnyPath = {}
    Vocabulary <- MCVocabulary
    Words <- MCWords
    ObjectPaths = {"/o/1"}
    Mutating = {"POST"}
    MaxLeads = 2
    MaxLines = 3
    Incidental = {"date"}
INVARIANTS CaptureIsFaithful PayloadPlans  ValuesAreTrue
CHECK_DEADLOCK FALSE
