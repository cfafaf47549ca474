SPECIFICATION StorageSpec
CONSTANTS
    Writers = {w1, w2}
    Cap = 3
    Spill = 1
    MaxTotal = 4
    Chunks = {1, 2}
    MaxCrashes = 1
    Ex = {1, 2}
    Keys = {"k"}
    Hosts = {"h1", "h2"}
    HostOf <- TwoHosts
    Rules <- SomeRules
    PageSize = 1
    Upgraded = {2}
    Noted = {1}
    Marks = {"tool", "m"}
    Engagements = {"p", "q"}
    ProgramOf <- MCProgramOf
    NameOf <- MCNameOf
    Outcomes <- MCOutcomes
    QueryHosts = {"", "h"}
    IdSegments = {"7", "8"}
    SecretHead = "head"
    SecretTail = "tail"
    MaxRecords = 2
    MaxNote = 2
    MaxRaw = 3
    Calls = {c1, c2}
    Processes = {app1, app2}
    MIGRATIONS <- MCMigrations
    MaxOpens = 2
SYMMETRY MCSymmetry
INVARIANTS StoreInv RecordsCorrect SchemaCorrect RecallsCorrect MemoryCorrect
PROPERTIES WritesAreJustified
CHECK_DEADLOCK FALSE
