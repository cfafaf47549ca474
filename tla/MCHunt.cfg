SPECIFICATION HuntSpec
CONSTANTS
    Trees <- MCTrees
    Extras <- MCExtras
    Picks <- MCPicks
    Asked <- MCAsked
    Alphabet <- MCAlphabet
    Locked <- MCLocked
    Malformed = {"", "c:", "policy.md:hidden"}
    DeniedNames = {"secrets.json", "belcher.db", "blobs", "ca.pem"}
    TextNames = {"alias.md", "dump.txt", "key.md", "link.md", "notes.md", "policy.md", "secrets.json", "zz.md"}
    DocNames = {"alias.md", "dump.txt", "key.md", "link.md", "notes.md", "policy.md", "zz.md"}
    NotableNames = {"policy.md", "notes.md"}
    NameRules <- MCNameRules
    ContentRules <- MCContentRules
    DecisiveWords = {"out of scope", "in scope"}
    MaxEntries = 8
    MaxDepth = 2
    MaxText = 3
    DefaultRead = 2
    MaxNotable = 1
    MaxSources = 2
    MaxScanned = 1
    MaxMatches = 2
    MaxFiles = 3
    MaxOps = 4
    MaxChanges = 2
    Folders = {"hunt", "project"}
    Documents <- MCDocuments
    Noise <- MCNoise
    Targets <- MCTargets
    HandRules <- MCHandRules
    MaxWrites = 2
    MaxCandidates = 2
    Page = 1
    Projects = {"p", "q"}
    Profiles <- MCProfiles
    Starts <- MCStarts
    Requests <- MCRequests
    Lower <- MCLower
    UserAgent = "user-agent"
    BadNames = {"host", "bad name"}
    BadValues = {"cr-lf"}
    MaxIdentityHeaders = 2
    Limit = 1
    MaxOpens = 2
    MaxSends = 2
    MaxEdits = 1
    MaxReports = 1
    Stores = {"p", "q"}
    Histories <- MCHistories
    RuleSets <- MCRuleSets
    Flagged = {"e1", "e2", "e3"}
    Wanted = {"T.", "xt"}
    Canonical <- MCCanonicalOf
    LowerCase <- MCLowerCase
    LikeHost <- MCLike
    AnyWhere = "any"
    PageSize = 2
    ScanCap = 4
    MaxExchanges = 2
    MaxJobs = 2
    MaxTurns = 2
INVARIANTS PapersPart ScopeAdoptionCorrect IdentityHolds ReadinessHolds HandoffHolds
CHECK_DEADLOCK FALSE
