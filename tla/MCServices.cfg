SPECIFICATION Spec
CONSTANTS
    f1 = f1
    f2 = f2
    c1 = c1
    s1 = s1
    s2 = s2
    p1 = p1
    p2 = p2
    Files = {f1, f2}
    MaxTyped = 2
    MaxPlans = 1
    MaxRestores = 1
    MaxGenerations = 2
    MaxDisconnects = 2
    MaxConfigured = 2
    Callers = {c1}
    MaxVersions = 3
    MaxCommits = 3
    MaxLinks = 2
    Oversized = 2
    MaxTools = 2
    MaxRequests = 2
    MaxPosted = 1
    MaxSequence = 2
    Sizes = {1, 2}
    MaxWritten = 3
    ContextLimit = 1
    DisplayLimit = 3
    LogLimit = 4
    MaxTokenCount = 3
    Estimates = {0, 1, 2, 4}
    Reports <- MCReports
    Sources = {s1, s2}
    Texts <- MCTexts
    DeltaLimit = 2
    BlockLimit = 2
    RunLimit = 3
    MaxBlocks = 2
    MaxTurns = 2
    MaxThought = 5
    MaxQuestions = 4
    MaxToolCalls = 1
    Windows = {3, 7, 10, 15}
    Histories <- MCHistories
    Attached <- MCAttached
    Frame = 1
    Weights = {1, 3}
    MaxSteps = 2
    Providers = {p1, p2}
    MaxOperations = 2
    MaxSettings = 1
    MaxAsked = 3
    MaxEdits = 2
    Paths = {f1, f2}
    MaxReferences = 1
    MaxReads = 2
    MaxChanges = 1
    MaxEndings = 1
    MaxCaptures = 2
    MaxMoves = 1
    MaxChats = 1
    Found <- MCFound
    MaxEntries = 2
    MaxNodes = 3
    TextLimit = 3
    MaxDisturbances = 2
    MaxKept = 2
    MaxBoxed = 4
    MaxPeers = 2
    MaxFails = 1
    MaxRetries = 2
    LongestWait = 2
    Waits = {0, 1, 3}
    MaxParts = 4
    MaxInvocations = 2
    Sessions = {s1, s2}
    MaxJobs = 2
    MaxExports = 2
    MaxErrorCount = 2
    MaxLeft = 1
INVARIANTS
    TypeOK
    ConnectedMeansLive
    CatalogSettles
    PanelAgrees
    ToolResultsAreTrue
    RunStaysBelowLimit
    RunTellsWhatWasSent
    RestoreShowsTheConversation
    RunIsToldTheConversation
    RequestIsTheRecentPart
    CommandsTellWhatIsSo
    CardsAgreeWithTheHost
PROPERTIES
    CheckpointHoldsWhatWasLost
    RestoreTakesBackOnlyTheChange
    StartsOnlyWhatWasApproved
    AcceptsOnlyWhatIsOffered
    InputsAreAsShown
CHECK_DEADLOCK FALSE
