SPECIFICATION ServicesSpec
CONSTANTS
    primary = primary
    fast = fast
    alt = alt
    eye = eye
    lens = lens
    lmstudio = lmstudio
    ollama = ollama
    t1 = t1
    t2 = t2
    Models <- TheModels
    Backend <- TheBackend
    Sees <- TheSees
    WindowOf <- TheWindows
    Lanes <- TheLanes
    LaneOrder <- TheLaneOrder
    BackendOrder <- TheBackendOrder
    IntentLane <- TheIntentLane
    Callers <- TheCallers
    Asks <- TheAsks
    LongPrompt = 12
    Margin = 3
    Fallback = "reasoning"
    Cooldown = 2
    Ttl = 1
    MaxTime = 2
    MaxOutages = 1
    NoModel = none
    c1 = c1
    c2 = c2
    Calls <- TheCalls
    Permits = 1
    MaxCrashes = 1
    r1 = r1
    Readers <- TheReaders
    ReplaySize = 3
    QueueSize = 2
    StreamSize = 1
    MaxEvents = 4
    MaxConnects = 2
    w1 = w1
    w2 = w2
    w3 = w3
    Writers <- TheWriters
    Free = free
    MaxRows = 2
    k1 = k1
    k2 = k2
    k3 = k3
    ghost = ghost
    Chunks <- TheChunks
    Allowed <- TheAllowed
    Passage <- ThePassages
    Confidence <- TheConfidence
    Rankings <- TheRankings
    Depth = 2
    RrfK = 60
    FinalK = 2
    MaxSearches = 2
    Results <- TheResults
    Drafts <- TheDrafts
    Documents <- TheDocuments
    Parameters <- TheParameters
    Given <- TheGiven
    Tolerance = 2
    Kinds <- TheKinds
    ParentTokens = 6
    ChildTokens = 3
    OverlapTokens = 1
    WindowTokens = 6
    MaxBlocks = 4
    Lines <- TheLines
    MaxLines = 4
    Replies <- TheReplies
    Texts = 3
    BatchSize = 2
    UploadedFiles <- TheFiles
    Recognitions <- TheRecognitions
    Transcripts <- TheTranscripts
    MinNative = 12
    MinWords = 30
    SampleRows = 2
    MaxPages = 3
    manual = manual
    survey = survey
    Passages <- ThePassagesRead
    Reports <- TheReports
    Decks <- TheDecks
    Books <- TheBooks
    MaxBullets = 2
    TableRows = 2
    SourcesPerSlide = 1
INVARIANTS
    RoutingInv
    ResumedWithoutLoss
    ChainInv
    IntactUnlessOverlapped
    VerifyIsSound
    AnswerLeadsBack
    CalculationsHold
    EverythingIsFindable
    BackendIsQuoted
    PagesSayHowTheyWereRead
    DocumentsCanBeChecked
PROPERTIES
    OutageIsAvoidedThenForgotten
    CallsAndContainersEnd
    ReadersAreReleased
CHECK_DEADLOCK FALSE
