\* One part at a time, with two or more requests that overlap.
SPECIFICATION ServicesSpec
VIEW AtWork
CONSTANTS
    c1 = c1
    c2 = c2
    Nodes = 2
    SignoffRequests = {c1, c2}
    Repeats = FALSE
    MaxStamps = 2
    MaxDocEdits = 1
    SignoffMaxFaults = 1
    Annotators = {c1, c2}
    RepliesOverlap = FALSE
    MaxReplies = 1
    MaxVersions = 3
    Clerks = {c1, c2}
    NoClerk = NoClerk
    MaxTicketEdits = 0
    TicketMaxFaults = 1
    Askers = {c1}
    Threshold = 1
    MaxAsks = 2
    MaxUpsets = 1
    MaxOutages = 1
    Chain <- OneModelAndLocal
    FailN = 1
    Settings <- AFewSettings
    QuestionsAsked <- AFewQuestions
    Strengths = {10, 80}
    MaxQuestions = 2
    AnswerMaxFaults = 1
    Evolvers = {c1, c2}
    MaxDrafts = 2
    MaxReflows = 2
    Quota = 1
    EvoMaxFaults = 1
    EvoOverlapFaults = 0
    Curators = {c1, c2}
    Edits <- MetadataEdits
    MaxGovNow = 2
    MaxGovOps = 3
    GovMaxFaults = 1
    GovOverlapFaults = 0
    Librarians = {c1, c2}
    Pieces <- FewPieces
    Facts <- OneFact
    MaxLibOps = 4
    MaxLibOverlap = 3
    LibMaxFaults = 1
    Designers = {c1, c2}
    Sketches <- FewSketches
    FlowNames = {"a", "b"}
    MaxFlows = 2
    MaxFlowOps = 3
    MaxFlowOverlap = 2
    MaxFlowRuns = 1
    FlowMaxFaults = 1
    Owners <- SameName
    About <- OneOfTwoIsAboutSomething
    Capacity = 2
    MaxMemories = 2
    MaxMemorySpans = 1
    MaxForgets = 1
    MemMaxFaults = 1
    AgentCalls <- FewCalls
    Personas <- TwoPersonas
    Toolbox <- TwoTools
    MaxAgentRuns = 2
    Snapshots <- WithdrawnOrNot
    Found <- FewHits
    Searches <- FewSearches
    SearchSettings <- FewSwitches
    RrfK = 4
    MaxSubs = 1
    Things = {x}
    Backers = {loop, admin}
    NoFile = NoFile
    MaxSecond = 2
    MaxBackups = 2
    MaxWrites = 1
    LogRows = 2
    MaxArchivings = 3
    Sockets = {w1, w2}
    Senders = {p1, p2}
    Stations = 1
    Users <- OneUser
    IdOf <- IdOfOneUser
    MaxEdits = 2
    MaxBroadcasts = 2
    Disputed = {"q1"}
    FbTenants = {"default"}
    MaxVotes = 2
    OftenBad = 2
    MaxTears = 1
    Procs = {p1, p2}
    Attempts = 2
    Queues = {"default"}
    Enabled <- TwoLoops
    Fallible = {"config"}
    Admins = {c1, c2}
    Slides = TRUE
    MaxLives = 2
    MaxSaves = 1
    LifeMaxFaults = 1
    Readers = {c1, c2}
    MaxReports = 2
    MaxWritings = 3
    MaxReportWork = 3
    ReportMaxFaults = 1
    Scores <- FewScores
    Callers = {c1, c2}
    Persons = {"admin", "ann"}
    MaxAccounts = 3
    MaxCalls = 2
    MaxStarts = 2
    Requesters = {c1, c2}
    Sites = {"t", "u"}
    TokenMap <- TokenOfT
    SecretMap <- SecretOfU
    OnlySite = "t"
    OnlyToken = ""
    OnlySecret = ""
    SiteOf <- UserOfT
    MayReport = {"ann"}
    Deliveries <- FewDeliveries
    MappingEdits <- InForceOrNot
    Diagnoses <- FewDiagnoses
    MaxDeliveries = 2
    MaxMapped = 1
    IngressMaxFaults = 1
    Checkers = {c1, c2}
    PassagesFound <- ThreePassages
    WrittenDrafts <- FourDrafts
    Alike <- NearPassages
    VeryAlike <- NearestPassages
    Refuting <- ContraryPassages
    MaxChecked = 2
    CiteMaxFaults = 1
    Seekers = {c1, c2}
    Homes = {p1, p2}
    Phrasings = {"a", "b", "z"}
    Likeness <- ThreeLikeness
    SemModels = {"m"}
    IndexLimit = 2
    KeptOnFull = 1
    MaxSought = 2
    MaxSemUpsets = 1
    Sayings <- FewSayings
    DebateMaxFaults = 1
    Pieces4Tickets <- FewTicketPieces
    ModelFindings <- FewFindings
    MaxSteps = 2
    MaxSafety = 1
    MaxRisks = 1
INVARIANTS
    ServicesTypeOK
    CacheKept
    AnswersHold
    EvolutionKept
    GovernanceKept
    LibraryKept
    FlowsHold
    AgentsHold
    RetrievalHolds
    
    LifespanHolds
PROPERTIES
    SignoffKept
    ScreensKept
    LegalMove
CHECK_DEADLOCK FALSE
