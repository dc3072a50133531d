SPECIFICATION Spec
CONSTANTS
    p1 = p1
    p2 = p2
    p3 = p3
    p4 = p4
    NoDate = NoDate
    ModeTicks = 2
    MeasureTicks = 1
    FreshTicks = 1
    AccessTicks = 3
    MonthTicks = 5
    LastTick = 6
    MaxSettings = 2
    Uploads = {p1, p2, p3}
    Shelves = 2
    ShelfDay = 2
    GlobalDay = 2
    MaxTakedowns = 2
    Callers = {p1, p2, p3}
    NoCacheLoad = NoCacheLoad
    MaxGeneration = 3
    Searches = {p1, p2, p3}
    MaxSessions = 4
    MaxLosses = 3
    Requests = {p1, p2, p3, p4}
    NsConcurrency = 2
    Groups = 2
    MaxLibraries = 3
    ScanPerLibrary = 2
    ScanTotal = 3
    MaxCasePages = 2
    Readers = {p1, p2, p3}
    NoLoad = NoLoad
    MaxVersion = 2
    MaxScan = 2
    Chunks = 3
    ChunkPages = 2
    TextEntries = 1
    MaxConversions = 1
    Attempts = 2
    ScanCap = 6
    ScanBatch = 2
    ArticleCap = 4
    ArticleBatch = 2
    Fetches = {p1, p2}
    DownTime = 2
    MaxChanges = 2
    PageChars = 5
    CourtCalls = {p1, p2}
    NoCourtCall = NoCourtCall
    PageSize = 1
    MaxRows = 2
    MaxSearches = 2
    MaxMishaps = 2
    EuBudget = 4
    EuTimeout = 2
    EuMinLeft = 1
    EuRetryLeft = 2
    MaxEuFaults = 3
    FanLanes <- MCLanes
    SourceLimit = 2
    NssDeadline = 3
    LaneDeadline = 2
    PreviewTime = 2
    FanBudget = 5
    NsWindow = 4
    CuriaCap = 4
    PrimoPage = 2
    PrimoCap = 4
    PspRows = 2
    PspPages = 5
    PagedHits = 3
    PagedLimits = {1, 2, 3}
SYMMETRY ServicesSymmetry
CHECK_DEADLOCK FALSE
INVARIANTS
    SearchIsHonest
    SharedReadsAreSound
    PdfTextIsReached
    OneItemHonestly
    OperatorIsObeyed
    SourcesAreShared
    PagingIsWhole
    FanOutIsHonest
    PurgedInTime
