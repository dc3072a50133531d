SPECIFICATION Spec
CONSTANTS
    ConnInstances = {i1, i2}
    ConnTasks = {t1, t2, t3}
    NoTask = NoTask
    ConnKinds = {"callback", "disconnect", "tool"}
    Unreliable = TRUE
    Uploadables = {f1, f2}
    NoUploadable = NoUploadable
    NoHref = NoHref
    MaxEntries = 4
    MaxChanges = 5
    Rows = {1, 2}
    MaxLoops = 3
    Tabs = {1, 2}
    Texts = {0, 1}
    MaxMeta = 3
    MaxAsks = 2
    QueryVariants = {"v1", "v2"}
    MaxHits = 6
    MaxLimit = 3
    HitsBudget = 3
    FusedDocs = {1, 2}
    ChunkOrds = {1, 2, 3}
    ChannelDepth = 3
    SqlPerDoc = 2
    ShownPerDoc = 1
    DocDepth = 2
    WindowChars = 8
    SnapSlack = 2
    TocChars = 12
    TocPages = 3
    ReadLengths = {7, 15}
    TailReach = 3
    MaxDmdLines = 5
    ChunkTarget = 3
    ChunkMin = 2
    ChunkMax = 5
    MaxGlue = 8
    t1 = t1
    t2 = t2
    t3 = t3
    r1 = r1
    k1 = k1
    k2 = k2
    u1 = u1
    u2 = u2
    HttpRequest = {t1, t2, t3, r1}
    HttpKey = {k1, k2}
    HttpUser = {u1, u2}
    WholeInstance = WholeInstance
    KeyOf <- MCKeyOf
    UserOf <- MCUserOf
    ConcurrencyPerUser = 2
    BreakerInvalidKeys = 2
    BreakerTicks = 2
    MaxBackoffWait = 1
    MaxRetryAfter = 0
    Wait = {2}
    NoRetryAfter = NoRetryAfter
SYMMETRY ClientSymmetry
CHECK_DEADLOCK FALSE
INVARIANTS
    ConnectionIsTheUsers
    SlotsHeld
    RejectedKeyCosts
    PageIsCurrent
    ModalsKeepWork
    NothingSavedUnseen
    AnswersFollowTheRecord
    ReadingIsWhole
    StructureIsFound
    ChunksAreWhole
PROPERTIES
    RejectionClearsOnlyItsKey
    OneKeyNeverTrips
    PauseHonoured
