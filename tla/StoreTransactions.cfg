SPECIFICATION LibrariesSpec
CONSTANTS
    d1 = d1
    d2 = d2
    d3 = d3
    t1 = t1
    t2 = t2
    t3 = t3
    Library = {1, 2}
    Document = {d2, d3}
    LibraryOf <- MCLibraryOf
    Pages <- MCPages
    QuotaPages <- MCQuotaPages
    GlobalPages = 1
    PurgeBatch = 1
    Transaction = {t1, t2, t3}
    NoDocument = NoDocument
    NoLibrary = NoLibrary
    NoTransaction = NoTransaction
    LibraryParts = {"transactions", "days"}
    Libraries = 2
    RevokedDays = 1
    GraceDays = 1
    PurgePerRun = 1
    ChecksPerRun = 2
    CronIsReliable = FALSE
    HistoryBound = 2
    DayBound = 1
    Null = NoDate
    MaxDrift = 1
SYMMETRY MCSymmetry
INVARIANTS
    CommittedIsSound
    OrdinaryWorkNeverDeadlocks
PROPERTIES
    UploadOutlivesTheRun
    KeptProKeepsDocuments
