SPECIFICATION LibrariesSpec
CONSTANTS
    d1 = d1
    d2 = d2
    d3 = d3
    t1 = t1
    t2 = t2
    t3 = t3
    Library = {1, 2}
    Document = {d1, d2}
    LibraryOf <- MCLibraryOf
    Pages <- MCPages
    QuotaPages <- MCQuotaPages
    GlobalPages = 2
    PurgeBatch = 1
    Transaction = {t1, t2}
    NoDocument = NoDocument
    NoLibrary = NoLibrary
    NoTransaction = NoTransaction
    LibraryParts = {"transactions"}
    Libraries = 2
    RevokedDays = 1
    GraceDays = 1
    PurgePerRun = 1
    ChecksPerRun = 2
    CronIsReliable = FALSE
    HistoryBound = 2
    DayBound = 1
    Null = NoDate
    MaxDrift = 0
SYMMETRY MCSymmetry
INVARIANTS
    PurgedIsEmpty
