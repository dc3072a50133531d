SPECIFICATION FairCronSpec
CONSTANTS
    Document = {d1}
    Indexed = {d1}
    Run = {w1, w2, Cron}
    Library = {l1}
    Content <- MCContent
    Pages <- MCPages
    QuotaPages <- MCQuotaPages
    Saver = {w1, w2}
    Cron = Cron
    DocType = {komentar, clanek}
    Nobody = Nobody
    Budget = 1
    VersionBound = 3
    FaultSets = {{}, {"die", "fail"}}
    NoLibrary = NoLibrary
    NoContent = NoContent
    NoRun = NoRun
    NoDocument = NoDocument
    l1 = l1
    l2 = l2
    c1 = c1
    c2 = c2
    GlobalPages = 3
    MaxAttempts = 3
INVARIANTS
    QueueIntact
    NeverDropped
PROPERTIES
    SettledOrFailedForGood
    RetryBudget
    QueueDrains
    IndexNeverRegresses
    CatchesUp
    RequestOutlivesFailures
