SPECIFICATION FairLifecycleSpec
CONSTANTS
    Libraries = 2
    RevokedDays = 1
    GraceDays = 1
    PurgePerRun = 1
    ChecksPerRun = 1
    CronIsReliable = TRUE
    HistoryBound = 0
    DayBound = 2
    Null = Null
PROPERTIES
    LostIsPurged
    RestoredIsLeftAlone
