SPECIFICATION LifecycleSpec
CONSTANTS
    Libraries = 1
    RevokedDays = 6
    GraceDays = 6
    PurgePerRun = 5
    ChecksPerRun = 50
    CronIsReliable = TRUE
    HistoryBound = 18
    DayBound = 1
    Null = Null
INVARIANTS
    PurgedWithinAWeek
