SPECIFICATION ReindexSpec
CONSTANTS
    Indexed = {d1}
    Saver = {s1, s2}
    Cron = Cron
    DocType = {komentar, clanek, kniha}
    Nobody = Nobody
    Budget = 1
    VersionBound = 2
    FaultSets = {{"fail"}}
INVARIANTS
    NeverDropped
