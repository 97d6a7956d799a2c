CONSTANTS
    r1 = r1
    r2 = r2
    s1 = s1
    t1 = t1
    t2 = t2
    Readings = {r1, r2}
    Statuses = {s1}
    Tasks = {t1, t2}
    Ages = {0, 1}
    TicksPerSecond = 2
    MaxTime = 2
SPECIFICATION FairSpec
INVARIANTS TypeOK
PROPERTIES PendingKept CleanupByAge StatsOfOneInstant EveryCallReturns
