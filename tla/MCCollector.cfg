CONSTANTS
    MaxProcs = 2
    Readers = {d1}
    None = None
    MaxRuns = 2
    Times = {0, 2}
    NumChecks = 1
    HotWindow = 1
    Retention = 1
    VacuumInterval = 2
SPECIFICATION FairSpec
INVARIANTS
    TypeOK
    RunBoundary
    OpenRunIsHot
PROPERTIES
    DetailWhole
    HostOfItsRun
    VacuumStampHonest
    HistorySpec
    FlockFreed
