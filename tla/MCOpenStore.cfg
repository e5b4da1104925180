CONSTANTS
    None = None
    MaxDbs = 4
    MaxClock = 4
    CalmAt = 2
    MaxFaults = 2
    MaxConns = 2
    StaleAfter = 1
    ClockSteps <- SetBack
SPECIFICATION FairSpec
INVARIANTS
    NoForeignWal
    HistoryKept
    StaleIsNoticed
PROPERTIES
    DaemonServes
