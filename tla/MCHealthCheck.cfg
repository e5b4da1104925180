CONSTANTS
    Requests = {r1, r2, r3}
    None = None
    Router = 2
    NumCalls = 3
SPECIFICATION FairSpec
INVARIANTS
    OneLogin
    OkIsEarned
PROPERTIES
    EverySweepEnds
