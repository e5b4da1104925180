CONSTANTS
    Seconds = {0, 1}
    MaxMessages = 2
    AttemptsCap = 1
    MaxFaults = 1
    MaxCrashes = 1
    MaxLosses = 1
    MaxFlips = 2
SPECIFICATION FairSpec
INVARIANTS
    TypeOK
    DuplicatesAccountedFor
PROPERTIES
    ChannelSpec
    NoHeadOfLineBlocking
