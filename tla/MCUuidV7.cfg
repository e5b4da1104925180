CONSTANTS
    Tables = {"runs", "metrics"}
    Clock = {1, 2, 3}
    MaxCounter = 1
    MaxMints = 4
    MaxOpens = 2
SPECIFICATION Spec
INVARIANTS
    TypeOK
    FloorKeepsRows
PROPERTIES
    MintedLast
    CommittedLast
