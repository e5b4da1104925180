CONSTANTS
    IPTargets = {"ip"}
    DomainTargets = {"dns"}
    CheckConfirmations = 1
    CheckConfirmDelay = 1
    RebootMinStreak = 2
    RebootEnabledValues = {TRUE}
    RebootCooldown = 4
    RecoveryTimeout = 2
    HotWindow = 2
    Modes <- SoftOnly
    Gaps <- MCSteps
    MaxRuns = 3
    MaxFaults = 0
    MaxCrashes = 1
    MaxReplyLosses = 0
SPECIFICATION FairSpec
INVARIANTS
    CooldownKept
PROPERTIES
    ClosedRowsAreFinal
    RunEnds
