CONSTANTS
    IPTargets = {"ip"}
    DomainTargets = {"dns"}
    CheckConfirmations = 1
    CheckConfirmDelay = 1
    RebootMinStreak = 2
    RebootEnabledValues = {TRUE}
    RebootCooldown = 4
    RecoveryTimeout = 2
    HotWindow = 50
    Modes <- BothModes
    Gaps <- MCForward
    MaxRuns = 4
    MaxFaults = 0
    MaxCrashes = 1
    MaxReplyLosses = 0
SPECIFICATION Spec
INVARIANTS
    TypeOK
    HealthyCorroboration
    OutageActedUpon
    RebootOnRecord
    EpisodeToldOnce
    RecoveryTimeline
