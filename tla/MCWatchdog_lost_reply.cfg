CONSTANTS
    IPTargets = {"ip"}
    DomainTargets = {"dns"}
    CheckConfirmations = 1
    CheckConfirmDelay = 1
    RebootMinStreak = 2
    RebootEnabledValues = {TRUE}
    RebootCooldown = 3
    RecoveryTimeout = 2
    HotWindow = 50
    Modes <- SoftOnly
    Gaps <- MCForward
    MaxRuns = 3
    MaxFaults = 0
    MaxCrashes = 0
    MaxReplyLosses = 1
SPECIFICATION Spec
INVARIANTS
    OncePerCooldown
