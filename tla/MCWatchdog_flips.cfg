CONSTANTS
    IPTargets = {"ip"}
    DomainTargets = {"dns"}
    CheckConfirmations = 1
    CheckConfirmDelay = 1
    RebootMinStreak = 2
    RebootEnabledValues = {TRUE}
    RebootCooldown = 3
    RecoveryTimeout = 3
    HotWindow = 50
    Modes <- BothModes
    Gaps <- MCForward
    MaxRuns = 3
    MaxFaults = 0
    MaxCrashes = 0
    MaxReplyLosses = 0
SPECIFICATION Spec
PROPERTIES
    GatewayFlipWrittenOnce
