CONSTANTS
    IPTargets = {"ip"}
    DomainTargets = {"dns"}
    CheckConfirmations = 1
    CheckConfirmDelay = 1
    RebootMinStreak = 2
    RebootEnabledValues = {TRUE, FALSE}
    RebootCooldown = 3
    RecoveryTimeout = 2
    HotWindow = 50
    Modes <- BothModes
    Gaps <- MCForward
    MaxRuns = 3
    MaxFaults = 1
    MaxCrashes = 1
    MaxReplyLosses = 1
SPECIFICATION Spec
INVARIANTS
    MonitorOnly
    RebootConfirmed
    RebootCorroborated
    ExitCodeTruthful
