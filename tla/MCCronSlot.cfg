CONSTANTS
    RawConfirmations = {0, 2, 5, 9}
    RawDelays = {0, 20, 60, 600}
    CheckTimeout = 5
    TelemetryTimeout = 15
    Slot = 300
SPECIFICATION Spec
INVARIANT ConfirmedWithinSlot
CHECK_DEADLOCK FALSE
