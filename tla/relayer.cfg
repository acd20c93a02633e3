\* The relayer in both modes: two attempts, two faults, one restart.
CONSTANTS
    MIN_INACTIVITY_THRESHOLD_SLOTS = 1
    MAX_INACTIVITY_THRESHOLD_SLOTS = 2
    MaxSlot = 4
    MaxInits = 2
    Modes = {"same-process", "separate-process"}
    Signatures = {"unchecked", "valid", "invalid"}
    Handlers = {c1, c2}
    MAX_ATTEMPTS = 2
    MaxFaults = 2
    MaxCrashes = 1

SPECIFICATION FairSpec

INVARIANTS
    RelayerTypeOK
    OneBroadcast
    ConfirmedIsTriggered

PROPERTIES
    PreflightIsSound
    JobsEnd
    EventuallyTriggered

CHECK_DEADLOCK FALSE
