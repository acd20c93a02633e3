\* One vault, two lives; faults, a broken stream, a restart.
CONSTANTS
    MIN_INACTIVITY_THRESHOLD_SLOTS = 2
    MAX_INACTIVITY_THRESHOLD_SLOTS = 2
    MaxSlot = 3
    MaxInits = 2
    WARNING_SLOT_PCT_75 = 50
    WARNING_SLOT_PCT_90 = 90
    SlotLead = 1
    MaxInbox = 1
    MaxFaults = 1
    MaxCrashes = 1

SPECIFICATION FairSpec

INVARIANTS
    TypeOK
    SignalledOnce
    AlertsAreGrounded

PROPERTIES
    GoneIsForgotten
    DueVaultSignalled

CHECK_DEADLOCK FALSE
