\* The guardian council of one vault: three candidates, one covenant.
CONSTANTS
    Guardians = {g1, g2, g3}
    Heirs = {h1, h2}
    Owner = owner
    Cranker = cranker
    NoKey = nokey
    MaxU64 = 1000
    MIN_INACTIVITY_THRESHOLD_SLOTS = 2
    MAX_INACTIVITY_THRESHOLD_SLOTS = 2
    DEFAULT_INACTIVITY_THRESHOLD_SLOTS = 2
    GUARDIAN_REMOVAL_TIMELOCK_SLOTS = 1
    BENEFICIARY_CHANGE_TIMELOCK_SLOTS = 1
    EMERGENCY_SWEEP_TIMELOCK_SLOTS = 0
    GUARDIAN_REMOVAL_COVENANT_TIMELOCK_SLOTS = 0
    MAX_GUARDIANS = 3
    MAX_COVENANT_SIGNERS = 3
    Amounts = {}
    MaxDeposited = 0
    MaxSlot = 4
    MaxCovenants = 1
    MaxInits = 1

SPECIFICATION Spec
SYMMETRY Symmetry

INVARIANTS
    TypeOK
    QuorumWithinCouncil
    CountIsRegistry
    QuorumIsGenuine
    TriggeredMeansSilent
    ActivityDescribesOwner

PROPERTIES
    FrozenOnceTriggered
    HeirChangesWithNotice
    GuardiansLeaveWithCause
    OwnerCloseStrandsNothing
    ImplementsLifecycle

CHECK_DEADLOCK FALSE
