\* Two lives of one address: deposits, shielding, settlement, re-initialisation.
CONSTANTS
    Guardians = {g1, g2}
    Heirs = {h1, h2}
    Owner = owner
    Cranker = cranker
    NoKey = nokey
    MaxU64 = 1000
    MIN_INACTIVITY_THRESHOLD_SLOTS = 1
    MAX_INACTIVITY_THRESHOLD_SLOTS = 2
    DEFAULT_INACTIVITY_THRESHOLD_SLOTS = 2
    GUARDIAN_REMOVAL_TIMELOCK_SLOTS = 1
    BENEFICIARY_CHANGE_TIMELOCK_SLOTS = 1
    EMERGENCY_SWEEP_TIMELOCK_SLOTS = 0
    GUARDIAN_REMOVAL_COVENANT_TIMELOCK_SLOTS = 0
    MAX_GUARDIANS = 3
    MAX_COVENANT_SIGNERS = 3
    Amounts = {1}
    MaxDeposited = 2
    MaxSlot = 3
    MaxCovenants = 1
    MaxInits = 2

SPECIFICATION Spec
SYMMETRY Symmetry

INVARIANTS
    CountWithinRegistry
    DepositsAccounted

PROPERTIES
    PaidToHeirUnlessShielded

CHECK_DEADLOCK FALSE
