----------------------------- MODULE LegacyVault -----------------------------
(***************************************************************************)
(* The legacy_vault Solana program: one vault address (one owner, one      *)
(* vault_index) and the accounts derived from it - the vault, its          *)
(* activity record, one account per guardian, one account per covenant.    *)
(* Every instruction is an action; a transaction is atomic, so its guards  *)
(* are the account constraints and the require! checks of its handler.     *)
(*                                                                         *)
(* An account that does not exist is written in a normal form: NoVault,    *)
(* NoActivity, a guardian outside `registered`, NoCovenant.  The fields    *)
(* is_claimed, is_emergency_swept, is_executed and is_active = FALSE are   *)
(* only ever written by the instruction that closes the account, so no     *)
(* stored account shows them and the model has no field for them; the      *)
(* warning flags of the vault are FALSE in every stored account.           *)
(* Rent is not modelled: lamports counts what sits above it.               *)
(***************************************************************************)
EXTENDS VaultMath, Sequences, FiniteSets

CONSTANTS
    Guardians,      \* wallets that may be put forward as guardians
    Heirs,          \* keys that may be named beneficiary
    Owner,          \* the owner's wallet
    Cranker,        \* any other wallet that submits transactions
    NoKey           \* Pubkey::default()

CONSTANTS
    MIN_INACTIVITY_THRESHOLD_SLOTS,
    MAX_INACTIVITY_THRESHOLD_SLOTS,
    DEFAULT_INACTIVITY_THRESHOLD_SLOTS,
    GUARDIAN_REMOVAL_TIMELOCK_SLOTS,
    BENEFICIARY_CHANGE_TIMELOCK_SLOTS,
    EMERGENCY_SWEEP_TIMELOCK_SLOTS,
    GUARDIAN_REMOVAL_COVENANT_TIMELOCK_SLOTS,
    MAX_GUARDIANS,
    MAX_COVENANT_SIGNERS

CONSTANTS
    Amounts,        \* lamport amounts passed to the deposit instructions
    MaxDeposited,   \* bound on the lamports one vault records
    MaxSlot,        \* bound on the clock
    MaxCovenants,   \* bound on covenant_counter
    MaxInits        \* bound on the number of times the address is initialised

Timelocks == { GUARDIAN_REMOVAL_TIMELOCK_SLOTS, BENEFICIARY_CHANGE_TIMELOCK_SLOTS,
               EMERGENCY_SWEEP_TIMELOCK_SLOTS,
               GUARDIAN_REMOVAL_COVENANT_TIMELOCK_SLOTS }

ASSUME KeysAssumption ==
    /\ IsFiniteSet(Guardians)
    /\ NoKey \notin Guardians \cup Heirs
    /\ Owner \notin Guardians \cup Heirs \cup {NoKey, Cranker}
    /\ Cranker \notin Heirs

ASSUME LimitsAssumption ==
    /\ MIN_INACTIVITY_THRESHOLD_SLOTS \in Nat \ {0}
    /\ MAX_INACTIVITY_THRESHOLD_SLOTS \in Nat
    /\ DEFAULT_INACTIVITY_THRESHOLD_SLOTS \in
           MIN_INACTIVITY_THRESHOLD_SLOTS..MAX_INACTIVITY_THRESHOLD_SLOTS
    /\ Timelocks \subseteq Nat
    /\ MAX_GUARDIANS \in Nat \ {0}
    /\ MAX_COVENANT_SIGNERS \in Nat \ {0}
    /\ Amounts \subseteq Nat
    /\ {MaxDeposited, MaxSlot, MaxCovenants, MaxInits} \subseteq Nat

VARIABLES
    slot,               \* Clock::slot
    vault,              \* VaultAccount
    activity,           \* ActivityAccount
    registered,         \* the guardians that have a GuardianAccount
    removal_requested,  \* removal_requested_slot of each of them
    covenants,          \* CovenantAccount by covenant_index
    lamports            \* balance of the vault account above rent

VARIABLES               \* history, read by the properties and by the bounds only
    received,           \* lamports the vault has paid to each party
    quorum_slot,        \* slot at which enough distinct guardians had signed
    inits               \* how often the vault address has been initialised

accounts == <<vault, activity, registered, removal_requested, covenants, lamports>>
vars     == <<slot, vault, activity, registered, removal_requested, covenants,
              lamports, received, quorum_slot, inits>>

-----------------------------------------------------------------------------
(* state/*.rs *)

CovenantIndex == 0..(MaxCovenants - 1)
CovenantTypes == {"EmergencySweep", "BeneficiaryChange", "GuardianRemoval"}
Parties       == Heirs \cup {Owner, Cranker}

VaultAccount ==
    [ status : {"absent", "open", "triggered"},
      beneficiary : Heirs \cup {NoKey},
      guardian_count : Nat, m_of_n_threshold : Nat,
      inactivity_threshold_slots : Nat,
      last_check_in_slot : Nat, created_slot : Nat,
      deposited_lamports : Nat, covenant_counter : Nat,
      shielded : BOOLEAN ]

NoVault ==
    [ status |-> "absent", beneficiary |-> NoKey,
      guardian_count |-> 0, m_of_n_threshold |-> 0,
      inactivity_threshold_slots |-> 0,
      last_check_in_slot |-> 0, created_slot |-> 0,
      deposited_lamports |-> 0, covenant_counter |-> 0,
      shielded |-> FALSE ]

ActivityAccount ==
    [ checkin_count : Nat, sum_of_intervals : Nat,
      anomaly_flagged : BOOLEAN, anomaly_flagged_slot : Nat ]

NoActivity ==
    [ checkin_count |-> 0, sum_of_intervals |-> 0,
      anomaly_flagged |-> FALSE, anomaly_flagged_slot |-> 0 ]

CovenantAccount ==
    [ covenant_type : CovenantTypes \cup {"none"},
      target : Guardians \cup Heirs \cup {NoKey},
      signers : Seq(Guardians),
      required_signatures : Nat,
      signatures_complete_slot : Nat ]

NoCovenant ==
    [ covenant_type |-> "none", target |-> NoKey, signers |-> <<>>,
      required_signatures |-> 0, signatures_complete_slot |-> 0 ]

Exists  == vault.status # "absent"
Open    == vault.status = "open"         \* exists and !is_triggered
HasCovenant(i) == covenants[i].covenant_type # "none"

timelock_slots(type) ==
    CASE type = "EmergencySweep"    -> EMERGENCY_SWEEP_TIMELOCK_SLOTS
      [] type = "BeneficiaryChange" -> BENEFICIARY_CHANGE_TIMELOCK_SLOTS
      [] type = "GuardianRemoval"   -> GUARDIAN_REMOVAL_COVENANT_TIMELOCK_SLOTS

SignerSet(c) == { c.signers[k] : k \in DOMAIN c.signers }

TypeOK ==
    /\ slot \in Nat \ {0}
    /\ vault \in VaultAccount
    /\ activity \in ActivityAccount
    /\ registered \in SUBSET Guardians
    /\ removal_requested \in [Guardians -> Nat]
    /\ covenants \in [CovenantIndex -> CovenantAccount]
    /\ lamports \in Nat
    /\ received \in [Parties -> Nat]
    /\ quorum_slot \in [CovenantIndex -> Nat]
    /\ inits \in Nat

Init ==
    /\ slot = 1
    /\ vault = NoVault
    /\ activity = NoActivity
    /\ registered = {}
    /\ removal_requested = [g \in Guardians |-> 0]
    /\ covenants = [i \in CovenantIndex |-> NoCovenant]
    /\ lamports = 0
    /\ received = [p \in Parties |-> 0]
    /\ quorum_slot = [i \in CovenantIndex |-> 0]
    /\ inits = 0

Tick ==
    /\ slot < MaxSlot
    /\ slot' = slot + 1
    /\ UNCHANGED <<accounts, received, quorum_slot, inits>>

-----------------------------------------------------------------------------
(* The owner's instructions *)

ThresholdInRange(t) ==
    /\ t >= MIN_INACTIVITY_THRESHOLD_SLOTS
    /\ t <= MAX_INACTIVITY_THRESHOLD_SLOTS

\* `init` succeeds whenever the address holds no account, so also after an
\* earlier vault at this address was closed.
InitializeVault(beneficiary, threshold) ==
    LET chosen == IF threshold = 0 THEN DEFAULT_INACTIVITY_THRESHOLD_SLOTS
                                   ELSE threshold
    IN  /\ ~Exists
        /\ inits < MaxInits
        /\ ThresholdInRange(chosen)
        /\ beneficiary # NoKey
        /\ vault' = [ NoVault EXCEPT !.status = "open",
                                     !.beneficiary = beneficiary,
                                     !.inactivity_threshold_slots = chosen,
                                     !.last_check_in_slot = slot,
                                     !.created_slot = slot ]
        /\ activity' = NoActivity
        /\ inits' = inits + 1
        /\ UNCHANGED <<slot, registered, removal_requested, covenants, lamports,
                       received, quorum_slot>>

\* Slip: no is_triggered check.
CheckInAfterTrigger ==
    LET interval == slot - vault.last_check_in_slot
    IN  /\ Exists
        /\ interval > 0
        /\ activity' = [ activity EXCEPT !.checkin_count = @ + 1,
                                         !.sum_of_intervals = @ + interval,
                                         !.anomaly_flagged = FALSE,
                                         !.anomaly_flagged_slot = 0 ]
        /\ vault' = [vault EXCEPT !.last_check_in_slot = slot]
        /\ UNCHANGED <<slot, registered, removal_requested, covenants, lamports,
                       received, quorum_slot, inits>>

\* Slip: the same-slot check-in is let through.
CheckInTwiceInASlot ==
    LET interval == slot - vault.last_check_in_slot
    IN  /\ Open
        /\ activity.checkin_count <= MaxSlot
        /\ activity' = [ checkin_count |-> activity.checkin_count + 1,
                         sum_of_intervals |-> activity.sum_of_intervals + interval,
                         anomaly_flagged |-> FALSE,
                         anomaly_flagged_slot |-> 0 ]
        /\ vault' = [vault EXCEPT !.last_check_in_slot = slot]
        /\ UNCHANGED <<slot, registered, removal_requested, covenants, lamports,
                       received, quorum_slot, inits>>

CheckIn ==
    LET interval == slot - vault.last_check_in_slot
    IN  /\ Open
        /\ interval > 0
        /\ Checked(activity.sum_of_intervals + interval) # Overflow
        /\ Checked(activity.checkin_count + 1) # Overflow
        /\ activity' = [ checkin_count |-> activity.checkin_count + 1,
                         sum_of_intervals |-> activity.sum_of_intervals + interval,
                         anomaly_flagged |-> FALSE,
                         anomaly_flagged_slot |-> 0 ]
        /\ vault' = [vault EXCEPT !.last_check_in_slot = slot]
        /\ UNCHANGED <<slot, registered, removal_requested, covenants, lamports,
                       received, quorum_slot, inits>>

ConfigureThreshold(threshold) ==
    /\ Open
    /\ ThresholdInRange(threshold)
    /\ vault' = [vault EXCEPT !.inactivity_threshold_slots = threshold]
    /\ UNCHANGED <<slot, activity, registered, removal_requested, covenants,
                   lamports, received, quorum_slot, inits>>

\* Slip: the recorded total is assigned, not added to.
DepositOverwrites(amount) ==
    /\ Open
    /\ amount > 0
    /\ ~vault.shielded
    /\ lamports + amount <= MaxDeposited
    /\ lamports' = lamports + amount
    /\ vault' = [vault EXCEPT !.deposited_lamports = amount]
    /\ UNCHANGED <<slot, activity, registered, removal_requested, covenants,
                   received, quorum_slot, inits>>

Deposit(amount) ==
    /\ Open
    /\ amount > 0
    /\ ~vault.shielded
    /\ Checked(vault.deposited_lamports + amount) # Overflow
    /\ vault.deposited_lamports + amount <= MaxDeposited
    /\ lamports' = lamports + amount
    /\ vault' = [vault EXCEPT !.deposited_lamports = @ + amount]
    /\ UNCHANGED <<slot, activity, registered, removal_requested, covenants,
                   received, quorum_slot, inits>>

\* The commitment passed is never all zeros, so is_shielded() holds afterwards.
RecordCloakDeposit(amount) ==
    /\ Open
    /\ amount > 0
    /\ Checked(vault.deposited_lamports + amount) # Overflow
    /\ vault.deposited_lamports + amount <= MaxDeposited
    /\ vault' = [vault EXCEPT !.shielded = TRUE,
                              !.deposited_lamports = @ + amount]
    /\ UNCHANGED <<slot, activity, registered, removal_requested, covenants,
                   lamports, received, quorum_slot, inits>>

\* Slip: the owner may be her own guardian.
AddGuardianOrSelf(guardian, m_of_n) ==
    /\ Open
    /\ guardian # NoKey
    /\ guardian \notin registered
    /\ vault.guardian_count < MAX_GUARDIANS
    /\ m_of_n \in 1..(vault.guardian_count + 1)
    /\ registered' = registered \cup {guardian}
    /\ removal_requested' = [removal_requested EXCEPT ![guardian] = 0]
    /\ vault' = [vault EXCEPT !.guardian_count = @ + 1, !.m_of_n_threshold = m_of_n]
    /\ UNCHANGED <<slot, activity, covenants, lamports, received, quorum_slot, inits>>

\* Slip: init_if_needed, so a guardian can be counted twice.
AddGuardianAgain(guardian, m_of_n) ==
    /\ Open
    /\ guardian \notin {Owner, NoKey}
    /\ vault.guardian_count < MAX_GUARDIANS
    /\ m_of_n \in 1..(vault.guardian_count + 1)
    /\ registered' = registered \cup {guardian}
    /\ removal_requested' = [removal_requested EXCEPT ![guardian] = 0]
    /\ vault' = [vault EXCEPT !.guardian_count = @ + 1, !.m_of_n_threshold = m_of_n]
    /\ UNCHANGED <<slot, activity, covenants, lamports, received, quorum_slot, inits>>

AddGuardian(guardian, m_of_n) ==
    /\ Open
    /\ guardian \notin {Owner, NoKey}
    /\ guardian \notin registered                 \* init of its account
    /\ vault.guardian_count < MAX_GUARDIANS
    /\ m_of_n \in 1..(vault.guardian_count + 1)
    /\ registered' = registered \cup {guardian}
    /\ removal_requested' = [removal_requested EXCEPT ![guardian] = 0]
    /\ vault' = [vault EXCEPT !.guardian_count = @ + 1, !.m_of_n_threshold = m_of_n]
    /\ UNCHANGED <<slot, activity, covenants, lamports, received, quorum_slot, inits>>

\* Slip: the threshold stays where it was.
DropGuardianOnly(guardian) ==
    /\ vault.guardian_count > 1
    /\ registered' = registered \ {guardian}
    /\ removal_requested' = [removal_requested EXCEPT ![guardian] = 0]
    /\ vault' = [vault EXCEPT !.guardian_count = @ - 1]

\* One guardian fewer, and the threshold lowered to what is left.
DropGuardian(guardian) ==
    LET count == vault.guardian_count - 1
    IN  /\ vault.guardian_count > 1
        /\ registered' = registered \ {guardian}
        /\ removal_requested' = [removal_requested EXCEPT ![guardian] = 0]
        /\ vault' = [vault EXCEPT !.guardian_count = count,
                                  !.m_of_n_threshold = IF @ > count THEN count ELSE @]

InitiateRemoval(guardian) ==
    /\ Open
    /\ guardian \in registered
    /\ removal_requested[guardian] = 0
    /\ vault.guardian_count > 1
    /\ removal_requested' = [removal_requested EXCEPT ![guardian] = slot]
    /\ UNCHANGED <<slot, vault, activity, registered, covenants, lamports,
                   received, quorum_slot, inits>>

\* Slip: phase 2 does not ask for phase 1.
FinaliseUnrequested(guardian) ==
    /\ Open
    /\ guardian \in registered
    /\ slot - removal_requested[guardian] >= GUARDIAN_REMOVAL_TIMELOCK_SLOTS
    /\ DropGuardian(guardian)
    /\ UNCHANGED <<slot, activity, covenants, lamports, received, quorum_slot, inits>>

FinaliseRemoval(guardian) ==
    /\ Open
    /\ guardian \in registered
    /\ removal_requested[guardian] # 0
    /\ slot - removal_requested[guardian] >= GUARDIAN_REMOVAL_TIMELOCK_SLOTS
    /\ DropGuardian(guardian)
    /\ UNCHANGED <<slot, activity, covenants, lamports, received, quorum_slot, inits>>

\* remove_guardian: the same instruction is phase 1 or phase 2.
RemoveGuardian(guardian) == InitiateRemoval(guardian) \/ FinaliseRemoval(guardian)

\* Closing the vault account sends its whole balance to `payee`; the activity
\* account is closed with it.
CloseAccountsTo(payee) ==
    /\ vault' = NoVault
    /\ activity' = NoActivity
    /\ lamports' = 0
    /\ received' = [received EXCEPT ![payee] = @ + lamports]

\* Slip: the guardian check is forgotten.
CloseVaultOverGuardians ==
    /\ Open
    /\ vault.deposited_lamports = 0
    /\ CloseAccountsTo(Owner)
    /\ UNCHANGED <<slot, registered, removal_requested, covenants, quorum_slot, inits>>

CloseVault ==
    /\ Open
    /\ vault.deposited_lamports = 0
    /\ vault.guardian_count = 0
    /\ CloseAccountsTo(Owner)
    /\ UNCHANGED <<slot, registered, removal_requested, covenants, quorum_slot, inits>>

-----------------------------------------------------------------------------
(* The guardians' instructions *)

AnomalyFlag(guardian) ==
    /\ Open
    /\ guardian \in registered
    /\ ~activity.anomaly_flagged
    /\ is_anomalous(slot, vault.last_check_in_slot, activity.checkin_count,
                    activity.sum_of_intervals)
    /\ activity' = [activity EXCEPT !.anomaly_flagged = TRUE,
                                    !.anomaly_flagged_slot = slot]
    /\ UNCHANGED <<slot, vault, registered, removal_requested, covenants, lamports,
                   received, quorum_slot, inits>>

\* Slip: every further signature restarts the timelock.
CompleteSlotMoves(signers, required, previous) ==
    IF Len(signers) >= required THEN slot ELSE previous

\* Slip: the timelock runs from creation, not from the last required signature.
CompleteSlotAtCreation(signers, required, previous) ==
    IF previous = 0 THEN slot ELSE previous

\* signatures_complete_slot after a signature: set once, when the signatures
\* reach the number required at creation.
CompleteSlot(signers, required, previous) ==
    IF Len(signers) >= required /\ previous = 0 THEN slot ELSE previous

\* History: note when the signers of covenant i, in its new state, first hold
\* the required number of different guardians.
ObserveQuorum(i) ==
    quorum_slot' =
        [ quorum_slot EXCEPT ![i] =
            IF @ = 0 /\ Cardinality(SignerSet(covenants'[i]))
                            >= covenants'[i].required_signatures
            THEN slot ELSE @ ]

CreateCovenant(guardian, type, target) ==
    LET i == vault.covenant_counter
    IN  /\ Open                                   \* every type asks !is_triggered
        /\ guardian \in registered
        /\ vault.guardian_count > 0 /\ vault.m_of_n_threshold > 0
        /\ type # "EmergencySweep" => target # NoKey
        /\ i \in CovenantIndex
        /\ ~HasCovenant(i)                        \* init of its account
        /\ vault' = [vault EXCEPT !.covenant_counter = i + 1]
        /\ covenants' =
               [ covenants EXCEPT ![i] =
                   [ covenant_type |-> type,
                     target |-> target,
                     signers |-> <<guardian>>,
                     required_signatures |-> vault.m_of_n_threshold,
                     signatures_complete_slot |->
                         CompleteSlot(<<guardian>>, vault.m_of_n_threshold, 0) ] ]
        /\ ObserveQuorum(i)
        /\ UNCHANGED <<slot, activity, registered, removal_requested, lamports,
                       received, inits>>

\* Slip: signatures are still taken after the trigger.
GuardianSignAfterTrigger(guardian, i) ==
    LET c       == covenants[i]
        signers == Append(c.signers, guardian)
    IN  /\ Exists
        /\ guardian \in registered
        /\ HasCovenant(i)
        /\ guardian \notin SignerSet(c)
        /\ Len(c.signers) < MAX_COVENANT_SIGNERS
        /\ covenants' =
               [ covenants EXCEPT
                   ![i].signers = signers,
                   ![i].signatures_complete_slot =
                       CompleteSlot(signers, c.required_signatures, @) ]
        /\ ObserveQuorum(i)
        /\ UNCHANGED <<slot, vault, activity, registered, removal_requested,
                       lamports, received, inits>>

GuardianSign(guardian, i) ==
    LET c       == covenants[i]
        signers == Append(c.signers, guardian)
    IN  /\ Open
        /\ guardian \in registered
        /\ HasCovenant(i)
        /\ guardian \notin SignerSet(c)
        /\ Len(c.signers) < MAX_COVENANT_SIGNERS
        /\ covenants' =
               [ covenants EXCEPT
                   ![i].signers = signers,
                   ![i].signatures_complete_slot =
                       CompleteSlot(signers, c.required_signatures, @) ]
        /\ ObserveQuorum(i)
        /\ UNCHANGED <<slot, vault, activity, registered, removal_requested,
                       lamports, received, inits>>

-----------------------------------------------------------------------------
(* Instructions anyone may submit *)

TriggerInheritance ==
    /\ Open
    /\ threshold_crossed(slot, vault.last_check_in_slot,
                         vault.inactivity_threshold_slots)
    /\ vault' = [vault EXCEPT !.status = "triggered"]
    /\ UNCHANGED <<slot, activity, registered, removal_requested, covenants,
                   lamports, received, quorum_slot, inits>>

CloseCovenant(i) ==
    /\ covenants' = [covenants EXCEPT ![i] = NoCovenant]
    /\ quorum_slot' = [quorum_slot EXCEPT ![i] = 0]

\* The signature and timelock checks shared by execute_covenant and
\* emergency_sweep.
Approved(c) ==
    /\ Len(c.signers) >= c.required_signatures
    /\ c.signatures_complete_slot > 0
    /\ slot - c.signatures_complete_slot >= timelock_slots(c.covenant_type)

ChangeBeneficiary(target) ==
    /\ target # NoKey
    /\ vault' = [vault EXCEPT !.beneficiary = target]
    /\ UNCHANGED <<registered, removal_requested>>

\* Slip: a target without an account is still counted out.
RemoveMissingTarget(target) ==
    /\ target \in Guardians
    /\ DropGuardian(target)

RemoveTarget(target) ==
    /\ target \in registered                      \* target_guardian was passed
    /\ DropGuardian(target)

ExecuteCovenant(i) ==
    /\ Open
    /\ HasCovenant(i)
    /\ Approved(covenants[i])
    /\ \/ /\ covenants[i].covenant_type = "BeneficiaryChange"
          /\ ChangeBeneficiary(covenants[i].target)
       \/ /\ covenants[i].covenant_type = "GuardianRemoval"
          /\ RemoveTarget(covenants[i].target)
    /\ CloseCovenant(i)
    /\ UNCHANGED <<slot, activity, lamports, received, inits>>

EmergencySweep(i, beneficiary) ==
    /\ Open
    /\ HasCovenant(i)
    /\ ~vault.shielded
    /\ covenants[i].covenant_type = "EmergencySweep"
    /\ beneficiary = vault.beneficiary
    /\ Approved(covenants[i])
    /\ CloseAccountsTo(beneficiary)
    /\ CloseCovenant(i)
    /\ UNCHANGED <<slot, registered, removal_requested, inits>>

ClaimInheritance(beneficiary) ==
    /\ vault.status = "triggered"
    /\ ~vault.shielded
    /\ beneficiary = vault.beneficiary
    /\ CloseAccountsTo(beneficiary)
    /\ UNCHANGED <<slot, registered, removal_requested, covenants, quorum_slot, inits>>

\* Slip: is_shielded() is not asked.
RecordUnshieldedClaim(caller) ==
    /\ vault.status = "triggered"
    /\ CloseAccountsTo(caller)
    /\ UNCHANGED <<slot, registered, removal_requested, covenants, quorum_slot, inits>>

RecordCloakClaim(caller) ==
    /\ vault.status = "triggered"
    /\ vault.shielded
    /\ CloseAccountsTo(caller)
    /\ UNCHANGED <<slot, registered, removal_requested, covenants, quorum_slot, inits>>

CloseOrphanedCovenant(i) ==
    /\ vault.status = "triggered"
    /\ HasCovenant(i)
    /\ CloseCovenant(i)
    /\ UNCHANGED <<slot, vault, activity, registered, removal_requested, lamports,
                   received, inits>>

-----------------------------------------------------------------------------
OwnerStep ==
    \/ \E b \in Heirs \cup {NoKey}, t \in 0..(MAX_INACTIVITY_THRESHOLD_SLOTS + 1) :
           InitializeVault(b, t)
    \/ CheckIn
    \/ \E t \in 0..(MAX_INACTIVITY_THRESHOLD_SLOTS + 1) : ConfigureThreshold(t)
    \/ \E a \in Amounts : Deposit(a) \/ RecordCloakDeposit(a)
    \/ \E g \in Guardians \cup {Owner, NoKey}, m \in 0..(MAX_GUARDIANS + 1) :
           AddGuardian(g, m)
    \/ \E g \in Guardians : RemoveGuardian(g)
    \/ CloseVault

GuardianStep ==
    \E g \in Guardians :
        \/ AnomalyFlag(g)
        \/ CreateCovenant(g, "EmergencySweep", NoKey)
        \/ \E h \in Heirs \cup {NoKey} : CreateCovenant(g, "BeneficiaryChange", h)
        \/ \E h \in Guardians \cup {NoKey} : CreateCovenant(g, "GuardianRemoval", h)
        \/ \E i \in CovenantIndex : GuardianSign(g, i)

AnyoneStep ==
    \/ TriggerInheritance
    \/ \E i \in CovenantIndex : ExecuteCovenant(i) \/ CloseOrphanedCovenant(i)
    \/ \E i \in CovenantIndex, b \in Parties : EmergencySweep(i, b)
    \/ \E b \in Parties : ClaimInheritance(b)
    \/ \E p \in Parties : RecordCloakClaim(p)

Next == Tick \/ OwnerStep \/ GuardianStep \/ AnyoneStep

Spec == Init /\ [][Next]_vars

-----------------------------------------------------------------------------
(* Invariants *)

(***************************************************************************)
(* "1 <= m_of_n_threshold <= guardian_count when guardian_count > 0"       *)
(* (state/vault.rs:50), whichever of the two removal paths runs and in     *)
(* whatever order guardians come and go; with no guardian both are 0.      *)
(***************************************************************************)
QuorumWithinCouncil ==
    \/ vault.guardian_count = 0 /\ vault.m_of_n_threshold = 0
    \/ vault.m_of_n_threshold \in 1..vault.guardian_count

(***************************************************************************)
(* The count the quorum is measured against never exceeds the guardians    *)
(* that can still sign, so M-of-N is never out of the council's reach.     *)
(***************************************************************************)
CountWithinRegistry == vault.guardian_count <= Cardinality(registered)

(***************************************************************************)
(* "Number of guardian accounts currently registered and active"           *)
(* (state/vault.rs:46): in the first vault at an address the stored        *)
(* counter and the accounts agree.                                         *)
(***************************************************************************)
CountIsRegistry == inits <= 1 /\ Exists => vault.guardian_count = Cardinality(registered)

(***************************************************************************)
(* A covenant's signatures are those of different guardians, and           *)
(* signatures_complete_slot, from which every timelock is measured, is     *)
(* exactly the slot at which the required number of them had signed:       *)
(* neither an extra signature nor a repeated one moves or fakes it, and 0  *)
(* ("not complete") is never a slot.                                       *)
(***************************************************************************)
QuorumIsGenuine ==
    \A i \in CovenantIndex : HasCovenant(i) =>
        LET c == covenants[i]
        IN  /\ Cardinality(SignerSet(c)) = Len(c.signers)
            /\ c.required_signatures > 0
            /\ c.signatures_complete_slot = quorum_slot[i]
            /\ c.signatures_complete_slot <= slot
            /\ c.signatures_complete_slot > 0 <=> Len(c.signers) >= c.required_signatures

(***************************************************************************)
(* A triggered vault is one whose owner really was silent for the whole    *)
(* configured threshold, and no later step can make that untrue: after the *)
(* trigger neither the check-in nor the threshold moves.                   *)
(***************************************************************************)
TriggeredMeansSilent ==
    vault.status = "triggered" =>
        slot >= vault.last_check_in_slot + vault.inactivity_threshold_slots

(***************************************************************************)
(* The activity model describes this vault's history: the intervals add up *)
(* to the time from creation to the last check-in, each is at least one    *)
(* slot long (so the average never sinks below one slot), and an anomaly   *)
(* flag always belongs to the silence that is still going on.              *)
(***************************************************************************)
ActivityDescribesOwner ==
    /\ activity.sum_of_intervals = vault.last_check_in_slot - vault.created_slot
    /\ activity.checkin_count <= activity.sum_of_intervals
    /\ IF activity.anomaly_flagged
       THEN activity.anomaly_flagged_slot \in (vault.last_check_in_slot + 1)..slot
       ELSE activity.anomaly_flagged_slot = 0

(***************************************************************************)
(* The ledger: what the account holds never exceeds what the vault says    *)
(* was deposited, and while nothing is shielded the two are equal, so a    *)
(* claim pays out everything that was put in.                              *)
(***************************************************************************)
DepositsAccounted ==
    /\ lamports <= vault.deposited_lamports
    /\ ~vault.shielded => lamports = vault.deposited_lamports

-----------------------------------------------------------------------------
(* Action properties *)

SameVault == Exists /\ Exists'

(***************************************************************************)
(* Once triggered, nothing about the inheritance moves until it is settled *)
(* (vault.rs:95-96): no parameter, no guardian, no lamport; covenants may  *)
(* only disappear.                                                         *)
(***************************************************************************)
FrozenOnceTriggered ==
    [][ vault.status = "triggered" =>
            \/ vault' = NoVault
            \/ /\ UNCHANGED <<vault, activity, registered, removal_requested, lamports>>
               /\ \A i \in CovenantIndex :
                      covenants'[i] \in {covenants[i], NoCovenant} ]_vars

(***************************************************************************)
(* The heir of a living vault changes only to the target of a              *)
(* BeneficiaryChange covenant that enough different guardians had signed   *)
(* at least BENEFICIARY_CHANGE_TIMELOCK_SLOTS earlier, and that approval   *)
(* is used up by it.                                                       *)
(***************************************************************************)
HeirChangesWithNotice ==
    [][ SameVault /\ vault'.beneficiary # vault.beneficiary =>
            \E i \in CovenantIndex :
                /\ covenants[i].covenant_type = "BeneficiaryChange"
                /\ covenants[i].target = vault'.beneficiary
                /\ quorum_slot[i] > 0
                /\ slot >= quorum_slot[i] + BENEFICIARY_CHANGE_TIMELOCK_SLOTS
                /\ covenants'[i] = NoCovenant ]_vars

(***************************************************************************)
(* A guardian leaves the council only after the owner's timelock has run   *)
(* out or by a covenant of the council against it, and the council of a    *)
(* living vault never becomes empty.                                       *)
(***************************************************************************)
GuardiansLeaveWithCause ==
    [][ /\ \A g \in registered \ registered' :
               \/ /\ removal_requested[g] > 0
                  /\ slot >= removal_requested[g] + GUARDIAN_REMOVAL_TIMELOCK_SLOTS
               \/ \E i \in CovenantIndex :
                      /\ covenants[i].covenant_type = "GuardianRemoval"
                      /\ covenants[i].target = g
                      /\ quorum_slot[i] > 0
                      /\ covenants'[i] = NoCovenant
        /\ SameVault /\ vault.guardian_count > 0 => registered' # {} ]_vars

(***************************************************************************)
(* Lamports leave the vault all at once, and to the beneficiary it names   *)
(* at that moment unless the vault was shielded.  ("claim_inheritance      *)
(* (out, to beneficiary), emergency_sweep (out, to beneficiary)",          *)
(* PROGRAM.md:509, leaves out record_cloak_claim, which closes a shielded  *)
(* vault to its caller.)                                                   *)
(***************************************************************************)
PaidToHeirUnlessShielded ==
    [][ \A p \in Parties : received'[p] # received[p] =>
            /\ p = vault.beneficiary \/ vault.shielded
            /\ received'[p] = received[p] + lamports
            /\ lamports' = 0 ]_vars

(***************************************************************************)
(* "Rent safety" of close_vault (close_vault.rs:5-10): the first vault at  *)
(* an address, when it is open and disappears other than by a sweep,       *)
(* leaves no guardian and no covenant account behind.                      *)
(***************************************************************************)
OwnerCloseStrandsNothing ==
    [][ inits <= 1 /\ vault.status = "open" /\ vault'.status = "absent" =>
            \/ \E i \in CovenantIndex :
                   covenants[i].covenant_type = "EmergencySweep"
                   /\ covenants'[i] = NoCovenant
            \/ registered = {} /\ \A i \in CovenantIndex : ~HasCovenant(i) ]_vars

-----------------------------------------------------------------------------
(* What an observer of the address may rely on *)

Lifecycle ==
    INSTANCE VaultLifecycle
        WITH status                     <- vault.status,
             last_check_in_slot         <- vault.last_check_in_slot,
             inactivity_threshold_slots <- vault.inactivity_threshold_slots

(***************************************************************************)
(* The seventeen instructions together, in every interleaving, do no more  *)
(* to a vault's clock and status than VaultLifecycle allows: nobody but    *)
(* the owner restarts the clock, no trigger comes early, and a triggered   *)
(* vault is settled or stays.                                              *)
(***************************************************************************)
ImplementsLifecycle == Lifecycle!Spec
=============================================================================
