------------------------- MODULE LegacyVault_proofs --------------------------
(***************************************************************************)
(* Proofs about LegacyVault for every value of its constants.              *)
(***************************************************************************)
EXTENDS LegacyVault, TLAPS, FiniteSetTheorems

-----------------------------------------------------------------------------
(* Type correctness.  TypeOK alone is not inductive: ExecuteCovenant copies *)
(* a covenant's target into the vault, so the target must be an heir.       *)

CovenantTargets ==
    \A i \in CovenantIndex :
        covenants[i].covenant_type = "BeneficiaryChange" =>
            covenants[i].target \in Heirs

(* Removing one of several guardians keeps the accounts well-typed. *)
LEMMA DropGuardianType ==
    ASSUME TypeOK, NEW g \in Guardians, DropGuardian(g)
    PROVE  /\ vault' \in VaultAccount
           /\ registered' \in SUBSET Guardians
           /\ removal_requested' \in [Guardians -> Nat]
<1> DEFINE n == vault.guardian_count - 1
           m == IF vault.m_of_n_threshold > n THEN n ELSE vault.m_of_n_threshold
<1>1. n \in Nat /\ m \in Nat
  BY DEF TypeOK, DropGuardian, VaultAccount
<1>2. vault' = [vault EXCEPT !.guardian_count = n, !.m_of_n_threshold = m]
  BY DEF DropGuardian
<1>3. vault' \in VaultAccount
  BY <1>1, <1>2 DEF TypeOK, VaultAccount
<1> QED BY <1>3 DEF TypeOK, DropGuardian

(* Closing the accounts leaves well-typed empty ones. *)
LEMMA CloseAccountsType ==
    ASSUME TypeOK, NEW p \in Parties, CloseAccountsTo(p)
    PROVE  /\ vault' \in VaultAccount /\ activity' \in ActivityAccount
           /\ lamports' \in Nat /\ received' \in [Parties -> Nat]
BY DEF TypeOK, CloseAccountsTo, VaultAccount, NoVault, ActivityAccount, NoActivity

(* Closing a covenant leaves a well-typed empty one. *)
LEMMA CloseCovenantType ==
    ASSUME TypeOK, NEW i \in CovenantIndex, CloseCovenant(i)
    PROVE  /\ covenants' \in [CovenantIndex -> CovenantAccount]
           /\ quorum_slot' \in [CovenantIndex -> Nat]
<1>1. NoCovenant \in CovenantAccount
  BY DEF NoCovenant, CovenantAccount
<1> QED BY <1>1 DEF TypeOK, CloseCovenant

(* The initial state is well-typed. *)
LEMMA InitType == Init => TypeOK
<1> SUFFICES ASSUME Init PROVE TypeOK
  OBVIOUS
<1>1. NoVault \in VaultAccount
  BY DEF NoVault, VaultAccount
<1>2. NoActivity \in ActivityAccount
  BY DEF NoActivity, ActivityAccount
<1>3. NoCovenant \in CovenantAccount
  BY DEF NoCovenant, CovenantAccount
<1> QED BY <1>1, <1>2, <1>3 DEF Init, TypeOK

(* Each of the owner's instructions preserves the types. *)
LEMMA OwnerType ==
    ASSUME TypeOK, OwnerStep PROVE TypeOK'
<1> USE LimitsAssumption DEF TypeOK
<1>1. ASSUME NEW b \in Heirs \cup {NoKey},
             NEW t \in 0..(MAX_INACTIVITY_THRESHOLD_SLOTS + 1),
             InitializeVault(b, t)
      PROVE  TypeOK'
  <2> DEFINE chosen == IF t = 0 THEN DEFAULT_INACTIVITY_THRESHOLD_SLOTS ELSE t
  <2>1. chosen \in Nat
    BY <1>1
  <2>2. vault' \in VaultAccount
    BY <1>1, <2>1, ZenonT(60) DEF InitializeVault, VaultAccount, NoVault
  <2>3. activity' \in ActivityAccount
    BY <1>1 DEF InitializeVault, ActivityAccount, NoActivity
  <2> QED BY <1>1, <2>2, <2>3 DEF InitializeVault
<1>2. CASE CheckIn
  <2>1. vault' \in VaultAccount
    BY <1>2 DEF CheckIn, VaultAccount
  <2>2. activity' \in ActivityAccount
    BY <1>2 DEF CheckIn, ActivityAccount, VaultAccount
  <2> QED BY <1>2, <2>1, <2>2 DEF CheckIn
<1>3. ASSUME NEW t \in 0..(MAX_INACTIVITY_THRESHOLD_SLOTS + 1),
             ConfigureThreshold(t)
      PROVE  TypeOK'
  BY <1>3 DEF ConfigureThreshold, VaultAccount
<1>4. ASSUME NEW a \in Amounts, Deposit(a)
      PROVE  TypeOK'
  BY <1>4 DEF Deposit, VaultAccount
<1>5. ASSUME NEW a \in Amounts, RecordCloakDeposit(a)
      PROVE  TypeOK'
  <2> DEFINE d == vault.deposited_lamports + a
  <2>1. d \in Nat
    BY <1>5 DEF VaultAccount
  <2>2. vault' = [vault EXCEPT !.shielded = TRUE, !.deposited_lamports = d]
    BY <1>5 DEF RecordCloakDeposit
  <2>3. vault' \in VaultAccount
    BY <2>1, <2>2 DEF VaultAccount
  <2> QED BY <1>5, <2>3 DEF RecordCloakDeposit
<1>6. ASSUME NEW g \in Guardians \cup {Owner, NoKey},
             NEW m \in 0..(MAX_GUARDIANS + 1), AddGuardian(g, m)
      PROVE  TypeOK'
  <2>1. g \in Guardians /\ m \in Nat
    BY <1>6 DEF AddGuardian
  <2> DEFINE n == vault.guardian_count + 1
  <2>2. n \in Nat
    BY DEF VaultAccount
  <2>3. vault' = [vault EXCEPT !.guardian_count = n, !.m_of_n_threshold = m]
    BY <1>6 DEF AddGuardian
  <2>4. vault' \in VaultAccount
    BY <2>1, <2>2, <2>3 DEF VaultAccount
  <2> QED BY <1>6, <2>1, <2>4 DEF AddGuardian
<1>7. ASSUME NEW g \in Guardians, InitiateRemoval(g)
      PROVE  TypeOK'
  BY <1>7 DEF InitiateRemoval
<1>8. ASSUME NEW g \in Guardians, FinaliseRemoval(g)
      PROVE  TypeOK'
  BY <1>8, DropGuardianType DEF FinaliseRemoval
<1>9. CASE CloseVault
  <2>1. Owner \in Parties
    BY DEF Parties
  <2> QED BY <1>9, <2>1, CloseAccountsType DEF CloseVault
<1> QED BY <1>1, <1>2, <1>3, <1>4, <1>5, <1>6, <1>7, <1>8, <1>9
         DEF OwnerStep, RemoveGuardian

(* A new slot of signatures_complete_slot is a natural number. *)
LEMMA CompleteSlotType ==
    ASSUME TypeOK, NEW s \in Seq(Guardians), NEW r \in Nat, NEW p \in Nat
    PROVE  CompleteSlot(s, r, p) \in Nat
BY DEF TypeOK, CompleteSlot

(* Observing a quorum keeps the history well-typed. *)
LEMMA ObserveQuorumType ==
    ASSUME TypeOK, NEW i \in CovenantIndex, ObserveQuorum(i)
    PROVE  quorum_slot' \in [CovenantIndex -> Nat]
BY DEF TypeOK, ObserveQuorum

(* Each of the guardians' instructions preserves the types. *)
LEMMA GuardianType ==
    ASSUME TypeOK, GuardianStep PROVE TypeOK'
<1> USE DEF TypeOK
<1>1. ASSUME NEW g \in Guardians, AnomalyFlag(g)
      PROVE  TypeOK'
  BY <1>1 DEF AnomalyFlag, ActivityAccount
<1>2. ASSUME NEW g \in Guardians, NEW ty \in CovenantTypes,
             NEW h \in Guardians \cup Heirs \cup {NoKey}, CreateCovenant(g, ty, h)
      PROVE  TypeOK'
  <2> DEFINE i == vault.covenant_counter
             r == vault.m_of_n_threshold
             c == [ covenant_type |-> ty, target |-> h, signers |-> <<g>>,
                    required_signatures |-> r,
                    signatures_complete_slot |-> CompleteSlot(<<g>>, r, 0) ]
  <2>1. i \in CovenantIndex /\ i \in Nat /\ r \in Nat
    BY <1>2 DEF CreateCovenant, VaultAccount
  <2>2. <<g>> \in Seq(Guardians)
    BY <1>2
  <2>3. CompleteSlot(<<g>>, r, 0) \in Nat
    BY <2>1, <2>2, CompleteSlotType
  <2>4. c \in CovenantAccount
    BY <2>1, <2>2, <2>3 DEF CovenantAccount
  <2>5. covenants' \in [CovenantIndex -> CovenantAccount]
    BY <1>2, <2>1, <2>4 DEF CreateCovenant
  <2>6. vault' \in VaultAccount
    BY <1>2, <2>1 DEF CreateCovenant, VaultAccount
  <2>7. quorum_slot' \in [CovenantIndex -> Nat]
    BY <1>2, <2>1, ObserveQuorumType DEF CreateCovenant
  <2> QED BY <1>2, <2>5, <2>6, <2>7 DEF CreateCovenant
<1>3. ASSUME NEW g \in Guardians, NEW i \in CovenantIndex, GuardianSign(g, i)
      PROVE  TypeOK'
  <2> DEFINE c == covenants[i]
             s == Append(c.signers, g)
  <2>1. c \in CovenantAccount
    OBVIOUS
  <2>2. s \in Seq(Guardians) /\ c.required_signatures \in Nat
        /\ c.signatures_complete_slot \in Nat
    BY <2>1 DEF CovenantAccount
  <2>3. CompleteSlot(s, c.required_signatures, c.signatures_complete_slot) \in Nat
    BY <2>2, CompleteSlotType
  <2> DEFINE d == [c EXCEPT !.signers = s,
                     !.signatures_complete_slot =
                        CompleteSlot(s, c.required_signatures, c.signatures_complete_slot)]
  <2>4. d \in CovenantAccount
    BY <2>1, <2>2, <2>3 DEF CovenantAccount
  <2>5. covenants' = [covenants EXCEPT ![i] = d]
    BY <1>3, <2>1 DEF GuardianSign, CovenantAccount
  <2>6. covenants' \in [CovenantIndex -> CovenantAccount]
    BY <2>4, <2>5
  <2>7. quorum_slot' \in [CovenantIndex -> Nat]
    BY <1>3, ObserveQuorumType DEF GuardianSign
  <2> QED BY <1>3, <2>6, <2>7 DEF GuardianSign
<1> QED BY <1>1, <1>2, <1>3 DEF GuardianStep, CovenantTypes

(* A covenant that is executed leaves everything well-typed. *)
LEMMA ExecuteCovenantType ==
    ASSUME TypeOK, CovenantTargets, NEW i \in CovenantIndex, ExecuteCovenant(i)
    PROVE  TypeOK'
<1> DEFINE target == covenants[i].target
<1>1. CASE covenants[i].covenant_type = "BeneficiaryChange" /\ ChangeBeneficiary(target)
  <2>1. target \in Heirs
    BY <1>1 DEF CovenantTargets
  <2>2. vault' = [vault EXCEPT !.beneficiary = target]
    BY <1>1 DEF ChangeBeneficiary
  <2>3. vault' \in VaultAccount
    BY <2>1, <2>2 DEF TypeOK, VaultAccount
  <2> QED BY <1>1, <2>3, CloseCovenantType
          DEF TypeOK, ChangeBeneficiary, ExecuteCovenant
<1>2. CASE RemoveTarget(target)
  <2>1. target \in Guardians /\ DropGuardian(target)
    BY <1>2 DEF TypeOK, RemoveTarget
  <2> QED BY <2>1, DropGuardianType, CloseCovenantType DEF TypeOK, ExecuteCovenant
<1> QED BY <1>1, <1>2 DEF ExecuteCovenant

(* Each instruction that anyone may submit preserves the types. *)
LEMMA AnyoneType ==
    ASSUME TypeOK, CovenantTargets, AnyoneStep PROVE TypeOK'
<1>1. CASE TriggerInheritance
  <2>1. vault' \in VaultAccount
    BY <1>1 DEF TypeOK, TriggerInheritance, VaultAccount
  <2> QED BY <1>1, <2>1 DEF TypeOK, TriggerInheritance
<1>2. ASSUME NEW i \in CovenantIndex, CloseOrphanedCovenant(i)
      PROVE  TypeOK'
  BY <1>2, CloseCovenantType DEF TypeOK, CloseOrphanedCovenant
<1>3. ASSUME NEW i \in CovenantIndex, NEW b \in Parties, EmergencySweep(i, b)
      PROVE  TypeOK'
  BY <1>3, CloseAccountsType, CloseCovenantType DEF TypeOK, EmergencySweep
<1>4. ASSUME NEW b \in Parties, ClaimInheritance(b)
      PROVE  TypeOK'
  BY <1>4, CloseAccountsType DEF TypeOK, ClaimInheritance
<1>5. ASSUME NEW p \in Parties, RecordCloakClaim(p)
      PROVE  TypeOK'
  BY <1>5, CloseAccountsType DEF TypeOK, RecordCloakClaim
<1> QED BY <1>1, <1>2, <1>3, <1>4, <1>5, ExecuteCovenantType DEF AnyoneStep

(* A BeneficiaryChange covenant is only created for a key that may be an    *)
(* heir, and its target never changes afterwards.                           *)
LEMMA TargetsStep ==
    ASSUME TypeOK, CovenantTargets, Next PROVE CovenantTargets'
<1>1. ASSUME UNCHANGED covenants
      PROVE  CovenantTargets'
  BY <1>1 DEF CovenantTargets
<1>2. ASSUME NEW i \in CovenantIndex, CloseCovenant(i)
      PROVE  CovenantTargets'
  BY <1>2 DEF TypeOK, CovenantTargets, CloseCovenant, NoCovenant
<1>3. ASSUME NEW g \in Guardians, NEW ty \in CovenantTypes,
             NEW h \in Guardians \cup Heirs \cup {NoKey}, CreateCovenant(g, ty, h),
             ty = "BeneficiaryChange" => h \in Heirs \cup {NoKey}
      PROVE  CovenantTargets'
  <2>1. ty = "BeneficiaryChange" => h \in Heirs
    BY <1>3 DEF CreateCovenant
  <2> QED BY <1>3, <2>1 DEF TypeOK, CovenantTargets, CreateCovenant
<1>4. ASSUME NEW g \in Guardians, NEW i \in CovenantIndex, GuardianSign(g, i)
      PROVE  CovenantTargets'
  BY <1>4 DEF TypeOK, CovenantTargets, GuardianSign, CovenantAccount
<1>5. CASE Tick
  BY <1>1, <1>5 DEF Tick, accounts
<1>6. CASE OwnerStep
  <2>1. UNCHANGED covenants
    BY <1>6 DEF OwnerStep, InitializeVault, CheckIn, ConfigureThreshold, Deposit,
                RecordCloakDeposit, AddGuardian, RemoveGuardian, InitiateRemoval,
                FinaliseRemoval, CloseVault
  <2> QED BY <1>1, <2>1
<1>7. CASE GuardianStep
  <2>1. ASSUME NEW g \in Guardians, AnomalyFlag(g)
        PROVE  CovenantTargets'
    BY <1>1, <2>1 DEF AnomalyFlag
  <2> QED BY <1>3, <1>4, <1>7, <2>1 DEF GuardianStep, CovenantTypes
<1>8. CASE AnyoneStep
  <2>1. ASSUME TriggerInheritance
        PROVE  UNCHANGED covenants
    BY <2>1 DEF TriggerInheritance
  <2>2. ASSUME NEW b \in Parties, ClaimInheritance(b) \/ RecordCloakClaim(b)
        PROVE  UNCHANGED covenants
    BY <2>2 DEF ClaimInheritance, RecordCloakClaim
  <2>3. ASSUME NEW i \in CovenantIndex, NEW b \in Parties,
               ExecuteCovenant(i) \/ CloseOrphanedCovenant(i) \/ EmergencySweep(i, b)
        PROVE  CloseCovenant(i)
    BY <2>3 DEF ExecuteCovenant, CloseOrphanedCovenant, EmergencySweep
  <2>4. Owner \in Parties
    BY DEF Parties
  <2> QED BY <1>1, <1>2, <1>8, <2>1, <2>2, <2>3, <2>4 DEF AnyoneStep
<1> QED BY <1>5, <1>6, <1>7, <1>8 DEF Next

TypeInv == TypeOK /\ CovenantTargets

(* The types, together with what makes them inductive, are an invariant.    *)
LEMMA TypeInvariant == Spec => []TypeInv
<1>1. Init => TypeInv
  BY InitType DEF Init, TypeInv, CovenantTargets, NoCovenant
<1>2. TypeInv /\ [Next]_vars => TypeInv'
  <2> SUFFICES ASSUME TypeInv, [Next]_vars PROVE TypeInv'
    OBVIOUS
  <2>1. CASE Tick
    BY <2>1 DEF TypeInv, TypeOK, CovenantTargets, Tick, accounts
  <2>2. CASE OwnerStep
    BY <2>2, OwnerType, TargetsStep DEF TypeInv, Next
  <2>3. CASE GuardianStep
    BY <2>3, GuardianType, TargetsStep DEF TypeInv, Next
  <2>4. CASE AnyoneStep
    BY <2>4, AnyoneType, TargetsStep DEF TypeInv, Next
  <2>5. CASE UNCHANGED vars
    BY <2>5 DEF TypeInv, TypeOK, CovenantTargets, vars
  <2> QED BY <2>1, <2>2, <2>3, <2>4, <2>5 DEF Next
<1> QED BY <1>1, <1>2, PTL DEF Spec

(***************************************************************************)
(* Every account of the vault holds values of its type in every reachable  *)
(* state, whatever the wallets, the limits and the bounds.                 *)
(***************************************************************************)
THEOREM TypeCorrect == Spec => []TypeOK
BY TypeInvariant, PTL DEF TypeInv

-----------------------------------------------------------------------------
(* The vault, its activity record and its balance.                          *)

(* What the instructions leave behind when no vault exists. *)
AbsentIsEmpty ==
    ~Exists => vault = NoVault /\ activity = NoActivity /\ lamports = 0

(* The slots a vault stores are in the order in which they happened. *)
Chronology ==
    /\ vault.created_slot <= vault.last_check_in_slot
    /\ vault.last_check_in_slot <= slot

VaultInv ==
    /\ AbsentIsEmpty
    /\ Chronology
    /\ QuorumWithinCouncil
    /\ TriggeredMeansSilent
    /\ ActivityDescribesOwner
    /\ DepositsAccounted

(* A fresh vault, or none, satisfies all of it. *)
LEMMA InitVaultInv == Init => VaultInv
BY DEF Init, VaultInv, AbsentIsEmpty, Exists, Chronology, QuorumWithinCouncil,
       TriggeredMeansSilent, ActivityDescribesOwner, DepositsAccounted,
       NoVault, NoActivity

(* The clock only grows, and every slot stored in an account lies behind it. *)
LEMMA TickVaultInv ==
    ASSUME TypeOK, VaultInv, Tick PROVE VaultInv'
<1>1. slot' = slot + 1 /\ slot \in Nat /\ UNCHANGED <<vault, activity, lamports>>
  BY DEF Tick, accounts, TypeOK
<1>2. /\ vault.last_check_in_slot \in Nat /\ vault.inactivity_threshold_slots \in Nat
      /\ activity.anomaly_flagged_slot \in Nat
  BY DEF TypeOK, VaultAccount, ActivityAccount
<1>3. AbsentIsEmpty' /\ QuorumWithinCouncil' /\ DepositsAccounted'
  BY <1>1 DEF VaultInv, AbsentIsEmpty, Exists, QuorumWithinCouncil, DepositsAccounted
<1>4. Chronology'
  BY <1>1, <1>2 DEF VaultInv, Chronology
<1>5. TriggeredMeansSilent'
  BY <1>1, <1>2 DEF VaultInv, TriggeredMeansSilent
<1>6. ActivityDescribesOwner'
  BY <1>1, <1>2 DEF VaultInv, ActivityDescribesOwner
<1> QED BY <1>3, <1>4, <1>5, <1>6 DEF VaultInv

(* A new vault starts with no council, no check-in and no deposit. *)
LEMMA InitializeVaultInv ==
    ASSUME TypeOK, VaultInv, NEW b, NEW t, InitializeVault(b, t)
    PROVE  VaultInv'
<1>1. /\ vault'.status = "open"
      /\ vault'.guardian_count = 0 /\ vault'.m_of_n_threshold = 0
      /\ vault'.last_check_in_slot = slot /\ vault'.created_slot = slot
      /\ vault'.deposited_lamports = 0 /\ ~vault'.shielded
  BY DEF InitializeVault, NoVault
<1>2. /\ activity'.checkin_count = 0 /\ activity'.sum_of_intervals = 0
      /\ ~activity'.anomaly_flagged /\ activity'.anomaly_flagged_slot = 0
      /\ lamports' = 0 /\ slot' = slot /\ slot \in Nat
  BY DEF InitializeVault, NoActivity, VaultInv, AbsentIsEmpty, TypeOK
<1> QED BY <1>1, <1>2
        DEF VaultInv, AbsentIsEmpty, Exists, Chronology, QuorumWithinCouncil,
            TriggeredMeansSilent, ActivityDescribesOwner, DepositsAccounted

(* A check-in adds an interval of at least one slot to the model. *)
LEMMA CheckInVaultInv ==
    ASSUME TypeOK, VaultInv, CheckIn PROVE VaultInv'
<1> DEFINE interval == slot - vault.last_check_in_slot
<1>1. /\ vault' = [vault EXCEPT !.last_check_in_slot = slot]
      /\ vault.status = "open" /\ slot' = slot /\ lamports' = lamports
      /\ interval > 0
  BY DEF CheckIn, Open
<1>2. /\ vault'.status = "open" /\ vault'.last_check_in_slot = slot
      /\ vault'.created_slot = vault.created_slot
      /\ vault'.guardian_count = vault.guardian_count
      /\ vault'.m_of_n_threshold = vault.m_of_n_threshold
      /\ vault'.deposited_lamports = vault.deposited_lamports
      /\ vault'.shielded = vault.shielded
  BY <1>1 DEF TypeOK, VaultAccount
<1>3. /\ activity'.checkin_count = activity.checkin_count + 1
      /\ activity'.sum_of_intervals = activity.sum_of_intervals + interval
      /\ ~activity'.anomaly_flagged /\ activity'.anomaly_flagged_slot = 0
  BY DEF CheckIn
<1>4. /\ slot \in Nat /\ vault.last_check_in_slot \in Nat /\ vault.created_slot \in Nat
      /\ activity.checkin_count \in Nat /\ activity.sum_of_intervals \in Nat
  BY DEF TypeOK, VaultAccount, ActivityAccount
<1>5. AbsentIsEmpty' /\ TriggeredMeansSilent'
  BY <1>2 DEF AbsentIsEmpty, Exists, TriggeredMeansSilent
<1>6. QuorumWithinCouncil' /\ DepositsAccounted'
  BY <1>1, <1>2 DEF VaultInv, QuorumWithinCouncil, DepositsAccounted
<1>7. Chronology'
  BY <1>1, <1>2, <1>4 DEF VaultInv, Chronology
<1>8. ActivityDescribesOwner'
  BY <1>1, <1>2, <1>3, <1>4 DEF VaultInv, ActivityDescribesOwner
<1> QED BY <1>5, <1>6, <1>7, <1>8 DEF VaultInv

(* Instructions on an open vault that move neither the check-in nor the     *)
(* balance keep all but the quorum untouched.                               *)
LEMMA OpenVaultInv ==
    ASSUME TypeOK, VaultInv, Open,
           vault'.status = "open",
           vault'.created_slot = vault.created_slot,
           vault'.last_check_in_slot = vault.last_check_in_slot,
           vault'.deposited_lamports = vault.deposited_lamports,
           vault'.shielded = vault.shielded,
           UNCHANGED <<slot, activity, lamports>>,
           QuorumWithinCouncil'
    PROVE  VaultInv'
<1>1. AbsentIsEmpty' /\ TriggeredMeansSilent'
  BY DEF AbsentIsEmpty, Exists, TriggeredMeansSilent
<1>2. Chronology' /\ DepositsAccounted' /\ ActivityDescribesOwner'
  BY DEF VaultInv, Chronology, DepositsAccounted, ActivityDescribesOwner
<1> QED BY <1>1, <1>2 DEF VaultInv

(* Both removal paths lower the threshold with the council. *)
LEMMA DropGuardianVaultInv ==
    ASSUME TypeOK, VaultInv, Open, NEW g \in Guardians, DropGuardian(g),
           UNCHANGED <<slot, activity, lamports>>
    PROVE  VaultInv'
<1> DEFINE n == vault.guardian_count - 1
           m == IF vault.m_of_n_threshold > n THEN n ELSE vault.m_of_n_threshold
<1>1. vault.guardian_count > 1 /\ vault.guardian_count \in Nat
      /\ vault.m_of_n_threshold \in Nat
  BY DEF DropGuardian, TypeOK, VaultAccount
<1>2. vault' = [vault EXCEPT !.guardian_count = n, !.m_of_n_threshold = m]
  BY DEF DropGuardian
<1>3. /\ vault'.guardian_count = n /\ vault'.m_of_n_threshold = m
      /\ vault'.status = "open"
      /\ vault'.created_slot = vault.created_slot
      /\ vault'.last_check_in_slot = vault.last_check_in_slot
      /\ vault'.deposited_lamports = vault.deposited_lamports
      /\ vault'.shielded = vault.shielded
  BY <1>2 DEF TypeOK, VaultAccount, Open
<1>4. m \in 1..n
  BY <1>1 DEF VaultInv, QuorumWithinCouncil
<1>5. QuorumWithinCouncil'
  BY <1>3, <1>4 DEF QuorumWithinCouncil
<1> QED BY <1>3, <1>5, OpenVaultInv

(* Whoever is paid, the accounts left behind are the empty ones. *)
LEMMA CloseAccountsVaultInv ==
    ASSUME TypeOK, VaultInv, NEW p, CloseAccountsTo(p), slot' = slot
    PROVE  VaultInv'
<1>1. vault' = NoVault /\ activity' = NoActivity /\ lamports' = 0
  BY DEF CloseAccountsTo
<1>2. slot \in Nat
  BY DEF TypeOK
<1> QED BY <1>1, <1>2
        DEF VaultInv, AbsentIsEmpty, Exists, Chronology, QuorumWithinCouncil,
            TriggeredMeansSilent, ActivityDescribesOwner, DepositsAccounted,
            NoVault, NoActivity

(* A deposit raises the recorded total by what the account received, or by  *)
(* more when the lamports went into the shielded pool.                      *)
LEMMA DepositVaultInv ==
    ASSUME TypeOK, VaultInv, NEW a \in Amounts, Deposit(a) \/ RecordCloakDeposit(a)
    PROVE  VaultInv'
<1> USE LimitsAssumption
<1> DEFINE d == vault.deposited_lamports + a
<1>1. /\ a \in Nat /\ d \in Nat /\ lamports \in Nat /\ vault.deposited_lamports \in Nat
      /\ vault.status = "open"
      /\ UNCHANGED <<slot, activity>>
  BY DEF TypeOK, VaultAccount, Deposit, RecordCloakDeposit, Open
<1>2. /\ vault'.status = "open" /\ vault'.deposited_lamports = d
      /\ vault'.created_slot = vault.created_slot
      /\ vault'.last_check_in_slot = vault.last_check_in_slot
      /\ vault'.guardian_count = vault.guardian_count
      /\ vault'.m_of_n_threshold = vault.m_of_n_threshold
  BY <1>1 DEF TypeOK, VaultAccount, Deposit, RecordCloakDeposit
<1>3. \/ ~vault.shielded /\ ~vault'.shielded /\ lamports' = lamports + a
      \/ vault'.shielded /\ lamports' = lamports
  BY DEF TypeOK, VaultAccount, Deposit, RecordCloakDeposit
<1>4. AbsentIsEmpty' /\ TriggeredMeansSilent'
  BY <1>2 DEF AbsentIsEmpty, Exists, TriggeredMeansSilent
<1>5. Chronology' /\ QuorumWithinCouncil' /\ ActivityDescribesOwner'
  BY <1>1, <1>2
     DEF VaultInv, Chronology, QuorumWithinCouncil, ActivityDescribesOwner
<1>6. DepositsAccounted'
  BY <1>1, <1>2, <1>3 DEF VaultInv, DepositsAccounted
<1> QED BY <1>4, <1>5, <1>6 DEF VaultInv

(* The owner's instructions preserve the vault's invariants. *)
LEMMA OwnerVaultInv ==
    ASSUME TypeOK, VaultInv, OwnerStep PROVE VaultInv'
<1>1. ASSUME NEW t, ConfigureThreshold(t)
      PROVE  VaultInv'
  <2>1. QuorumWithinCouncil'
    BY <1>1 DEF VaultInv, QuorumWithinCouncil, ConfigureThreshold, TypeOK, VaultAccount
  <2> QED BY <1>1, <2>1, OpenVaultInv DEF ConfigureThreshold, Open, TypeOK, VaultAccount
<1>2. ASSUME NEW g \in Guardians \cup {Owner, NoKey},
             NEW m \in 0..(MAX_GUARDIANS + 1), AddGuardian(g, m)
      PROVE  VaultInv'
  <2> DEFINE n == vault.guardian_count + 1
  <2>1. vault' = [vault EXCEPT !.guardian_count = n, !.m_of_n_threshold = m]
        /\ m \in 1..n
    BY <1>2 DEF AddGuardian
  <2>2. /\ vault'.guardian_count = n /\ vault'.m_of_n_threshold = m
        /\ vault'.status = vault.status
        /\ vault'.created_slot = vault.created_slot
        /\ vault'.last_check_in_slot = vault.last_check_in_slot
        /\ vault'.deposited_lamports = vault.deposited_lamports
        /\ vault'.shielded = vault.shielded
    BY <2>1 DEF TypeOK, VaultAccount
  <2>3. QuorumWithinCouncil'
    BY <2>1, <2>2 DEF QuorumWithinCouncil
  <2> QED BY <1>2, <2>2, <2>3, OpenVaultInv DEF AddGuardian, Open
<1>3. ASSUME NEW g \in Guardians, RemoveGuardian(g)
      PROVE  VaultInv'
  <2>1. CASE InitiateRemoval(g)
    <3>1. QuorumWithinCouncil'
      BY <2>1 DEF InitiateRemoval, VaultInv, QuorumWithinCouncil
    <3> QED BY <2>1, <3>1, OpenVaultInv DEF InitiateRemoval, Open
  <2>2. CASE FinaliseRemoval(g)
    BY <2>2, DropGuardianVaultInv DEF FinaliseRemoval
  <2> QED BY <1>3, <2>1, <2>2 DEF RemoveGuardian
<1>4. CASE CloseVault
  BY <1>4, CloseAccountsVaultInv DEF CloseVault
<1> QED BY <1>1, <1>2, <1>3, <1>4, InitializeVaultInv, CheckInVaultInv, DepositVaultInv
        DEF OwnerStep

(* The guardians' instructions preserve the vault's invariants. *)
LEMMA GuardianVaultInv ==
    ASSUME TypeOK, VaultInv, GuardianStep PROVE VaultInv'
<1>1. ASSUME NEW g \in Guardians, AnomalyFlag(g)
      PROVE  VaultInv'
  <2>1. slot > vault.last_check_in_slot
    BY <1>1 DEF AnomalyFlag, is_anomalous
  <2>2. /\ slot \in Nat /\ vault.last_check_in_slot \in Nat
        /\ UNCHANGED <<slot, vault, lamports>> /\ vault.status = "open"
    BY <1>1 DEF AnomalyFlag, Open, TypeOK, VaultAccount
  <2>3. /\ activity'.anomaly_flagged /\ activity'.anomaly_flagged_slot = slot
        /\ activity'.checkin_count = activity.checkin_count
        /\ activity'.sum_of_intervals = activity.sum_of_intervals
    BY <1>1 DEF AnomalyFlag, TypeOK, ActivityAccount
  <2>4. ActivityDescribesOwner'
    BY <2>1, <2>2, <2>3 DEF VaultInv, ActivityDescribesOwner
  <2> QED BY <2>2, <2>4
          DEF VaultInv, AbsentIsEmpty, Exists, Chronology, QuorumWithinCouncil,
              TriggeredMeansSilent, DepositsAccounted
<1>2. ASSUME NEW g, NEW ty, NEW h, CreateCovenant(g, ty, h)
      PROVE  VaultInv'
  <2>1. /\ vault'.status = "open"
        /\ vault'.created_slot = vault.created_slot
        /\ vault'.last_check_in_slot = vault.last_check_in_slot
        /\ vault'.deposited_lamports = vault.deposited_lamports
        /\ vault'.shielded = vault.shielded
        /\ vault'.guardian_count = vault.guardian_count
        /\ vault'.m_of_n_threshold = vault.m_of_n_threshold
    BY <1>2 DEF CreateCovenant, Open, TypeOK, VaultAccount
  <2>2. QuorumWithinCouncil'
    BY <2>1 DEF VaultInv, QuorumWithinCouncil
  <2> QED BY <1>2, <2>1, <2>2, OpenVaultInv DEF CreateCovenant
<1>3. ASSUME NEW g, NEW i, GuardianSign(g, i)
      PROVE  VaultInv'
  <2>1. QuorumWithinCouncil'
    BY <1>3 DEF GuardianSign, VaultInv, QuorumWithinCouncil
  <2> QED BY <1>3, <2>1, OpenVaultInv DEF GuardianSign, Open
<1> QED BY <1>1, <1>2, <1>3 DEF GuardianStep

(* The instructions open to anyone preserve the vault's invariants. *)
LEMMA AnyoneVaultInv ==
    ASSUME TypeOK, CovenantTargets, VaultInv, AnyoneStep PROVE VaultInv'
<1>1. CASE TriggerInheritance
  <2>1. /\ slot >= vault.last_check_in_slot + vault.inactivity_threshold_slots
        /\ UNCHANGED <<slot, activity, lamports>>
    BY <1>1 DEF TriggerInheritance, threshold_crossed
  <2>2. /\ vault'.status = "triggered"
        /\ vault'.created_slot = vault.created_slot
        /\ vault'.last_check_in_slot = vault.last_check_in_slot
        /\ vault'.inactivity_threshold_slots = vault.inactivity_threshold_slots
        /\ vault'.deposited_lamports = vault.deposited_lamports
        /\ vault'.shielded = vault.shielded
        /\ vault'.guardian_count = vault.guardian_count
        /\ vault'.m_of_n_threshold = vault.m_of_n_threshold
    BY <1>1 DEF TriggerInheritance, TypeOK, VaultAccount
  <2>3. AbsentIsEmpty' /\ TriggeredMeansSilent'
    BY <2>1, <2>2 DEF AbsentIsEmpty, Exists, TriggeredMeansSilent
  <2>4. Chronology' /\ QuorumWithinCouncil' /\ ActivityDescribesOwner'
        /\ DepositsAccounted'
    BY <2>1, <2>2 DEF VaultInv, Chronology, QuorumWithinCouncil,
                      ActivityDescribesOwner, DepositsAccounted
  <2> QED BY <2>3, <2>4 DEF VaultInv
<1>2. ASSUME NEW i \in CovenantIndex, ExecuteCovenant(i)
      PROVE  VaultInv'
  <2>1. Open /\ UNCHANGED <<slot, activity, lamports>>
    BY <1>2 DEF ExecuteCovenant
  <2>2. ASSUME NEW h, ChangeBeneficiary(h)
        PROVE  VaultInv'
    <3>1. /\ vault'.status = vault.status
          /\ vault'.created_slot = vault.created_slot
          /\ vault'.last_check_in_slot = vault.last_check_in_slot
          /\ vault'.deposited_lamports = vault.deposited_lamports
          /\ vault'.shielded = vault.shielded
          /\ vault'.guardian_count = vault.guardian_count
          /\ vault'.m_of_n_threshold = vault.m_of_n_threshold
      BY <2>2 DEF ChangeBeneficiary, TypeOK, VaultAccount
    <3>2. QuorumWithinCouncil'
      BY <3>1 DEF VaultInv, QuorumWithinCouncil
    <3> QED BY <2>1, <3>1, <3>2, OpenVaultInv DEF Open
  <2>3. ASSUME NEW g, RemoveTarget(g)
        PROVE  VaultInv'
    BY <2>1, <2>3, DropGuardianVaultInv DEF RemoveTarget, TypeOK
  <2> QED BY <1>2, <2>2, <2>3 DEF ExecuteCovenant
<1>3. ASSUME NEW i, CloseOrphanedCovenant(i)
      PROVE  VaultInv'
  BY <1>3 DEF CloseOrphanedCovenant, VaultInv, AbsentIsEmpty, Exists, Chronology,
              QuorumWithinCouncil, TriggeredMeansSilent, ActivityDescribesOwner,
              DepositsAccounted
<1>4. ASSUME NEW i, NEW b, EmergencySweep(i, b)
      PROVE  VaultInv'
  BY <1>4, CloseAccountsVaultInv DEF EmergencySweep
<1>5. ASSUME NEW b, ClaimInheritance(b) \/ RecordCloakClaim(b)
      PROVE  VaultInv'
  BY <1>5, CloseAccountsVaultInv DEF ClaimInheritance, RecordCloakClaim
<1> QED BY <1>1, <1>2, <1>3, <1>4, <1>5 DEF AnyoneStep

(* The vault's invariants hold in every reachable state. *)
LEMMA VaultInvariant == Spec => []VaultInv
<1>1. TypeInv /\ VaultInv /\ [Next]_vars => VaultInv'
  <2> SUFFICES ASSUME TypeInv, VaultInv, [Next]_vars PROVE VaultInv'
    OBVIOUS
  <2>1. CASE UNCHANGED vars
    BY <2>1 DEF vars, VaultInv, AbsentIsEmpty, Exists, Chronology,
                QuorumWithinCouncil, TriggeredMeansSilent, ActivityDescribesOwner,
                DepositsAccounted
  <2> QED BY <2>1, TickVaultInv, OwnerVaultInv, GuardianVaultInv, AnyoneVaultInv
          DEF TypeInv, Next
<1> QED BY <1>1, InitVaultInv, TypeInvariant, PTL DEF Spec

(***************************************************************************)
(* On every path the quorum is between one and the council's size.         *)
(***************************************************************************)
THEOREM QuorumCorrect == Spec => []QuorumWithinCouncil
BY VaultInvariant, PTL DEF VaultInv

(***************************************************************************)
(* A triggered vault's owner was silent for the whole threshold, and       *)
(* nothing after the trigger changes that.                                 *)
(***************************************************************************)
THEOREM TriggerCorrect == Spec => []TriggeredMeansSilent
BY VaultInvariant, PTL DEF VaultInv

(***************************************************************************)
(* The activity account always describes the history of its own vault.     *)
(***************************************************************************)
THEOREM ActivityCorrect == Spec => []ActivityDescribesOwner
BY VaultInvariant, PTL DEF VaultInv

(***************************************************************************)
(* The balance is the recorded total unless the vault was shielded, and    *)
(* never more than it.                                                     *)
(***************************************************************************)
THEOREM DepositsCorrect == Spec => []DepositsAccounted
BY VaultInvariant, PTL DEF VaultInv

-----------------------------------------------------------------------------
(* The guardian accounts and the council's counter.                         *)

(* Guardians are never counted without an account: every instruction that   *)
(* moves the counter opens or closes exactly one account, or starts from 0. *)
LEMMA CountStep ==
    ASSUME TypeInv, CountWithinRegistry, [Next]_vars PROVE CountWithinRegistry'
<1> USE KeysAssumption
<1>1. /\ registered \in SUBSET Guardians /\ IsFiniteSet(registered)
      /\ vault.guardian_count \in Nat
  BY FS_Subset DEF TypeInv, TypeOK, VaultAccount
<1>2. Cardinality(registered) \in Nat
  BY <1>1, FS_CardinalityType
<1>3. ASSUME registered' = registered,
             vault'.guardian_count = vault.guardian_count \/ vault'.guardian_count = 0
      PROVE  CountWithinRegistry'
  BY <1>2, <1>3 DEF CountWithinRegistry
<1>4. ASSUME NEW g \in Guardians, g \in registered, DropGuardian(g)
      PROVE  CountWithinRegistry'
  <2>1. Cardinality(registered \ {g}) = Cardinality(registered) - 1
    BY <1>1, <1>4, FS_RemoveElement
  <2>2. registered' = registered \ {g}
    BY <1>4 DEF DropGuardian
  <2>3. vault'.guardian_count = vault.guardian_count - 1
    BY <1>4 DEF DropGuardian, TypeInv, TypeOK, VaultAccount
  <2> QED BY <1>1, <1>2, <2>1, <2>2, <2>3 DEF CountWithinRegistry
<1>5. ASSUME NEW g, NEW m, AddGuardian(g, m)
      PROVE  CountWithinRegistry'
  <2>1. Cardinality(registered \cup {g}) = Cardinality(registered) + 1
    BY <1>1, <1>5, FS_AddElement DEF AddGuardian
  <2>2. registered' = registered \cup {g}
    BY <1>5 DEF AddGuardian
  <2>3. vault'.guardian_count = vault.guardian_count + 1
    BY <1>5 DEF AddGuardian, TypeInv, TypeOK, VaultAccount
  <2> QED BY <1>1, <1>2, <2>1, <2>2, <2>3 DEF CountWithinRegistry
<1>6. ASSUME NEW p, CloseAccountsTo(p), registered' = registered
      PROVE  CountWithinRegistry'
  BY <1>3, <1>6 DEF CloseAccountsTo, NoVault
<1>7. CASE Tick \/ UNCHANGED vars
  BY <1>3, <1>7 DEF Tick, accounts, vars
<1>8. CASE OwnerStep
  <2>1. ASSUME NEW b, NEW t, InitializeVault(b, t)
        PROVE  CountWithinRegistry'
    BY <1>3, <2>1 DEF InitializeVault, NoVault
  <2>2. CASE CheckIn
    BY <1>3, <2>2 DEF CheckIn, TypeInv, TypeOK, VaultAccount
  <2>3. ASSUME NEW t, ConfigureThreshold(t)
        PROVE  CountWithinRegistry'
    BY <1>3, <2>3 DEF ConfigureThreshold, TypeInv, TypeOK, VaultAccount
  <2>4. ASSUME NEW a, Deposit(a) \/ RecordCloakDeposit(a)
        PROVE  CountWithinRegistry'
    BY <1>3, <2>4 DEF Deposit, RecordCloakDeposit, TypeInv, TypeOK, VaultAccount
  <2>5. ASSUME NEW g \in Guardians, RemoveGuardian(g)
        PROVE  CountWithinRegistry'
    BY <1>3, <1>4, <2>5 DEF RemoveGuardian, InitiateRemoval, FinaliseRemoval
  <2>6. CASE CloseVault
    BY <1>6, <2>6 DEF CloseVault
  <2> QED BY <1>5, <1>8, <2>1, <2>2, <2>3, <2>4, <2>5, <2>6 DEF OwnerStep
<1>9. CASE GuardianStep
  <2>1. ASSUME NEW g, AnomalyFlag(g)
        PROVE  CountWithinRegistry'
    BY <1>3, <2>1 DEF AnomalyFlag
  <2>2. ASSUME NEW g, NEW ty, NEW h, CreateCovenant(g, ty, h)
        PROVE  CountWithinRegistry'
    BY <1>3, <2>2 DEF CreateCovenant, TypeInv, TypeOK, VaultAccount
  <2>3. ASSUME NEW g, NEW i, GuardianSign(g, i)
        PROVE  CountWithinRegistry'
    BY <1>3, <2>3 DEF GuardianSign
  <2> QED BY <1>9, <2>1, <2>2, <2>3 DEF GuardianStep
<1>10. CASE AnyoneStep
  <2>1. CASE TriggerInheritance
    BY <1>3, <2>1 DEF TriggerInheritance, TypeInv, TypeOK, VaultAccount
  <2>2. ASSUME NEW i \in CovenantIndex, ExecuteCovenant(i)
        PROVE  CountWithinRegistry'
    <3>1. ASSUME NEW h, ChangeBeneficiary(h)
          PROVE  CountWithinRegistry'
      BY <1>3, <3>1 DEF ChangeBeneficiary, TypeInv, TypeOK, VaultAccount
    <3>2. ASSUME NEW g, RemoveTarget(g)
          PROVE  CountWithinRegistry'
      BY <1>1, <1>4, <3>2 DEF RemoveTarget
    <3> QED BY <2>2, <3>1, <3>2 DEF ExecuteCovenant
  <2>3. ASSUME NEW i, CloseOrphanedCovenant(i)
        PROVE  CountWithinRegistry'
    BY <1>3, <2>3 DEF CloseOrphanedCovenant
  <2>4. ASSUME NEW i, NEW b,
               EmergencySweep(i, b) \/ ClaimInheritance(b) \/ RecordCloakClaim(b)
        PROVE  CountWithinRegistry'
    BY <1>6, <2>4 DEF EmergencySweep, ClaimInheritance, RecordCloakClaim
  <2>5. Owner \in Parties
    BY DEF Parties
  <2> QED BY <1>10, <2>1, <2>2, <2>3, <2>4, <2>5 DEF AnyoneStep
<1> QED BY <1>7, <1>8, <1>9, <1>10 DEF Next

(***************************************************************************)
(* The council counted in the vault never exceeds the guardians that can   *)
(* sign, also after the address was closed and initialised again.          *)
(***************************************************************************)
THEOREM CountCorrect == Spec => []CountWithinRegistry
<1>1. Init => CountWithinRegistry
  BY FS_EmptySet DEF Init, CountWithinRegistry, NoVault
<1> QED BY <1>1, CountStep, TypeInvariant, PTL DEF Spec

-----------------------------------------------------------------------------
(* The first vault at an address: its counter is the number of guardian     *)
(* accounts, and a council that was never there has left no covenant.       *)

NoCovenants == \A i \in CovenantIndex : ~HasCovenant(i)

FirstLife ==
    /\ inits = 0 => ~Exists /\ registered = {} /\ NoCovenants
    /\ CountIsRegistry
    /\ inits <= 1 /\ Exists /\ vault.guardian_count = 0 => NoCovenants

(* An instruction that opens no account of guardian or covenant.            *)
LEMMA QuietFirstLife ==
    ASSUME TypeInv, FirstLife, inits' = inits, registered' = registered,
           Exists' => Exists /\ vault'.guardian_count = vault.guardian_count,
           \A i \in CovenantIndex : covenants'[i] \in {covenants[i], NoCovenant}
    PROVE  FirstLife'
<1>1. NoCovenants => NoCovenants'
  BY DEF NoCovenants, HasCovenant, NoCovenant
<1> QED BY <1>1 DEF FirstLife, CountIsRegistry

(* A guardian's instruction: it has an account, so the council is counted.  *)
LEMMA GuardianFirstLife ==
    ASSUME TypeInv, FirstLife, inits' = inits, registered' = registered,
           Exists, vault'.guardian_count = vault.guardian_count, registered # {}
    PROVE  FirstLife'
<1>1. IsFiniteSet(registered) /\ Cardinality(registered) # 0
  BY KeysAssumption, FS_Subset, FS_EmptySet DEF TypeInv, TypeOK
<1>2. inits <= 1 => vault.guardian_count # 0
  BY <1>1 DEF FirstLife, CountIsRegistry
<1> QED BY <1>2 DEF FirstLife, CountIsRegistry

(* A guardian account is opened or closed together with its being counted.  *)
LEMMA CouncilFirstLife ==
    ASSUME TypeInv, FirstLife, inits' = inits, Exists, NEW g \in Guardians,
           \/ registered' = registered \cup {g} /\ g \notin registered
              /\ vault'.guardian_count = vault.guardian_count + 1
           \/ registered' = registered \ {g} /\ g \in registered
              /\ vault.guardian_count > 1
              /\ vault'.guardian_count = vault.guardian_count - 1
    PROVE  FirstLife'
<1>1. /\ IsFiniteSet(registered) /\ vault.guardian_count \in Nat
  BY KeysAssumption, FS_Subset DEF TypeInv, TypeOK, VaultAccount
<1>2. Cardinality(registered) \in Nat
  BY <1>1, FS_CardinalityType
<1>3. inits <= 1 => vault'.guardian_count = Cardinality(registered')
  BY <1>1, <1>2, FS_AddElement, FS_RemoveElement DEF FirstLife, CountIsRegistry
<1>4. vault'.guardian_count # 0
  BY <1>1
<1>5. inits # 0
  BY DEF FirstLife
<1> QED BY <1>3, <1>4, <1>5 DEF FirstLife, CountIsRegistry

(* Creating a vault where none has been: nothing is there yet.              *)
LEMMA InitializeFirstLife ==
    ASSUME TypeInv, FirstLife, NEW b, NEW t, InitializeVault(b, t)
    PROVE  FirstLife'
<1>1. /\ inits' = inits + 1 /\ inits \in Nat
      /\ registered' = registered /\ covenants' = covenants
      /\ vault'.guardian_count = 0
  BY DEF InitializeVault, NoVault, TypeInv, TypeOK
<1>2. CASE inits = 0
  <2>1. registered' = {} /\ NoCovenants'
    BY <1>1, <1>2 DEF FirstLife, NoCovenants, HasCovenant
  <2>2. Cardinality(registered') = 0
    BY <2>1, FS_EmptySet
  <2> QED BY <1>1, <1>2, <2>1, <2>2 DEF FirstLife, CountIsRegistry
<1>3. CASE inits # 0
  <2>1. ~(inits' <= 1) /\ inits' # 0
    BY <1>1, <1>3
  <2> QED BY <2>1 DEF FirstLife, CountIsRegistry
<1> QED BY <1>2, <1>3

(* Every instruction keeps the first vault's accounts and counter together. *)
LEMMA FirstLifeStep ==
    ASSUME TypeInv, FirstLife, [Next]_vars PROVE FirstLife'
<1>1. covenants \in [CovenantIndex -> CovenantAccount] /\ vault \in VaultAccount
  BY DEF TypeInv, TypeOK
<1>2. ASSUME NEW p, CloseAccountsTo(p), registered' = registered, inits' = inits,
             \A i \in CovenantIndex : covenants'[i] \in {covenants[i], NoCovenant}
      PROVE  FirstLife'
  BY <1>2, QuietFirstLife DEF CloseAccountsTo, NoVault, Exists
<1>3. ASSUME NEW i \in CovenantIndex, CloseCovenant(i)
      PROVE  \A j \in CovenantIndex : covenants'[j] \in {covenants[j], NoCovenant}
  BY <1>1, <1>3 DEF CloseCovenant
<1>4. ASSUME NEW g \in Guardians, g \in registered, DropGuardian(g), inits' = inits, Exists
      PROVE  FirstLife'
  <2>1. /\ registered' = registered \ {g}
        /\ vault.guardian_count > 1
        /\ vault'.guardian_count = vault.guardian_count - 1
    BY <1>1, <1>4 DEF DropGuardian, VaultAccount
  <2> QED BY <1>4, <2>1, CouncilFirstLife
<1>5. CASE Tick \/ UNCHANGED vars
  BY <1>5, QuietFirstLife DEF Tick, accounts, vars, Exists
<1>6. CASE OwnerStep
  <2>1. ASSUME NEW b, NEW t, InitializeVault(b, t)
        PROVE  FirstLife'
    BY <2>1, InitializeFirstLife
  <2>2. CASE CheckIn
    BY <1>1, <2>2, QuietFirstLife DEF CheckIn, Open, Exists, VaultAccount
  <2>3. ASSUME NEW t, ConfigureThreshold(t)
        PROVE  FirstLife'
    BY <1>1, <2>3, QuietFirstLife DEF ConfigureThreshold, Open, Exists, VaultAccount
  <2>4. ASSUME NEW a, Deposit(a) \/ RecordCloakDeposit(a)
        PROVE  FirstLife'
    BY <1>1, <2>4, QuietFirstLife
       DEF Deposit, RecordCloakDeposit, Open, Exists, VaultAccount
  <2>5. ASSUME NEW g \in Guardians \cup {Owner, NoKey}, NEW m, AddGuardian(g, m)
        PROVE  FirstLife'
    <3>1. /\ g \in Guardians /\ g \notin registered /\ Exists /\ inits' = inits
          /\ registered' = registered \cup {g}
          /\ vault'.guardian_count = vault.guardian_count + 1
      BY <1>1, <2>5 DEF AddGuardian, Open, Exists, VaultAccount
    <3> QED BY <3>1, CouncilFirstLife
  <2>6. ASSUME NEW g \in Guardians, InitiateRemoval(g)
        PROVE  FirstLife'
    BY <2>6, QuietFirstLife DEF InitiateRemoval, Exists, Open
  <2>7. ASSUME NEW g \in Guardians, FinaliseRemoval(g)
        PROVE  FirstLife'
    BY <1>4, <2>7 DEF FinaliseRemoval, Exists, Open
  <2>8. CASE CloseVault
    BY <1>2, <2>8 DEF CloseVault
  <2> QED BY <1>6, <2>1, <2>2, <2>3, <2>4, <2>5, <2>6, <2>7, <2>8
          DEF OwnerStep, RemoveGuardian
<1>7. CASE GuardianStep
  <2>1. ASSUME NEW g, AnomalyFlag(g)
        PROVE  FirstLife'
    BY <2>1, QuietFirstLife DEF AnomalyFlag, Exists
  <2>2. ASSUME NEW g, NEW ty, NEW h, CreateCovenant(g, ty, h)
        PROVE  FirstLife'
    BY <1>1, <2>2, GuardianFirstLife DEF CreateCovenant, Open, Exists, VaultAccount
  <2>3. ASSUME NEW g, NEW i, GuardianSign(g, i)
        PROVE  FirstLife'
    BY <2>3, GuardianFirstLife DEF GuardianSign, Open, Exists
  <2> QED BY <1>7, <2>1, <2>2, <2>3 DEF GuardianStep
<1>8. CASE AnyoneStep
  <2>1. CASE TriggerInheritance
    BY <1>1, <2>1, QuietFirstLife DEF TriggerInheritance, Open, Exists, VaultAccount
  <2>2. ASSUME NEW i \in CovenantIndex, ExecuteCovenant(i)
        PROVE  FirstLife'
    <3>1. Exists /\ inits' = inits
          /\ \A j \in CovenantIndex : covenants'[j] \in {covenants[j], NoCovenant}
      BY <1>3, <2>2 DEF ExecuteCovenant, Open, Exists
    <3>2. ASSUME NEW h, ChangeBeneficiary(h)
          PROVE  FirstLife'
      BY <1>1, <3>1, <3>2, QuietFirstLife DEF ChangeBeneficiary, VaultAccount
    <3>3. ASSUME NEW g, RemoveTarget(g)
          PROVE  FirstLife'
      BY <1>4, <3>1, <3>3 DEF RemoveTarget, TypeInv, TypeOK
    <3> QED BY <2>2, <3>2, <3>3 DEF ExecuteCovenant
  <2>3. ASSUME NEW i \in CovenantIndex, CloseOrphanedCovenant(i)
        PROVE  FirstLife'
    BY <1>3, <2>3, QuietFirstLife DEF CloseOrphanedCovenant, Exists
  <2>4. ASSUME NEW i \in CovenantIndex, NEW b, EmergencySweep(i, b)
        PROVE  FirstLife'
    BY <1>2, <1>3, <2>4 DEF EmergencySweep
  <2>5. ASSUME NEW b, ClaimInheritance(b) \/ RecordCloakClaim(b)
        PROVE  FirstLife'
    BY <1>2, <2>5 DEF ClaimInheritance, RecordCloakClaim
  <2> QED BY <1>8, <2>1, <2>2, <2>3, <2>4, <2>5 DEF AnyoneStep
<1> QED BY <1>5, <1>6, <1>7, <1>8 DEF Next

LEMMA FirstLifeInvariant == Spec => []FirstLife
<1>1. Init => FirstLife
  BY DEF Init, FirstLife, CountIsRegistry, NoCovenants, Exists, HasCovenant, NoVault, NoCovenant
<1> QED BY <1>1, FirstLifeStep, TypeInvariant, PTL DEF Spec

(***************************************************************************)
(* The counter that every quorum is measured against is the number of      *)
(* guardian accounts, as long as the address was initialised once.         *)
(***************************************************************************)
THEOREM RegistryCorrect == Spec => []CountIsRegistry
BY FirstLifeInvariant, PTL DEF FirstLife

(***************************************************************************)
(* An owner who closes her first vault at an address other than by a sweep *)
(* leaves no account of a guardian or a covenant behind it.  Of the money  *)
(* in the vault it says nothing.                                           *)
(***************************************************************************)
THEOREM OwnerCloseCorrect == Spec => OwnerCloseStrandsNothing
<1> DEFINE Swept == \E i \in CovenantIndex :
                        covenants[i].covenant_type = "EmergencySweep"
                        /\ covenants'[i] = NoCovenant
           A == inits <= 1 /\ vault.status = "open" /\ vault'.status = "absent" =>
                    Swept \/ (registered = {} /\ NoCovenants)
<1>1. TypeInv /\ FirstLife /\ [Next]_vars => [A]_vars
  <2> SUFFICES ASSUME TypeInv, FirstLife, Next, inits <= 1,
                      vault.status = "open", vault'.status = "absent"
               PROVE  Swept \/ (registered = {} /\ NoCovenants)
    OBVIOUS
  <2>1. vault \in VaultAccount /\ covenants \in [CovenantIndex -> CovenantAccount]
    BY DEF TypeInv, TypeOK
  <2>2. ~Tick /\ ~GuardianStep
    BY <2>1 DEF Tick, accounts, GuardianStep, AnomalyFlag, CreateCovenant, GuardianSign,
                VaultAccount
  <2>3. OwnerStep => CloseVault
    BY <2>1 DEF OwnerStep, InitializeVault, Exists, CheckIn, ConfigureThreshold, Deposit,
                RecordCloakDeposit, AddGuardian, RemoveGuardian, InitiateRemoval,
                FinaliseRemoval, DropGuardian, VaultAccount
  <2>4. CASE CloseVault
    <3>1. vault.guardian_count = 0
      BY <2>4 DEF CloseVault
    <3>2. NoCovenants /\ Cardinality(registered) = 0
      BY <3>1 DEF FirstLife, CountIsRegistry, Exists
    <3>3. registered = {}
      BY <3>2, KeysAssumption, FS_Subset, FS_EmptySet DEF TypeInv, TypeOK
    <3> QED BY <3>2, <3>3
  <2>5. CASE AnyoneStep
    <3>1. ~TriggerInheritance /\ \A i \in CovenantIndex : ~CloseOrphanedCovenant(i)
      BY <2>1 DEF TriggerInheritance, CloseOrphanedCovenant, VaultAccount
    <3>2. \A b : ~ClaimInheritance(b) /\ ~RecordCloakClaim(b)
      BY DEF ClaimInheritance, RecordCloakClaim
    <3>3. \A i \in CovenantIndex : ~ExecuteCovenant(i)
      BY <2>1 DEF ExecuteCovenant, ChangeBeneficiary, RemoveTarget, DropGuardian, VaultAccount
    <3>4. ASSUME NEW i \in CovenantIndex, NEW b, EmergencySweep(i, b) PROVE Swept
      BY <2>1, <3>4 DEF EmergencySweep, CloseCovenant
    <3> QED BY <2>5, <3>1, <3>2, <3>3, <3>4 DEF AnyoneStep
  <2> QED BY <2>2, <2>3, <2>4, <2>5 DEF Next
<1> QED BY <1>1, TypeInvariant, FirstLifeInvariant, PTL
        DEF Spec, OwnerCloseStrandsNothing, NoCovenants

-----------------------------------------------------------------------------
(* Covenants: whose signatures they hold, and since when.                   *)

EmptyUnobserved ==
    \A i \in CovenantIndex : ~HasCovenant(i) => quorum_slot[i] = 0

CovenantInv == QuorumIsGenuine /\ EmptyUnobserved

(* A new signer makes the set of signers grow with the list of them.        *)
LEMMA SignersGrow ==
    ASSUME NEW s \in Seq(Guardians), NEW g \in Guardians,
           g \notin { s[k] : k \in DOMAIN s },
           Cardinality({ s[k] : k \in DOMAIN s }) = Len(s)
    PROVE  LET t == Append(s, g)
           IN  Cardinality({ t[k] : k \in DOMAIN t }) = Len(t) /\ Len(t) = Len(s) + 1
<1> DEFINE S == { s[k] : k \in DOMAIN s }
           t == Append(s, g)
           T == { t[k] : k \in DOMAIN t }
<1>1. S \subseteq Guardians
  OBVIOUS
<1>2. IsFiniteSet(S)
  BY <1>1, KeysAssumption, FS_Subset
<1>3. T = S \cup {g}
  OBVIOUS
<1>4. Cardinality(S \cup {g}) = Cardinality(S) + 1
  BY <1>2, FS_AddElement
<1>5. Len(t) = Len(s) + 1
  OBVIOUS
<1> QED BY <1>3, <1>4, <1>5

(* Nothing signed, nothing created: only a covenant that closes disappears. *)
LEMMA QuietCovenantInv ==
    ASSUME TypeOK, CovenantInv, slot' = slot \/ slot' = slot + 1,
           \/ UNCHANGED <<covenants, quorum_slot>>
           \/ \E i \in CovenantIndex : CloseCovenant(i)
    PROVE  CovenantInv'
<1>1. slot \in Nat /\ \A i \in CovenantIndex : covenants[i] \in CovenantAccount
  BY DEF TypeOK
<1>2. ASSUME NEW j \in CovenantIndex
      PROVE  \/ covenants'[j] = covenants[j] /\ quorum_slot'[j] = quorum_slot[j]
             \/ covenants'[j] = NoCovenant /\ quorum_slot'[j] = 0
  BY DEF TypeOK, CloseCovenant
<1>3. NoCovenant.covenant_type = "none"
  BY DEF NoCovenant
<1>4. EmptyUnobserved'
  BY <1>2, <1>3 DEF CovenantInv, EmptyUnobserved, HasCovenant
<1>5. QuorumIsGenuine'
  <2> SUFFICES ASSUME NEW j \in CovenantIndex, HasCovenant(j)'
               PROVE  LET c == covenants'[j]
                      IN  /\ Cardinality(SignerSet(c)) = Len(c.signers)
                          /\ c.required_signatures > 0
                          /\ c.signatures_complete_slot = quorum_slot'[j]
                          /\ c.signatures_complete_slot <= slot'
                          /\ c.signatures_complete_slot > 0
                                <=> Len(c.signers) >= c.required_signatures
    BY DEF QuorumIsGenuine, SignerSet
  <2>1. covenants'[j] = covenants[j] /\ quorum_slot'[j] = quorum_slot[j] /\ HasCovenant(j)
    BY <1>2, <1>3 DEF HasCovenant
  <2>2. covenants[j].signatures_complete_slot \in Nat
    BY <1>1 DEF CovenantAccount
  <2> QED BY <1>1, <2>1, <2>2 DEF CovenantInv, QuorumIsGenuine
<1> QED BY <1>4, <1>5 DEF CovenantInv

(* What a covenant and its observed quorum must satisfy, one at a time.     *)
Genuine(c, q, now) ==
    /\ Cardinality(SignerSet(c)) = Len(c.signers)
    /\ c.required_signatures > 0
    /\ c.signatures_complete_slot = q
    /\ c.signatures_complete_slot <= now
    /\ c.signatures_complete_slot > 0 <=> Len(c.signers) >= c.required_signatures

(* If one covenant changes and is genuine, all of them are.                 *)
LEMMA OneCovenantInv ==
    ASSUME TypeOK, CovenantInv, NEW i \in CovenantIndex, slot' = slot,
           \A j \in CovenantIndex \ {i} : /\ covenants'[j] = covenants[j]
                                          /\ quorum_slot'[j] = quorum_slot[j],
           HasCovenant(i)', Genuine(covenants'[i], quorum_slot'[i], slot)
    PROVE  CovenantInv'
<1>1. QuorumIsGenuine <=> \A j \in CovenantIndex : HasCovenant(j) =>
                              Genuine(covenants[j], quorum_slot[j], slot)
  BY DEF QuorumIsGenuine, Genuine
<1>2. QuorumIsGenuine' <=> \A j \in CovenantIndex : HasCovenant(j)' =>
                               Genuine(covenants'[j], quorum_slot'[j], slot')
  BY DEF QuorumIsGenuine, Genuine, SignerSet
<1>3. \A j \in CovenantIndex \ {i} : HasCovenant(j)' <=> HasCovenant(j)
  BY DEF HasCovenant
<1>4. EmptyUnobserved'
  BY <1>3 DEF CovenantInv, EmptyUnobserved
<1>5. QuorumIsGenuine'
  BY <1>1, <1>2, <1>3 DEF CovenantInv
<1> QED BY <1>4, <1>5 DEF CovenantInv

(* The creator is the first signer.                                         *)
LEMMA CreateCovenantInv ==
    ASSUME TypeOK, VaultInv, CovenantInv, NEW g \in Guardians, NEW ty \in CovenantTypes,
           NEW h \in Guardians \cup Heirs \cup {NoKey}, CreateCovenant(g, ty, h)
    PROVE  CovenantInv'
<1>0. vault.covenant_counter \in CovenantIndex
  BY DEF CreateCovenant
<1> PICK i \in CovenantIndex : i = vault.covenant_counter
  BY <1>0
<1> DEFINE r == vault.m_of_n_threshold
           c == [ covenant_type |-> ty, target |-> h, signers |-> <<g>>,
                  required_signatures |-> r,
                  signatures_complete_slot |-> CompleteSlot(<<g>>, r, 0) ]
<1>1. r \in Nat /\ r > 0 /\ slot \in Nat /\ slot > 0
  BY DEF CreateCovenant, TypeOK, VaultAccount
<1>2. covenants' = [covenants EXCEPT ![i] = c] /\ slot' = slot
  BY DEF CreateCovenant
<1>3. covenants'[i] = c /\ quorum_slot[i] = 0
  BY <1>1, <1>2 DEF TypeOK, CreateCovenant, CovenantInv, EmptyUnobserved
<1>4. SignerSet(c) = {g}
  BY DEF SignerSet
<1>5. Cardinality(SignerSet(c)) = 1 /\ Len(c.signers) = 1
  BY <1>4, FS_Singleton
<1>6. quorum_slot' = [quorum_slot EXCEPT ![i] =
                        IF @ = 0 /\ Cardinality(SignerSet(covenants'[i]))
                                       >= covenants'[i].required_signatures
                        THEN slot ELSE @]
  BY DEF CreateCovenant, ObserveQuorum
<1>7. quorum_slot'[i] = IF 1 >= r THEN slot ELSE 0
  BY <1>1, <1>3, <1>5, <1>6 DEF TypeOK
<1>8. CompleteSlot(<<g>>, r, 0) = IF 1 >= r THEN slot ELSE 0
  BY DEF CompleteSlot
<1>9. Genuine(c, quorum_slot'[i], slot)
  BY <1>1, <1>5, <1>7, <1>8 DEF Genuine
<1>10. HasCovenant(i)'
  BY <1>3 DEF HasCovenant, CovenantTypes
<1>11. \A j \in CovenantIndex \ {i} : /\ covenants'[j] = covenants[j]
                                      /\ quorum_slot'[j] = quorum_slot[j]
  BY <1>2, <1>6 DEF TypeOK
<1> QED BY <1>1, <1>2, <1>3, <1>9, <1>10, <1>11, OneCovenantInv

(* A signature completes the quorum at most once.                           *)
LEMMA GuardianSignInv ==
    ASSUME TypeOK, CovenantInv, NEW g \in Guardians, NEW i \in CovenantIndex,
           GuardianSign(g, i)
    PROVE  CovenantInv'
<1> DEFINE c == covenants[i]
           s == Append(c.signers, g)
           r == c.required_signatures
           old == c.signatures_complete_slot
           d == covenants'[i]
<1>1. /\ c \in CovenantAccount /\ c.signers \in Seq(Guardians)
      /\ r \in Nat /\ old \in Nat /\ slot \in Nat /\ slot > 0
      /\ quorum_slot[i] \in Nat
  BY DEF TypeOK, CovenantAccount
<1>2. Genuine(c, quorum_slot[i], slot) /\ HasCovenant(i) /\ g \notin SignerSet(c)
  BY DEF GuardianSign, CovenantInv, QuorumIsGenuine, Genuine
<1>3. /\ d.signers = s
      /\ d.required_signatures = r
      /\ d.covenant_type = c.covenant_type
      /\ d.signatures_complete_slot = CompleteSlot(s, r, old)
  BY <1>1 DEF GuardianSign, TypeOK, CovenantAccount
<1>4. Cardinality(SignerSet(d)) = Len(s) /\ Len(s) = Len(c.signers) + 1
  <2>1. Cardinality({s[k] : k \in DOMAIN s}) = Len(s) /\ Len(s) = Len(c.signers) + 1
    <3>1. Cardinality({c.signers[k] : k \in DOMAIN c.signers}) = Len(c.signers)
      BY <1>2 DEF SignerSet, Genuine
    <3>2. g \notin {c.signers[k] : k \in DOMAIN c.signers}
      BY <1>2 DEF SignerSet
    <3>3. c.signers \in Seq(Guardians)
      BY <1>1
    <3> HIDE DEF c
    <3> QED BY <3>1, <3>2, <3>3, SignersGrow
  <2>2. SignerSet(d) = {s[k] : k \in DOMAIN s}
    BY <1>3 DEF SignerSet
  <2> QED BY <2>1, <2>2
<1>5. Len(c.signers) \in Nat
  BY <1>1
<1>6. quorum_slot' = [quorum_slot EXCEPT ![i] =
                        IF @ = 0 /\ Cardinality(SignerSet(d)) >= d.required_signatures
                        THEN slot ELSE @]
  BY DEF GuardianSign, ObserveQuorum
<1>7. quorum_slot'[i] = IF quorum_slot[i] = 0 /\ Len(s) >= r THEN slot ELSE quorum_slot[i]
  BY <1>3, <1>4, <1>6 DEF TypeOK
<1>8. CompleteSlot(s, r, old) = IF Len(s) >= r /\ old = 0 THEN slot ELSE old
  BY DEF CompleteSlot
<1>9. old = quorum_slot[i] /\ r > 0 /\ old <= slot /\ (old > 0 <=> Len(c.signers) >= r)
  BY <1>2 DEF Genuine
<1>10. Genuine(d, quorum_slot'[i], slot)
  BY <1>1, <1>3, <1>4, <1>5, <1>7, <1>8, <1>9 DEF Genuine
<1>11. HasCovenant(i)'
  BY <1>2, <1>3 DEF HasCovenant
<1>12. \A j \in CovenantIndex \ {i} : /\ covenants'[j] = covenants[j]
                                      /\ quorum_slot'[j] = quorum_slot[j]
  BY <1>6 DEF GuardianSign, TypeOK
<1>13. slot' = slot
  BY DEF GuardianSign
<1> QED BY <1>10, <1>11, <1>12, <1>13, OneCovenantInv

(* Every other instruction leaves the covenants alone or closes one.        *)
LEMMA CovenantInvStep ==
    ASSUME TypeInv, VaultInv, CovenantInv, [Next]_vars PROVE CovenantInv'
<1>0. TypeOK
  BY DEF TypeInv
<1>1. CASE Tick \/ UNCHANGED vars
  BY <1>0, <1>1, QuietCovenantInv DEF Tick, accounts, vars
<1>2. CASE OwnerStep
  <2>1. UNCHANGED <<slot, covenants, quorum_slot>>
    BY <1>2 DEF OwnerStep, InitializeVault, CheckIn, ConfigureThreshold, Deposit,
                RecordCloakDeposit, AddGuardian, RemoveGuardian, InitiateRemoval,
                FinaliseRemoval, CloseVault
  <2> QED BY <1>0, <2>1, QuietCovenantInv
<1>3. CASE GuardianStep
  <2>1. ASSUME NEW g, AnomalyFlag(g)
        PROVE  CovenantInv'
    BY <1>0, <2>1, QuietCovenantInv DEF AnomalyFlag
  <2> QED BY <1>0, <1>3, <2>1, CreateCovenantInv, GuardianSignInv
          DEF GuardianStep, CovenantTypes
<1>4. CASE AnyoneStep
  <2>1. CASE TriggerInheritance
    BY <1>0, <2>1, QuietCovenantInv DEF TriggerInheritance
  <2>2. ASSUME NEW i \in CovenantIndex, NEW b,
               ExecuteCovenant(i) \/ CloseOrphanedCovenant(i) \/ EmergencySweep(i, b)
        PROVE  CovenantInv'
    BY <1>0, <2>2, QuietCovenantInv
       DEF ExecuteCovenant, CloseOrphanedCovenant, EmergencySweep
  <2>3. ASSUME NEW b, ClaimInheritance(b) \/ RecordCloakClaim(b)
        PROVE  CovenantInv'
    BY <1>0, <2>3, QuietCovenantInv DEF ClaimInheritance, RecordCloakClaim
  <2> QED BY <1>4, <2>1, <2>2, <2>3 DEF AnyoneStep, Parties
<1> QED BY <1>1, <1>2, <1>3, <1>4 DEF Next

LEMMA CovenantInvariant == Spec => []CovenantInv
<1>1. Init => CovenantInv
  BY DEF Init, CovenantInv, QuorumIsGenuine, EmptyUnobserved, HasCovenant, NoCovenant
<1> QED BY <1>1, CovenantInvStep, TypeInvariant, VaultInvariant, PTL DEF Spec

(***************************************************************************)
(* Whatever the order of creations, signatures, removals and executions,   *)
(* the slot a covenant's timelock runs from is the slot at which the       *)
(* required number of different guardians had signed it.                   *)
(***************************************************************************)
THEOREM QuorumGenuine == Spec => []QuorumIsGenuine
BY CovenantInvariant, PTL DEF CovenantInv

-----------------------------------------------------------------------------
(* What a step may never do.                                                *)

(* No handler but a settlement or the clean-up of a covenant runs on a      *)
(* triggered vault.                                                         *)
LEMMA TriggeredSteps ==
    ASSUME vault.status = "triggered", Next
    PROVE  \/ Tick
           \/ \E b \in Parties : ClaimInheritance(b) \/ RecordCloakClaim(b)
           \/ \E i \in CovenantIndex : CloseOrphanedCovenant(i)
<1>1. ~OwnerStep
  BY DEF OwnerStep, InitializeVault, CheckIn, ConfigureThreshold, Deposit,
         RecordCloakDeposit, AddGuardian, RemoveGuardian, InitiateRemoval,
         FinaliseRemoval, CloseVault, Open, Exists
<1>2. ~GuardianStep
  BY DEF GuardianStep, AnomalyFlag, CreateCovenant, GuardianSign, Open
<1>3. AnyoneStep => \/ \E b \in Parties : ClaimInheritance(b) \/ RecordCloakClaim(b)
                    \/ \E i \in CovenantIndex : CloseOrphanedCovenant(i)
  BY DEF AnyoneStep, TriggerInheritance, ExecuteCovenant, EmergencySweep, Open
<1> QED BY <1>1, <1>2, <1>3 DEF Next

(***************************************************************************)
(* After the trigger only a settlement moves the vault: no parameter, no   *)
(* guardian and no lamport changes, and covenants can only disappear.      *)
(***************************************************************************)
THEOREM FrozenCorrect == Spec => FrozenOnceTriggered
<1> DEFINE A == vault.status = "triggered" =>
                   \/ vault' = NoVault
                   \/ /\ UNCHANGED <<vault, activity, registered, removal_requested,
                                     lamports>>
                      /\ \A i \in CovenantIndex :
                             covenants'[i] \in {covenants[i], NoCovenant}
<1>1. TypeInv /\ [Next]_vars => [A]_vars
  <2> SUFFICES ASSUME TypeOK, Next, vault.status = "triggered" PROVE A
    BY DEF TypeInv
  <2>1. CASE Tick
    BY <2>1 DEF Tick, accounts
  <2>2. ASSUME NEW b, ClaimInheritance(b) \/ RecordCloakClaim(b) PROVE A
    BY <2>2 DEF ClaimInheritance, RecordCloakClaim, CloseAccountsTo
  <2>3. ASSUME NEW i \in CovenantIndex, CloseOrphanedCovenant(i) PROVE A
    BY <2>3 DEF CloseOrphanedCovenant, CloseCovenant, TypeOK
  <2> QED BY <2>1, <2>2, <2>3, TriggeredSteps
<1> QED BY <1>1, TypeInvariant, PTL DEF Spec, FrozenOnceTriggered

(* Only an executed covenant changes the heir of a vault that stays.        *)
LEMMA HeirSteps ==
    ASSUME TypeOK, Next, SameVault, vault'.beneficiary # vault.beneficiary
    PROVE  \E i \in CovenantIndex :
               /\ ExecuteCovenant(i)
               /\ covenants[i].covenant_type = "BeneficiaryChange"
               /\ ChangeBeneficiary(covenants[i].target)
<1> USE DEF TypeOK, VaultAccount
<1>1. ~Tick
  BY DEF Tick, accounts
<1>2. ASSUME NEW p, CloseAccountsTo(p) PROVE FALSE
  BY <1>2 DEF CloseAccountsTo, SameVault, Exists, NoVault
<1>3. ASSUME NEW g, DropGuardian(g) PROVE FALSE
  BY <1>3 DEF DropGuardian
<1>4. ASSUME OwnerStep PROVE FALSE
  <2>1. ~CheckIn /\ ~CloseVault
    BY <1>2 DEF CheckIn, CloseVault
  <2>2. ASSUME NEW b, NEW t, InitializeVault(b, t) PROVE FALSE
    BY <2>2 DEF InitializeVault, SameVault
  <2>3. ASSUME NEW t, ConfigureThreshold(t) PROVE FALSE
    BY <2>3 DEF ConfigureThreshold
  <2>4. ASSUME NEW a, Deposit(a) \/ RecordCloakDeposit(a) PROVE FALSE
    BY <2>4 DEF Deposit, RecordCloakDeposit
  <2>5. ASSUME NEW g, NEW m, AddGuardian(g, m) PROVE FALSE
    BY <2>5 DEF AddGuardian
  <2>6. ASSUME NEW g, RemoveGuardian(g) PROVE FALSE
    BY <1>3, <2>6 DEF RemoveGuardian, InitiateRemoval, FinaliseRemoval
  <2> QED BY <1>4, <2>1, <2>2, <2>3, <2>4, <2>5, <2>6 DEF OwnerStep
<1>5. ASSUME GuardianStep PROVE FALSE
  <2>1. ASSUME NEW g, NEW ty, NEW h, CreateCovenant(g, ty, h) PROVE FALSE
    BY <2>1 DEF CreateCovenant
  <2> QED BY <1>5, <2>1 DEF GuardianStep, AnomalyFlag, GuardianSign
<1>6. ~TriggerInheritance
  BY DEF TriggerInheritance
<1>7. ASSUME NEW i, NEW b,
             \/ CloseOrphanedCovenant(i) \/ EmergencySweep(i, b)
             \/ ClaimInheritance(b) \/ RecordCloakClaim(b)
      PROVE  FALSE
  BY <1>2, <1>7 DEF CloseOrphanedCovenant, EmergencySweep, ClaimInheritance,
                    RecordCloakClaim
<1>8. PICK i \in CovenantIndex : ExecuteCovenant(i)
  BY <1>1, <1>4, <1>5, <1>6, <1>7 DEF Next, AnyoneStep, Parties
<1> QED BY <1>3, <1>8 DEF ExecuteCovenant, RemoveTarget

(***************************************************************************)
(* The heir changes only by a covenant that the required number of         *)
(* different guardians had signed a full timelock earlier.                 *)
(***************************************************************************)
THEOREM HeirCorrect == Spec => HeirChangesWithNotice
<1> DEFINE A == SameVault /\ vault'.beneficiary # vault.beneficiary =>
                   \E i \in CovenantIndex :
                       /\ covenants[i].covenant_type = "BeneficiaryChange"
                       /\ covenants[i].target = vault'.beneficiary
                       /\ quorum_slot[i] > 0
                       /\ slot >= quorum_slot[i] + BENEFICIARY_CHANGE_TIMELOCK_SLOTS
                       /\ covenants'[i] = NoCovenant
<1>1. TypeInv /\ CovenantInv /\ [Next]_vars => [A]_vars
  <2> SUFFICES ASSUME TypeOK, CovenantInv, Next, SameVault,
                      vault'.beneficiary # vault.beneficiary
               PROVE  A
    BY DEF TypeInv
  <2>1. PICK i \in CovenantIndex :
                 /\ ExecuteCovenant(i)
                 /\ covenants[i].covenant_type = "BeneficiaryChange"
                 /\ ChangeBeneficiary(covenants[i].target)
    BY HeirSteps
  <2>2. quorum_slot[i] = covenants[i].signatures_complete_slot
    BY <2>1 DEF CovenantInv, QuorumIsGenuine, HasCovenant
  <2>3. /\ quorum_slot[i] > 0
        /\ slot - quorum_slot[i] >= BENEFICIARY_CHANGE_TIMELOCK_SLOTS
    BY <2>1, <2>2 DEF ExecuteCovenant, Approved, timelock_slots
  <2>4. slot \in Nat /\ quorum_slot[i] \in Nat /\ BENEFICIARY_CHANGE_TIMELOCK_SLOTS \in Nat
    BY LimitsAssumption DEF TypeOK, Timelocks
  <2>5. covenants'[i] = NoCovenant
    BY <2>1 DEF ExecuteCovenant, CloseCovenant, TypeOK
  <2>6. vault'.beneficiary = covenants[i].target
    BY <2>1 DEF ChangeBeneficiary, TypeOK, VaultAccount
  <2> QED BY <2>1, <2>3, <2>4, <2>5, <2>6
<1> QED BY <1>1, TypeInvariant, CovenantInvariant, PTL DEF Spec, HeirChangesWithNotice

(* Lamports are only ever paid by closing the vault account.                *)
LEMMA PayingSteps ==
    ASSUME Next, received' # received
    PROVE  \/ CloseVault
           \/ \E i \in CovenantIndex, b \in Parties : EmergencySweep(i, b)
           \/ \E b \in Parties : ClaimInheritance(b) \/ RecordCloakClaim(b)
<1>1. ~Tick
  BY DEF Tick
<1>2. OwnerStep => CloseVault
  BY DEF OwnerStep, InitializeVault, CheckIn, ConfigureThreshold, Deposit,
         RecordCloakDeposit, AddGuardian, RemoveGuardian, InitiateRemoval,
         FinaliseRemoval
<1>3. ~GuardianStep
  BY DEF GuardianStep, AnomalyFlag, CreateCovenant, GuardianSign
<1>4. AnyoneStep => \/ \E i \in CovenantIndex, b \in Parties : EmergencySweep(i, b)
                    \/ \E b \in Parties : ClaimInheritance(b) \/ RecordCloakClaim(b)
  BY DEF AnyoneStep, TriggerInheritance, ExecuteCovenant, CloseOrphanedCovenant
<1> QED BY <1>1, <1>2, <1>3, <1>4 DEF Next

(***************************************************************************)
(* Unless the vault was shielded, lamports leave it only as a whole and    *)
(* only to the beneficiary it names.                                       *)
(***************************************************************************)
THEOREM PaymentCorrect == Spec => PaidToHeirUnlessShielded
<1> DEFINE A == \A p \in Parties : received'[p] # received[p] =>
                   /\ p = vault.beneficiary \/ vault.shielded
                   /\ received'[p] = received[p] + lamports
                   /\ lamports' = 0
<1>1. TypeInv /\ VaultInv /\ [Next]_vars => [A]_vars
  <2> SUFFICES ASSUME TypeOK, VaultInv, Next, NEW p \in Parties,
                      received'[p] # received[p]
               PROVE  /\ p = vault.beneficiary \/ vault.shielded
                      /\ received'[p] = received[p] + lamports
                      /\ lamports' = 0
    BY DEF TypeInv
  <2>1. ASSUME NEW b \in Parties, CloseAccountsTo(b)
        PROVE  /\ p = b
               /\ received'[p] = received[p] + lamports
               /\ lamports' = 0
    BY <2>1 DEF CloseAccountsTo, TypeOK
  <2>2. ~CloseVault
    <3> SUFFICES ASSUME CloseVault PROVE FALSE
      OBVIOUS
    <3>1. vault.deposited_lamports = 0 /\ CloseAccountsTo(Owner) /\ Owner \in Parties
      BY DEF CloseVault, Parties
    <3>2. lamports = 0
      BY <3>1 DEF TypeOK, VaultInv, DepositsAccounted
    <3>3. received'[p] = received[p] + 0 /\ received[p] \in Nat
      BY <2>1, <3>1, <3>2 DEF TypeOK
    <3> QED BY <3>3
  <2>3. ASSUME NEW i \in CovenantIndex, NEW b \in Parties,
               EmergencySweep(i, b)
        PROVE  CloseAccountsTo(b) /\ b = vault.beneficiary
    BY <2>3 DEF EmergencySweep
  <2>4. ASSUME NEW b \in Parties, ClaimInheritance(b)
        PROVE  CloseAccountsTo(b) /\ b = vault.beneficiary
    BY <2>4 DEF ClaimInheritance
  <2>5. ASSUME NEW b \in Parties, RecordCloakClaim(b)
        PROVE  CloseAccountsTo(b) /\ vault.shielded
    BY <2>5 DEF RecordCloakClaim
  <2> QED BY <2>1, <2>2, <2>3, <2>4, <2>5, PayingSteps
<1> QED BY <1>1, TypeInvariant, VaultInvariant, PTL DEF Spec, PaidToHeirUnlessShielded

(* A guardian account is closed by the owner's second request or by a       *)
(* covenant, and by nothing else.                                           *)
LEMMA LeavingSteps ==
    ASSUME TypeOK, Next, NEW g \in registered \ registered'
    PROVE  /\ DropGuardian(g)
           /\ \/ FinaliseRemoval(g)
              \/ \E i \in CovenantIndex :
                     /\ ExecuteCovenant(i)
                     /\ covenants[i].covenant_type = "GuardianRemoval"
                     /\ covenants[i].target = g
<1>1. ~Tick
  BY DEF Tick, accounts
<1>2. ASSUME NEW h, DropGuardian(h) PROVE h = g
  BY <1>2 DEF DropGuardian
<1>3. OwnerStep => FinaliseRemoval(g) /\ DropGuardian(g)
  <2>1. ASSUME NEW h, FinaliseRemoval(h) PROVE FinaliseRemoval(g) /\ DropGuardian(g)
    BY <1>2, <2>1 DEF FinaliseRemoval
  <2> QED BY <2>1
        DEF OwnerStep, InitializeVault, CheckIn, ConfigureThreshold, Deposit,
            RecordCloakDeposit, AddGuardian, RemoveGuardian, InitiateRemoval, CloseVault
<1>4. ~GuardianStep
  BY DEF GuardianStep, AnomalyFlag, CreateCovenant, GuardianSign
<1>5. ASSUME NEW i \in CovenantIndex, ExecuteCovenant(i)
      PROVE  /\ DropGuardian(g)
             /\ covenants[i].covenant_type = "GuardianRemoval"
             /\ covenants[i].target = g
  <2>1. ~ChangeBeneficiary(covenants[i].target)
    BY DEF ChangeBeneficiary
  <2>2. RemoveTarget(covenants[i].target)
        /\ covenants[i].covenant_type = "GuardianRemoval"
    BY <1>5, <2>1 DEF ExecuteCovenant
  <2> QED BY <1>2, <2>2 DEF RemoveTarget
<1>6. AnyoneStep => \E i \in CovenantIndex : ExecuteCovenant(i)
  BY DEF AnyoneStep, TriggerInheritance, CloseOrphanedCovenant, EmergencySweep,
         ClaimInheritance, RecordCloakClaim
<1> QED BY <1>1, <1>3, <1>4, <1>5, <1>6 DEF Next

(***************************************************************************)
(* A guardian leaves by the owner after the timelock or by a covenant of   *)
(* the council, and no council is ever emptied.                            *)
(***************************************************************************)
THEOREM LeavingCorrect == Spec => GuardiansLeaveWithCause
<1> DEFINE Cause(g) ==
             \/ /\ removal_requested[g] > 0
                /\ slot >= removal_requested[g] + GUARDIAN_REMOVAL_TIMELOCK_SLOTS
             \/ \E i \in CovenantIndex :
                    /\ covenants[i].covenant_type = "GuardianRemoval"
                    /\ covenants[i].target = g
                    /\ quorum_slot[i] > 0
                    /\ covenants'[i] = NoCovenant
           A == /\ \A g \in registered \ registered' : Cause(g)
                /\ SameVault /\ vault.guardian_count > 0 => registered' # {}
<1>1. TypeInv /\ CovenantInv /\ CountWithinRegistry /\ [Next]_vars => [A]_vars
  <2> SUFFICES ASSUME TypeOK, CovenantInv, CountWithinRegistry, Next PROVE A
    BY DEF TypeInv
  <2>1. ASSUME NEW g \in registered \ registered' PROVE Cause(g)
    <3>1. slot \in Nat /\ removal_requested[g] \in Nat
          /\ GUARDIAN_REMOVAL_TIMELOCK_SLOTS \in Nat
      BY LimitsAssumption DEF TypeOK, Timelocks
    <3>2. CASE FinaliseRemoval(g)
      BY <3>1, <3>2 DEF FinaliseRemoval
    <3>3. ASSUME NEW i \in CovenantIndex, ExecuteCovenant(i)
          PROVE  quorum_slot[i] > 0 /\ covenants'[i] = NoCovenant
      BY <3>3 DEF ExecuteCovenant, Approved, CloseCovenant, TypeOK, CovenantInv,
                  QuorumIsGenuine
    <3> QED BY <3>2, <3>3, LeavingSteps
  <2>2. ASSUME vault.guardian_count > 0 PROVE registered' # {}
    <3>1. /\ IsFiniteSet(registered) /\ Cardinality(registered) \in Nat
          /\ vault.guardian_count \in Nat
          /\ vault.guardian_count <= Cardinality(registered)
      BY KeysAssumption, FS_Subset, FS_CardinalityType
         DEF TypeOK, VaultAccount, CountWithinRegistry
    <3>2. CASE registered \subseteq registered'
      BY <2>2, <3>1, <3>2, FS_EmptySet
    <3>3. ASSUME NEW g \in registered \ registered' PROVE registered' # {}
      <4>1. vault.guardian_count > 1 /\ registered' = registered \ {g}
        BY LeavingSteps DEF DropGuardian
      <4>2. Cardinality(registered \ {g}) = Cardinality(registered) - 1
        BY <3>1, FS_RemoveElement
      <4> QED BY <3>1, <4>1, <4>2, FS_EmptySet
    <3> QED BY <3>2, <3>3
  <2> QED BY <2>1, <2>2
<1> QED BY <1>1, TypeInvariant, CovenantInvariant, CountCorrect, PTL
        DEF Spec, GuardiansLeaveWithCause

-----------------------------------------------------------------------------
(* Implementation of VaultLifecycle *)

(* The owner's instructions, as an observer of the address sees them. *)
LEMMA OwnerLifecycle ==
    ASSUME TypeOK, OwnerStep PROVE [Lifecycle!Next]_(Lifecycle!chain_vars)
<1> USE LimitsAssumption DEF TypeOK, VaultAccount, Lifecycle!chain_vars, Lifecycle!Next
<1>1. ASSUME NEW b, NEW t \in 0..(MAX_INACTIVITY_THRESHOLD_SLOTS + 1),
             InitializeVault(b, t)
      PROVE  Lifecycle!Initialize
  BY <1>1 DEF InitializeVault, ThresholdInRange, Exists, NoVault,
              Lifecycle!Initialize, Lifecycle!Thresholds
<1>2. ASSUME CheckIn PROVE Lifecycle!CheckIn
  BY <1>2 DEF CheckIn, Open, Lifecycle!CheckIn
<1>3. ASSUME NEW t \in 0..(MAX_INACTIVITY_THRESHOLD_SLOTS + 1),
             ConfigureThreshold(t)
      PROVE  Lifecycle!ConfigureThreshold
  BY <1>3 DEF ConfigureThreshold, ThresholdInRange, Open,
              Lifecycle!ConfigureThreshold, Lifecycle!Thresholds
<1>4. ASSUME NEW a, Deposit(a) \/ RecordCloakDeposit(a)
      PROVE  UNCHANGED Lifecycle!chain_vars
  BY <1>4 DEF Deposit, RecordCloakDeposit
<1>5. ASSUME NEW g, NEW m, AddGuardian(g, m)
      PROVE  UNCHANGED Lifecycle!chain_vars
  BY <1>5 DEF AddGuardian
<1>6. ASSUME NEW g, RemoveGuardian(g)
      PROVE  UNCHANGED Lifecycle!chain_vars
  BY <1>6 DEF RemoveGuardian, InitiateRemoval, FinaliseRemoval, DropGuardian
<1>7. ASSUME CloseVault PROVE Lifecycle!Close
  BY <1>7 DEF CloseVault, CloseAccountsTo, NoVault, Open, Lifecycle!Close
<1> QED BY <1>1, <1>2, <1>3, <1>4, <1>5, <1>6, <1>7 DEF OwnerStep

(* What anyone may submit, as an observer of the address sees it. *)
LEMMA AnyoneLifecycle ==
    ASSUME TypeOK, AnyoneStep PROVE [Lifecycle!Next]_(Lifecycle!chain_vars)
<1> USE DEF TypeOK, VaultAccount, Lifecycle!chain_vars, Lifecycle!Next
<1>1. ASSUME TriggerInheritance PROVE Lifecycle!Trigger
  BY <1>1 DEF TriggerInheritance, Open, threshold_crossed,
              Lifecycle!Trigger, Lifecycle!Claimable
<1>2. ASSUME NEW i, ExecuteCovenant(i)
      PROVE  UNCHANGED Lifecycle!chain_vars
  BY <1>2 DEF ExecuteCovenant, ChangeBeneficiary, RemoveTarget, DropGuardian
<1>3. ASSUME NEW i, CloseOrphanedCovenant(i)
      PROVE  UNCHANGED Lifecycle!chain_vars
  BY <1>3 DEF CloseOrphanedCovenant
<1>4. ASSUME NEW i, NEW b, EmergencySweep(i, b) PROVE Lifecycle!Close
  BY <1>4 DEF EmergencySweep, CloseAccountsTo, NoVault, Open, Lifecycle!Close
<1>5. ASSUME NEW b, ClaimInheritance(b) \/ RecordCloakClaim(b)
      PROVE  Lifecycle!Close
  BY <1>5 DEF ClaimInheritance, RecordCloakClaim, CloseAccountsTo, NoVault,
              Lifecycle!Close
<1> QED BY <1>1, <1>2, <1>3, <1>4, <1>5 DEF AnyoneStep

(***************************************************************************)
(* The program implements VaultLifecycle: whatever the off-chain services  *)
(* conclude from that specification holds of the seventeen instructions.   *)
(***************************************************************************)
THEOREM LifecycleCorrect == Spec => ImplementsLifecycle
<1>1. Init => Lifecycle!Init
  BY DEF Init, NoVault, Lifecycle!Init
<1>2. TypeInv /\ [Next]_vars => [Lifecycle!Next]_(Lifecycle!chain_vars)
  <2> SUFFICES ASSUME TypeOK, [Next]_vars
               PROVE  [Lifecycle!Next]_(Lifecycle!chain_vars)
    BY DEF TypeInv
  <2>1. CASE UNCHANGED vars
    BY <2>1 DEF vars, Lifecycle!chain_vars
  <2>2. CASE Tick
    BY <2>2 DEF Tick, accounts, Lifecycle!Next, Lifecycle!Tick, Lifecycle!vault_vars
  <2>3. CASE GuardianStep
    BY <2>3, ZenonT(60) DEF GuardianStep, AnomalyFlag, CreateCovenant, GuardianSign, TypeOK,
                VaultAccount, Lifecycle!chain_vars
  <2> QED BY <2>1, <2>2, <2>3, OwnerLifecycle, AnyoneLifecycle DEF Next
<1> QED BY <1>1, <1>2, TypeInvariant, PTL DEF Spec, ImplementsLifecycle, Lifecycle!Spec
=============================================================================
