---------------------------- MODULE Watcher_proofs ----------------------------
(***************************************************************************)
(* Proofs about Watcher for any thresholds, warning levels, lead of the    *)
(* slot notifications, faults and restarts.                                *)
(***************************************************************************)
EXTENDS Watcher, TLAPS

-----------------------------------------------------------------------------
(* Types.  Accounts are copied from the chain into the stream, the cycle   *)
(* and the row, and whoever holds one relies on its threshold not being 0. *)

Sound(a) == a \in Account /\ (a.status # "absent" => a.inactivity_threshold_slots # 0)

ChainTypeOK ==
    /\ slot \in Nat
    /\ Sound(account)
    /\ inits \in Nat

CopiesSound ==
    /\ \A i \in DOMAIN inbox : Sound(inbox[i])
    /\ pc = "fetched" => Sound(record.account)
    /\ stream = "snapshot" => inbox # <<>>
    /\ row.account = NoAccount \/ row.account.inactivity_threshold_slots # 0

\* The row's part of the types.
RowSound ==
    /\ row \in [ is_active : BOOLEAN, account : Account, sent : SUBSET Alerts,
                 trigger_signalled : BOOLEAN ]
    /\ row.is_active => row.account.inactivity_threshold_slots # 0
    /\ row.account = NoAccount \/ row.account.inactivity_threshold_slots # 0

TypeInv == ChainTypeOK /\ TypeOK /\ CopiesSound

(* No step of the vault's own life leaves its types. *)
LEMMA ChainType ==
    ASSUME ChainTypeOK, [Chain!Next]_chain_vars
    PROVE  ChainTypeOK'
<1> USE WatcherAssumption DEF ChainTypeOK, Sound, Account, account
<1>1. CASE UNCHANGED chain_vars
  BY <1>1 DEF chain_vars
<1>2. CASE Chain!Tick
  BY <1>2 DEF Chain!Tick, Chain!vault_vars
<1>3. CASE Chain!Initialize
  BY <1>3 DEF Chain!Initialize, Chain!Thresholds
<1>4. CASE Chain!CheckIn
  BY <1>4 DEF Chain!CheckIn
<1>5. CASE Chain!ConfigureThreshold
  BY <1>5 DEF Chain!ConfigureThreshold, Chain!Thresholds
<1>6. CASE Chain!Trigger
  BY <1>6 DEF Chain!Trigger, Chain!Claimable
<1>7. CASE Chain!Close
  BY <1>7 DEF Chain!Close
<1> QED BY <1>1, <1>2, <1>3, <1>4, <1>5, <1>6, <1>7 DEF Chain!Next

(* Whoever acts, the vault takes a step of its own life or none. *)
LEMMA ChainMoves ==
    ASSUME [Next]_vars PROVE [Chain!Next]_chain_vars
BY DEF Next, vars, ChainStep, FlagAnomaly, StreamStep, StreamFails, CycleStep, CycleFails,
       Restart, Crash, Chain!Next

(* The handler of an account keeps the row's type. *)
LEMMA HandleType ==
    ASSUME TypeOK, CopiesSound, NEW a, Sound(a), handleAccountUpdate(a)
    PROVE  RowSound'
BY DEF RowSound, TypeOK, CopiesSound, Sound, handleAccountUpdate, upsertVault, deactivateVault

(* What follows is the row, the stream and the cycle, one lemma for each.  *)

LEMMA ChainStepType ==
    ASSUME TypeInv, ChainTypeOK', ChainStep
    PROVE  (TypeOK /\ CopiesSound)'
<1> USE DEF TypeInv, ChainTypeOK, TypeOK, CopiesSound
<1>1. activity' \in BOOLEAN
  BY DEF ChainStep, FlagAnomaly, NotifyActivity
<1>2. CASE UNCHANGED inbox
  BY <1>1, <1>2 DEF ChainStep, cycle_vars, Sound
<1>3. CASE stream = "live" /\ inbox' = Append(inbox, account')
  <2>1. inbox' \in Seq(Account)
    BY <1>3 DEF Sound
  <2>2. \A i \in DOMAIN inbox' : Sound(inbox'[i])
    BY <1>3 DEF Sound
  <2> QED BY <1>1, <1>3, <2>1, <2>2 DEF ChainStep, cycle_vars, Sound
<1> QED BY <1>2, <1>3 DEF ChainStep, FlagAnomaly, Notify

LEMMA StreamType ==
    ASSUME TypeInv, StreamStep \/ StreamFails
    PROVE  (TypeOK /\ CopiesSound)'
<1> USE DEF TypeInv, TypeOK, CopiesSound, RowSound, cycle_vars
<1>1. CASE StreamStep /\ StartGeyser
  BY <1>1 DEF StreamStep, StartGeyser, Sound
<1>2. CASE StreamStep /\ TakeSnapshot
  BY <1>2 DEF StreamStep, TakeSnapshot, ChainTypeOK, Sound
<1>3. CASE StreamStep /\ DeliverSnapshot
  <2>1. Sound(Head(inbox))
    BY <1>3 DEF DeliverSnapshot
  <2>2. CASE handleAccountUpdate(Head(inbox))
    BY <1>3, <2>1, <2>2, HandleType DEF StreamStep, DeliverSnapshot, Sound
  <2>3. CASE UNCHANGED row
    BY <1>3, <2>3 DEF StreamStep, DeliverSnapshot, Sound
  <2> QED BY <1>3, <2>2, <2>3 DEF DeliverSnapshot
<1>4. CASE StreamStep /\ Subscribe
  BY <1>4 DEF StreamStep, Subscribe, Sound
<1>5. CASE StreamStep /\ DeliverUpdate
  <2>1. Sound(Head(inbox))
    BY <1>5 DEF DeliverUpdate
  <2>2. inbox' \in Seq(Account) /\ \A i \in DOMAIN inbox' : Sound(inbox'[i])
    BY <1>5 DEF DeliverUpdate
  <2> QED BY <1>5, <2>1, <2>2, HandleType DEF StreamStep, DeliverUpdate, Sound
<1>6. CASE StreamStep /\ DeliverActivity
  <2>1. CASE row.account # NoAccount /\ row' = [row EXCEPT !.is_active = TRUE]
    BY <1>6, <2>1 DEF StreamStep, DeliverActivity, Sound
  <2>2. CASE UNCHANGED row
    BY <1>6, <2>2 DEF StreamStep, DeliverActivity, Sound
  <2> QED BY <1>6, <2>1, <2>2 DEF DeliverActivity, handleActivityUpdate
<1>7. CASE StreamFails
  <2>1. /\ stream' \in {"down", "subscribing"} /\ inbox' = <<>> /\ activity' = FALSE
        /\ faults' \in Nat
    BY <1>7, WatcherAssumption DEF StreamFails, Fault
  <2>2. UNCHANGED <<chain_vars, row, cycle_vars, crashes, signals>>
    BY <1>7 DEF StreamFails
  <2>3. inbox' \in Seq(Account) /\ \A i \in DOMAIN inbox' : Sound(inbox'[i])
    BY <2>1
  <2>4. (pc = "fetched" => Sound(record.account))' /\ RowSound'
    BY <2>2 DEF Sound
  <2> QED BY <2>1, <2>2, <2>3, <2>4
<1> QED BY <1>1, <1>2, <1>3, <1>4, <1>5, <1>6, <1>7 DEF StreamStep

LEMMA CycleType ==
    ASSUME TypeInv, CycleStep \/ CycleFails
    PROVE  (TypeOK /\ CopiesSound)'
<1> USE WatcherAssumption DEF TypeInv, TypeOK, CopiesSound, RowSound
<1>1. EndCycle => cycleSlot' \in Nat /\ record' \in [account : Account, sent : SUBSET Alerts]
                  /\ read_slot' \in Nat /\ pc' = "idle"
  BY DEF EndCycle, NoRecord, NoAccount, Account
<1>2. CASE CycleStep /\ StartCycle
  <2>1. cycleSlot' \in Nat
    BY <1>2 DEF StartCycle, ChainTypeOK
  <2> QED BY <1>2, <2>1 DEF CycleStep, StartCycle, Sound
<1>3. CASE CycleStep /\ FetchVault
  BY <1>3 DEF CycleStep, FetchVault, ChainTypeOK, Sound
<1>4. CASE CycleStep /\ Reconcile
  BY <1>4, ZenonT(60) DEF CycleStep, Reconcile, Gone, upsertVault, Alerts, Sound, Account
<1>5. CASE CycleStep /\ Deactivate
  BY <1>1, <1>5 DEF CycleStep, Deactivate, deactivateVault, Sound
<1>6. AfterStage => /\ cycleSlot' \in Nat /\ record' \in [account : Account, sent : SUBSET Alerts]
                    /\ read_slot' \in Nat /\ pc' \in {"idle", "beneficiary_warn", "trigger"}
  BY <1>1 DEF AfterStage
<1>7. CASE CycleStep /\ Alert
  <2>1. RowSound'
    BY <1>7 DEF Alert, Flag, Alerts
  <2>2. signals' \in Nat
    BY <1>7 DEF Alert, Emit
  <2> QED BY <1>6, <1>7, <2>1, <2>2 DEF CycleStep, Alert, Alerts, Sound
<1>8. CASE CycleStep /\ NoAlert
  BY <1>6, <1>8 DEF CycleStep, NoAlert, Alerts, Sound
<1>9. CASE CycleFails
  BY <1>9 DEF CycleFails, Fault, ReadFails, Alerts, Sound
<1> QED BY <1>2, <1>3, <1>4, <1>5, <1>7, <1>8, <1>9 DEF CycleStep

LEMMA RestartType ==
    ASSUME TypeInv, Restart
    PROVE  (TypeOK /\ CopiesSound)'
<1> USE WatcherAssumption DEF TypeInv, TypeOK, CopiesSound, RowSound
<1>1. NoRecord \in [account : Account, sent : SUBSET Alerts]
  BY DEF NoRecord, NoAccount, Account
<1>2. RowSound' /\ UNCHANGED signals
  <2>1. CASE Flag /\ UNCHANGED signals /\ pc = "trigger"
    BY <2>1 DEF Flag
  <2>2. CASE Flag /\ UNCHANGED signals /\ pc \in Alerts
    BY <2>2 DEF Flag, Alerts
  <2>3. CASE UNCHANGED <<row, signals>>
    BY <2>3
  <2>4. DieBeforeEmit => Flag /\ UNCHANGED signals /\ (pc = "trigger" \/ pc \in Alerts)
    BY DEF DieBeforeEmit
  <2>5. DieBeforeEmit \/ UNCHANGED <<row, signals>>
    BY DEF Restart
  <2> HIDE DEF TypeInv, TypeOK, CopiesSound, RowSound
  <2> QED BY <2>1, <2>2, <2>3, <2>4, <2>5
<1>3. /\ stream' = "boot" /\ inbox' = <<>> /\ activity' = FALSE
      /\ pc' = "idle" /\ cycleSlot' = 0 /\ record' = NoRecord /\ read_slot' = 0
      /\ crashes' \in Nat /\ faults' = faults
  BY DEF Restart, Crash, EndCycle
<1>4. inbox' \in Seq(Account) /\ \A i \in DOMAIN inbox' : Sound(inbox'[i])
  BY <1>3
<1> QED BY <1>1, <1>2, <1>3, <1>4

(* The types hold at the start and every step keeps them. *)
LEMMA TypeInductive == Spec => []TypeInv
<1>1. Init => TypeInv
  <2> SUFFICES ASSUME Init PROVE TypeInv
    OBVIOUS
  <2>1. ChainTypeOK
    BY DEF Init, Chain!Init, ChainTypeOK, Sound, Account, account
  <2>2. NoAccount \in Account
    BY DEF NoAccount, Account
  <2>3. /\ NoRow \in [ is_active : BOOLEAN, account : Account, sent : SUBSET Alerts,
                       trigger_signalled : BOOLEAN ]
        /\ ~NoRow.is_active
        /\ NoRecord \in [ account : Account, sent : SUBSET Alerts ]
    BY <2>2 DEF NoRow, NoRecord
  <2>4. TypeOK
    <3>1. /\ row = NoRow /\ record = NoRecord /\ inbox = <<>> /\ stream = "boot" /\ pc = "idle"
          /\ activity = FALSE /\ cycleSlot = 0 /\ read_slot = 0 /\ faults = 0 /\ crashes = 0
          /\ signals = 0
      BY DEF Init
    <3>2. inbox \in Seq(Account)
      BY <3>1
    <3> QED BY <2>3, <3>1, <3>2 DEF TypeOK
  <2>5. CopiesSound
    BY DEF Init, CopiesSound, NoRow
  <2> QED BY <2>1, <2>4, <2>5 DEF TypeInv
<1>2. TypeInv /\ [Next]_vars => TypeInv'
  <2> SUFFICES ASSUME TypeInv, [Next]_vars PROVE TypeInv'
    OBVIOUS
  <2>1. ChainTypeOK'
    BY ChainMoves, ChainType DEF TypeInv
  <2>2. CASE UNCHANGED vars
    BY <2>1, <2>2 DEF vars, cycle_vars, TypeInv, TypeOK, CopiesSound, Sound
  <2>3. CASE Next
    BY <2>1, <2>3, ChainStepType, StreamType, CycleType, RestartType DEF Next, TypeInv
  <2> QED BY <2>2, <2>3
<1> QED BY <1>1, <1>2, PTL DEF Spec

(***************************************************************************)
(* The row, the stream, the cycle and the record it works on keep their    *)
(* types, and a vault on the watch list has a threshold other than 0.      *)
(***************************************************************************)
THEOREM WatcherTypeCorrect == Spec => []TypeOK
BY TypeInductive, PTL DEF TypeInv

-----------------------------------------------------------------------------
(* Signals.  Every signal leaves its flag in the row, and no step clears   *)
(* the flag; a signal is emitted only where it was not set.                *)

FlagRemembers ==
    /\ signals = 0 \/ row.trigger_signalled
    /\ signals <= 1

(* The handlers of the stream leave the flag alone. *)
LEMMA HandleKeepsFlag ==
    ASSUME TypeOK, NEW a, handleAccountUpdate(a)
    PROVE  row'.trigger_signalled = row.trigger_signalled
BY DEF TypeOK, handleAccountUpdate, upsertVault, deactivateVault

(* A step that emits nothing and does not clear the flag. *)
LEMMA NothingEmitted ==
    ASSUME TypeOK, FlagRemembers, UNCHANGED signals,
           row.trigger_signalled => row'.trigger_signalled
    PROVE  FlagRemembers'
BY DEF FlagRemembers

(* Each step of the cycle. *)
LEMMA CycleRemembers ==
    ASSUME TypeOK, FlagRemembers, CycleStep
    PROVE  FlagRemembers'
<1>1. CASE StartCycle \/ FetchVault \/ NoAlert
  BY <1>1, NothingEmitted DEF StartCycle, FetchVault, NoAlert
<1>2. CASE Reconcile \/ Deactivate
  <2>1. UNCHANGED signals
    BY <1>2 DEF Reconcile, Deactivate
  <2>2. row'.trigger_signalled = row.trigger_signalled
    BY <1>2 DEF Reconcile, Deactivate, upsertVault, deactivateVault, TypeOK
  <2> QED BY <2>1, <2>2, NothingEmitted
<1>3. CASE Alert /\ pc = "trigger"
  <2>1. ~row.trigger_signalled /\ signals' = signals + 1
    BY <1>3 DEF Alert, Due, Emit
  <2>2. row'.trigger_signalled
    BY <1>3 DEF Alert, Flag, TypeOK
  <2> QED BY <2>1, <2>2 DEF FlagRemembers, TypeOK
<1>4. CASE Alert /\ pc # "trigger"
  <2>1. UNCHANGED signals
    BY <1>4 DEF Alert, Emit
  <2>2. row'.trigger_signalled = row.trigger_signalled
    BY <1>4 DEF Alert, Flag, TypeOK
  <2> QED BY <2>1, <2>2, NothingEmitted
<1> QED BY <1>1, <1>2, <1>3, <1>4 DEF CycleStep

(* A restart may set the flag, never clear it. *)
LEMMA RestartRemembers ==
    ASSUME TypeOK, FlagRemembers, Restart
    PROVE  FlagRemembers'
<1>1. UNCHANGED signals
  BY DEF Restart, DieBeforeEmit
<1>2. CASE Flag
  BY <1>1, <1>2, NothingEmitted DEF Flag, TypeOK
<1>3. CASE UNCHANGED row
  BY <1>1, <1>3, NothingEmitted
<1> QED BY <1>2, <1>3 DEF Restart, DieBeforeEmit

(***************************************************************************)
(* Whatever crashes and whenever, the relayer is signalled at most once    *)
(* for a row.                                                              *)
(***************************************************************************)
THEOREM SignalledOnceCorrect == Spec => []SignalledOnce
<1>1. Init => FlagRemembers
  BY DEF Init, FlagRemembers
<1>2. TypeOK /\ FlagRemembers /\ [Next]_vars => FlagRemembers'
  <2> SUFFICES ASSUME TypeOK, FlagRemembers, [Next]_vars PROVE FlagRemembers'
    OBVIOUS
  <2>1. CASE UNCHANGED vars \/ ChainStep \/ StreamFails
    BY <2>1, NothingEmitted DEF vars, ChainStep, StreamFails
  <2>2. CASE StreamStep
    <3>1. UNCHANGED signals
      BY <2>2 DEF StreamStep
    <3>2. row'.trigger_signalled = row.trigger_signalled
      BY <2>2, HandleKeepsFlag
         DEF StreamStep, StartGeyser, TakeSnapshot, DeliverSnapshot, Subscribe, DeliverUpdate,
             DeliverActivity, handleActivityUpdate, TypeOK
    <3> QED BY <3>1, <3>2, NothingEmitted
  <2>3. CASE CycleStep
    BY <2>3, CycleRemembers
  <2>4. CASE Restart
    BY <2>4, RestartRemembers
  <2>5. CASE CycleFails
    BY <2>5, NothingEmitted DEF CycleFails
  <2> QED BY <2>1, <2>2, <2>3, <2>4, <2>5 DEF Next
<1>3. FlagRemembers => SignalledOnce
  BY DEF FlagRemembers, SignalledOnce
<1> QED BY <1>1, <1>2, <1>3, WatcherTypeCorrect, PTL DEF Spec

-----------------------------------------------------------------------------
(* Scores.  The cycle's slot is at most the lead ahead of the slot of its  *)
(* read, and a longer silence never has a lower score.                     *)

SlotBeforeRead ==
    /\ pc = "fetch" => cycleSlot <= slot + SlotLead
    /\ read_slot # 0 => cycleSlot <= read_slot + SlotLead
    /\ pc \in {"idle", "fetch"} => read_slot = 0

(* Truncating division is monotonic. *)
LEMMA DivMonotonic ==
    ASSUME NEW x \in Nat, NEW y \in Nat, NEW t \in Nat \ {0}, x <= y
    PROVE  x \div t <= y \div t
OBVIOUS

(* A later slot does not lower the score. *)
LEMMA ScoreMonotonic ==
    ASSUME NEW a \in Account, NEW s \in Nat, NEW u \in Nat, s <= u
    PROVE  computeInactivityScore(s, a) <= computeInactivityScore(u, a)
<1> DEFINE l == a.last_check_in_slot
           t == a.inactivity_threshold_slots
<1>1. l \in Nat /\ t \in Nat
  BY DEF Account
<1>2. CASE s <= l \/ t = 0
  <2>1. computeInactivityScore(s, a) = 0
    BY <1>2 DEF computeInactivityScore
  <2>2. CASE u <= l \/ t = 0
    BY <2>1, <2>2 DEF computeInactivityScore
  <2>3. CASE ~(u <= l \/ t = 0)
    <3>1. computeInactivityScore(u, a) = ((u - l) * 100) \div t
      BY <2>3 DEF computeInactivityScore
    <3>2. (u - l) * 100 \in Nat /\ t \in Nat \ {0}
      BY <1>1, <2>3
    <3>3. 0 \div t <= ((u - l) * 100) \div t
      BY <3>2, DivMonotonic
    <3>4. 0 \div t = 0
      BY <3>2
    <3> QED BY <2>1, <3>1, <3>3, <3>4
  <2> QED BY <2>2, <2>3
<1>3. CASE ~(s <= l \/ t = 0)
  <2>1. /\ (s - l) * 100 \in Nat /\ (u - l) * 100 \in Nat /\ t \in Nat \ {0}
        /\ (s - l) * 100 <= (u - l) * 100
    BY <1>1, <1>3
  <2>2. ((s - l) * 100) \div t <= ((u - l) * 100) \div t
    BY <2>1, DivMonotonic
  <2>3. ~(u <= l \/ t = 0)
    BY <1>1, <1>3
  <2>4. /\ computeInactivityScore(s, a) = ((s - l) * 100) \div t
        /\ computeInactivityScore(u, a) = ((u - l) * 100) \div t
    BY <1>3, <2>3 DEF computeInactivityScore
  <2> QED BY <2>2, <2>4
<1> QED BY <1>2, <1>3

(* The clock never goes back. *)
LEMMA ClockForward ==
    ASSUME ChainTypeOK, [Next]_vars PROVE slot <= slot'
<1>1. [Chain!Next]_chain_vars
  BY ChainMoves
<1> QED BY <1>1 DEF ChainTypeOK, chain_vars, Chain!Next, Chain!Tick, Chain!Initialize, Chain!CheckIn,
          Chain!ConfigureThreshold, Chain!Trigger, Chain!Close

LEMMA SlotBeforeReadInductive == Spec => []SlotBeforeRead
<1>1. Init => SlotBeforeRead
  BY DEF Init, SlotBeforeRead
<1>2. TypeInv /\ SlotBeforeRead /\ [Next]_vars => SlotBeforeRead'
  <2> SUFFICES ASSUME TypeInv, SlotBeforeRead, [Next]_vars PROVE SlotBeforeRead'
    OBVIOUS
  <2> USE WatcherAssumption DEF TypeInv, ChainTypeOK, TypeOK, SlotBeforeRead
  <2>1. slot <= slot' /\ slot' \in Nat
    BY ClockForward, ChainMoves, ChainType
  <2>2. CASE UNCHANGED cycle_vars
    BY <2>1, <2>2 DEF cycle_vars
  <2>3. CASE StartCycle
    BY <2>1, <2>3 DEF StartCycle
  <2>4. CASE FetchVault
    BY <2>1, <2>4 DEF FetchVault
  <2>5. CASE Reconcile
    BY <2>1, <2>5 DEF Reconcile
  <2>6. CASE EndCycle
    BY <2>1, <2>6 DEF EndCycle
  <2>7. CASE (Alert \/ NoAlert) /\ ~EndCycle
    BY <2>1, <2>7 DEF Alert, NoAlert, AfterStage
  <2>8. CASE ReadFails
    BY <2>1, <2>8 DEF ReadFails
  <2> QED BY <2>2, <2>3, <2>4, <2>5, <2>6, <2>7, <2>8
         DEF Next, vars, ChainStep, StreamStep, StreamFails, CycleStep, CycleFails, Deactivate,
             Restart, Crash
<1> QED BY <1>1, <1>2, TypeInductive, PTL DEF Spec

(***************************************************************************)
(* An alert of a cycle that did read the vault is justified by the chain   *)
(* at the moment of that read, but for the lead of the slot notifications. *)
(***************************************************************************)
THEOREM GroundedCorrect == Spec => []AlertsAreGrounded
<1>1. TypeInv /\ SlotBeforeRead => AlertsAreGrounded
  <2> SUFFICES ASSUME TypeInv, SlotBeforeRead, read_slot # 0,
                      pc \in Alerts \cup {"trigger"}, Due(pc)
               PROVE  computeInactivityScore(read_slot + SlotLead, record.account) >= Pct(pc)
    BY DEF AlertsAreGrounded
  <2>1. computeInactivityScore(cycleSlot, record.account) >= Pct(pc)
    BY DEF Due, score
  <2>2. /\ cycleSlot \in Nat /\ read_slot + SlotLead \in Nat
        /\ cycleSlot <= read_slot + SlotLead
        /\ record.account \in Account
    BY WatcherAssumption DEF TypeInv, TypeOK, SlotBeforeRead
  <2>3. computeInactivityScore(cycleSlot, record.account)
            <= computeInactivityScore(read_slot + SlotLead, record.account)
    BY <2>2, ScoreMonotonic
  <2>4. Pct(pc) \in Int
    BY WatcherAssumption DEF Pct, Alerts
  <2>5. \A s \in Nat : computeInactivityScore(s, record.account) \in Int
    BY <2>2 DEF computeInactivityScore, Account
  <2> QED BY <2>1, <2>2, <2>3, <2>4, <2>5
<1> QED BY <1>1, TypeInductive, SlotBeforeReadInductive, PTL
=============================================================================
