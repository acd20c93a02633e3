------------------------------- MODULE Watcher -------------------------------
(***************************************************************************)
(* The watcher service and one vault: the row it keeps in SQLite, the      *)
(* account stream that tells it of changes, and the poll cycle that reads  *)
(* the vault, classifies its silence, and pings guardians, warns the       *)
(* beneficiary and signals the relayer.  The vault is the one              *)
(* VaultLifecycle describes.                                               *)
(*                                                                         *)
(* Node.js runs one callback at a time: an action is what happens between  *)
(* two awaits.  The stream's callbacks and the poll cycle interleave; the  *)
(* cycle is never entered twice (isPolling), so it has one pc.  The row    *)
(* survives a restart, everything else does not.                           *)
(*                                                                         *)
(* The heartbeat's pacing is left out: a cycle may start whenever a slot   *)
(* notification arrives, that is, while the stream is live.  So is the     *)
(* anomaly stage, which is time passing before the pings.                  *)
(***************************************************************************)
EXTENDS Integers, Sequences

CONSTANTS
    MIN_INACTIVITY_THRESHOLD_SLOTS,
    MAX_INACTIVITY_THRESHOLD_SLOTS,
    MaxSlot, MaxInits,      \* bounds of VaultLifecycle
    WARNING_SLOT_PCT_75,    \* score from which guardians are pinged
    WARNING_SLOT_PCT_90,    \* score from which the beneficiary is warned
    SlotLead,               \* how far slot notifications run ahead of the accounts
    MaxInbox,               \* bound on the updates under way on the stream
    MaxFaults,              \* bound on failing calls and broken streams
    MaxCrashes              \* bound on restarts

ASSUME WatcherAssumption ==
    /\ MIN_INACTIVITY_THRESHOLD_SLOTS \in Nat \ {0}
    /\ MAX_INACTIVITY_THRESHOLD_SLOTS \in Nat
    /\ {WARNING_SLOT_PCT_75, WARNING_SLOT_PCT_90} \subseteq 1..100
    /\ {SlotLead, MaxSlot, MaxInits, MaxInbox, MaxFaults, MaxCrashes} \subseteq Nat

VARIABLES               \* the chain
    slot, status, last_check_in_slot, inactivity_threshold_slots, inits

VARIABLES
    row,                \* the vault's row of the vaults table
    stream,             \* where the Geyser client is
    inbox,              \* what it has asked for or is being sent
    activity,           \* an update of the vault's activity account is under way
    pc,                 \* where the poll cycle is
    cycleSlot,          \* slotForCycle
    record,             \* the vault as the cycle knows it
    faults, crashes     \* how many there have been

VARIABLES               \* history, read by the properties only
    read_slot,          \* slot at which the cycle read the vault, 0 if it did not
    signals             \* trigger signals emitted for this row

Chain == INSTANCE VaultLifecycle

chain_vars   == <<slot, status, last_check_in_slot, inactivity_threshold_slots, inits>>
cycle_vars   == <<pc, cycleSlot, record, read_slot>>
vars == <<chain_vars, row, stream, inbox, activity, cycle_vars, faults, crashes, signals>>

Alerts == {"guardian_ping", "beneficiary_warn"}

Account ==
    [ status : {"absent", "open", "triggered"},
      last_check_in_slot : Nat,
      inactivity_threshold_slots : Nat ]

\* The account as it is now.  Its warning flags are FALSE, as always.
account == [ status |-> status,
             last_check_in_slot |-> last_check_in_slot,
             inactivity_threshold_slots |-> inactivity_threshold_slots ]

NoAccount == [ status |-> "absent", last_check_in_slot |-> 0,
               inactivity_threshold_slots |-> 0 ]

NoRow == [ is_active |-> FALSE, account |-> NoAccount, sent |-> {},
           trigger_signalled |-> FALSE ]

NoRecord == [ account |-> NoAccount, sent |-> {} ]

TypeOK ==
    /\ row \in [ is_active : BOOLEAN, account : Account, sent : SUBSET Alerts,
                 trigger_signalled : BOOLEAN ]
    /\ row.is_active => row.account.inactivity_threshold_slots # 0
    /\ stream \in {"boot", "booted", "down", "snapshot", "subscribing", "live"}
    /\ inbox \in Seq(Account)
    /\ activity \in BOOLEAN
    /\ pc \in {"idle", "fetch", "fetched", "gone", "trigger"} \cup Alerts
    /\ cycleSlot \in Nat
    /\ record \in [ account : Account, sent : SUBSET Alerts ]
    /\ faults \in Nat /\ crashes \in Nat
    /\ read_slot \in Nat
    /\ signals \in Nat

Init ==
    /\ Chain!Init
    /\ row = NoRow
    /\ stream = "boot"
    /\ inbox = <<>> /\ activity = FALSE
    /\ pc = "idle" /\ cycleSlot = 0 /\ record = NoRecord /\ read_slot = 0
    /\ faults = 0 /\ crashes = 0
    /\ signals = 0

Fault == faults < MaxFaults /\ faults' = faults + 1

-----------------------------------------------------------------------------
(* The chain, and what the subscription makes of its changes *)

Notify ==
    \/ /\ stream = "live"
       /\ Len(inbox) < MaxInbox
       /\ inbox' = Append(inbox, account')
    \/ /\ stream # "live"
       /\ UNCHANGED inbox

\* The activity account has updates of its own, which may overtake those of the
\* vault's account and each other.
NotifyActivity == activity' = (stream = "live" \/ activity)

\* anomaly_flag: an account of an open vault changes that is not the vault's.
FlagAnomaly ==
    /\ status = "open"
    /\ stream = "live" /\ ~activity
    /\ NotifyActivity
    /\ UNCHANGED <<chain_vars, inbox>>

ChainStep ==
    /\ \/ /\ Chain!Tick
          /\ UNCHANGED <<inbox, activity>>
       \/ /\ Chain!Initialize \/ Chain!CheckIn
          /\ Notify /\ NotifyActivity
       \/ /\ Chain!ConfigureThreshold \/ Chain!Trigger \/ Chain!Close
          /\ Notify /\ UNCHANGED activity
       \/ FlagAnomaly
    /\ UNCHANGED <<row, stream, cycle_vars, faults, crashes, signals>>

-----------------------------------------------------------------------------
(* The row *)

\* The upsert: trigger_signalled is not among the columns it updates, the
\* warning flags are, with the values of the account.
upsertVault(a) ==
    row' = [row EXCEPT !.is_active = TRUE, !.account = a, !.sent = {}]

deactivateVault == row' = [row EXCEPT !.is_active = FALSE]

\* Slip: closed accounts are upserted like any other.
handleAnyUpdate(a) == upsertVault(a)

\* handleAccountUpdate and handleAccountClosed.  A triggered account is upserted
\* like an open one.
handleAccountUpdate(a) ==
    \/ a.status # "absent" /\ upsertVault(a)
    \/ a.status = "absent" /\ deactivateVault

\* Its branch for the activity account: the row as it is stored is written back,
\* and every upsert puts the vault on the list.  An unknown vault is left alone.
handleActivityUpdate ==
    \/ /\ row.account # NoAccount
       /\ row' = [row EXCEPT !.is_active = TRUE]
    \/ /\ row.account = NoAccount
       /\ UNCHANGED row

-----------------------------------------------------------------------------
(* The Geyser client *)

\* main: the stream is started after one poll cycle.
StartGeyser ==
    /\ pc = "idle"
    /\ stream = "booted" \/ (stream = "boot" /\ ~row.is_active)
    /\ stream' = "down"
    /\ UNCHANGED <<row, inbox, activity>>

TakeSnapshot ==
    /\ stream = "down"
    /\ stream' = "snapshot"
    /\ inbox' = <<account>>
    /\ UNCHANGED <<row, activity>>

\* The vault is in the snapshot, or it is missing from one that shows other
\* accounts, or the snapshot shows no account at all.
DeliverSnapshot ==
    /\ stream = "snapshot"
    /\ stream' = "subscribing"
    /\ inbox' = <<>>
    /\ \/ handleAccountUpdate(Head(inbox))
       \/ Head(inbox).status = "absent" /\ UNCHANGED row
    /\ UNCHANGED activity

Subscribe ==
    /\ stream = "subscribing"
    /\ stream' = "live"
    /\ UNCHANGED <<row, inbox, activity>>

DeliverUpdate ==
    /\ stream = "live"
    /\ inbox # <<>>
    /\ handleAccountUpdate(Head(inbox))
    /\ inbox' = Tail(inbox)
    /\ UNCHANGED <<stream, activity>>

DeliverActivity ==
    /\ stream = "live"
    /\ activity
    /\ handleActivityUpdate
    /\ activity' = FALSE
    /\ UNCHANGED <<stream, inbox>>

StreamStep ==
    /\ StartGeyser \/ TakeSnapshot \/ DeliverSnapshot \/ Subscribe \/ DeliverUpdate
       \/ DeliverActivity
    /\ UNCHANGED <<chain_vars, cycle_vars, faults, crashes, signals>>

\* The first slot cannot be read, a snapshot fails (it changes nothing), or a
\* stream ends (what was under way on it is lost).
StreamFails ==
    /\ Fault
    /\ \/ stream = "boot" /\ pc = "idle" /\ stream' = "down"
       \/ stream = "snapshot" /\ stream' = "subscribing"
       \/ stream \in {"subscribing", "live"} /\ stream' = "down"
    /\ inbox' = <<>> /\ activity' = FALSE
    /\ UNCHANGED <<chain_vars, row, cycle_vars, crashes, signals>>

-----------------------------------------------------------------------------
(* The poll cycle *)

EndCycle ==
    /\ pc' = "idle" /\ cycleSlot' = 0 /\ record' = NoRecord /\ read_slot' = 0

\* runPollCycle: the slot is fixed before the vault is read.  It is the newest
\* of the stream, whose slot notifications are not filtered by commitment, while
\* accounts are read and sent when confirmed; slot is the confirmed one.
StartCycle ==
    /\ pc = "idle"
    /\ row.is_active
    /\ \/ stream = "boot" /\ stream' = "booted"
       \/ stream = "live" /\ UNCHANGED stream
    /\ pc' = "fetch"
    /\ cycleSlot' \in slot..(slot + SlotLead)
    /\ record' = [account |-> row.account, sent |-> row.sent]
    /\ UNCHANGED <<row, read_slot, signals>>

FetchVault ==
    /\ pc = "fetch"
    /\ pc' = "fetched"
    /\ record' = [account |-> account, sent |-> {}]
    /\ read_slot' = slot
    /\ UNCHANGED <<row, stream, cycleSlot, signals>>

\* Slip: isTriggered is not looked at.
GoneWhenClosed(a) == a.status = "absent"

Gone(a) == a.status \in {"absent", "triggered"}

\* reconcileVault, with the answers of its two reads.
Reconcile ==
    /\ pc = "fetched"
    /\ \/ /\ ~Gone(record.account)
          /\ upsertVault(record.account)
          /\ pc' = "guardian_ping"
       \/ /\ Gone(record.account)
          /\ pc' = "gone"
          /\ UNCHANGED row
    /\ UNCHANGED <<stream, cycleSlot, record, read_slot, signals>>

\* reconcileAllVaults, after the whole batch was awaited.
Deactivate ==
    /\ pc = "gone"
    /\ deactivateVault
    /\ EndCycle
    /\ UNCHANGED <<stream, signals>>

computeInactivityScore(currentSlot, a) ==
    IF currentSlot <= a.last_check_in_slot \/ a.inactivity_threshold_slots = 0 THEN 0
    ELSE ((currentSlot - a.last_check_in_slot) * 100) \div a.inactivity_threshold_slots

\* Slip: the slot of now, with the vault as it was read.
score_now == computeInactivityScore(slot, record.account)

score == computeInactivityScore(cycleSlot, record.account)

Pct(stage) ==
    CASE stage = "guardian_ping"    -> WARNING_SLOT_PCT_75
      [] stage = "beneficiary_warn" -> WARNING_SLOT_PCT_90
      [] stage = "trigger"          -> 100

\* What evaluateAndPing, evaluateAndWarn and evaluateAndSignal decide.
Due(stage) ==
    /\ score >= Pct(stage)
    /\ IF stage = "trigger" THEN ~row.trigger_signalled ELSE stage \notin record.sent

AfterStage ==
    \/ pc = "guardian_ping" /\ pc' = "beneficiary_warn"
       /\ UNCHANGED <<cycleSlot, record, read_slot>>
    \/ pc = "beneficiary_warn" /\ pc' = "trigger"
       /\ UNCHANGED <<cycleSlot, record, read_slot>>
    \/ pc = "trigger" /\ EndCycle

\* The flag is written first, the event emitted in the same turn.  The flag of a
\* ping is also written when the event names nobody, the guardians' addresses
\* having failed to come.
Flag ==
    row' = IF pc = "trigger" THEN [row EXCEPT !.trigger_signalled = TRUE]
                             ELSE [row EXCEPT !.sent = @ \cup {pc}]

Emit == signals' = IF pc = "trigger" THEN signals + 1 ELSE signals

Alert ==
    /\ pc \in Alerts \cup {"trigger"}
    /\ Due(pc)
    /\ Flag
    /\ Emit
    /\ AfterStage
    /\ UNCHANGED stream

NoAlert ==
    /\ pc \in Alerts \cup {"trigger"}
    /\ ~Due(pc)
    /\ AfterStage
    /\ UNCHANGED <<row, stream, signals>>

CycleStep ==
    /\ StartCycle \/ FetchVault \/ Reconcile \/ Deactivate \/ Alert \/ NoAlert
    /\ UNCHANGED <<chain_vars, inbox, activity, faults, crashes>>

\* Slip: the error leaves isPolling set.
ReadFailsForGood ==
    /\ pc = "fetch"
    /\ pc' = "stuck"
    /\ UNCHANGED <<cycleSlot, record, read_slot>>

\* A rejected reconciliation keeps the record of the row in the cycle.
ReadFails ==
    /\ pc = "fetch"
    /\ pc' = "guardian_ping"
    /\ UNCHANGED <<cycleSlot, record, read_slot>>

CycleFails ==
    /\ Fault
    /\ ReadFails
    /\ UNCHANGED <<chain_vars, row, stream, inbox, activity, crashes, signals>>

-----------------------------------------------------------------------------
(* Restarts *)

Crash ==
    /\ crashes < MaxCrashes
    /\ crashes' = crashes + 1
    /\ stream' = "boot"
    /\ inbox' = <<>> /\ activity' = FALSE
    /\ EndCycle
    /\ UNCHANGED <<chain_vars, faults>>

\* Slip: the event is emitted first.
DieBeforeFlag ==
    /\ pc \in Alerts \cup {"trigger"}
    /\ Due(pc)
    /\ Emit
    /\ UNCHANGED row

\* The process may die between the flag and the event.
DieBeforeEmit ==
    /\ pc \in Alerts \cup {"trigger"}
    /\ Due(pc)
    /\ Flag
    /\ UNCHANGED signals

Restart ==
    /\ Crash
    /\ DieBeforeEmit \/ UNCHANGED <<row, signals>>

-----------------------------------------------------------------------------
Next == ChainStep \/ StreamStep \/ StreamFails \/ CycleStep \/ CycleFails \/ Restart

Spec == Init /\ [][Next]_vars

(***************************************************************************)
(* The reconnect loop, the heartbeat that slot notifications drive, and    *)
(* the promises the cycle awaits run by themselves.  Nothing is assumed of *)
(* the vault's users, of faults or of restarts.                            *)
(***************************************************************************)
Fairness == WF_vars(StreamStep) /\ WF_vars(CycleStep)

FairSpec == Spec /\ Fairness

-----------------------------------------------------------------------------
(* Properties *)

(***************************************************************************)
(* Whatever crashes and whenever, the relayer is signalled at most once    *)
(* for a row ("Write the DB flag BEFORE emitting", trigger_signal.ts:299). *)
(***************************************************************************)
SignalledOnce == signals <= 1

(***************************************************************************)
(* An alert of a cycle that did read the vault is justified by the chain   *)
(* at the moment of that read, but for the lead of the slot notifications: *)
(* the slot fixed before the read cannot make the silence look longer, and *)
(* neither can what happens during the awaits after it.                    *)
(***************************************************************************)
AlertsAreGrounded ==
    read_slot # 0 /\ pc \in Alerts \cup {"trigger"} /\ Due(pc)
        => computeInactivityScore(read_slot + SlotLead, record.account) >= Pct(pc)

(***************************************************************************)
(* A vault that is triggered or closed for good leaves the watch list for  *)
(* good, although a snapshot or a late update of the stream may put it     *)
(* back meanwhile.                                                         *)
(***************************************************************************)
GoneIsForgotten == <>[](status # "open") => <>[]~row.is_active

(***************************************************************************)
(* A vault on the watch list that stays claimable has the flag of a signal *)
(* in the end, whatever fails or restarts on the way, unless it drops from *)
(* the list.  The flag may be that of an earlier silence: nothing ever     *)
(* resets it (Relayer.tla has what follows from that).                     *)
(***************************************************************************)
DueVaultSignalled ==
    (Chain!Claimable /\ row.is_active)
        ~> (row.trigger_signalled \/ ~Chain!Claimable \/ ~row.is_active)
=============================================================================
