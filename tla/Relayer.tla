------------------------------- MODULE Relayer -------------------------------
(***************************************************************************)
(* The relayer service: it hears from the watcher that a vault is past its *)
(* threshold, checks the chain, and submits trigger_inheritance with       *)
(* retries.  The vault it works for is the one VaultLifecycle describes,   *)
(* and everybody else keeps using that vault meanwhile.                    *)
(*                                                                         *)
(* Node.js runs one callback at a time, so an action is what happens       *)
(* between two awaits.  A handler is one call of handleTriggerSignal; its  *)
(* pc names the await it is suspended at.  The relayer's memory (the job   *)
(* map, the handlers, a poll under way) does not survive a restart; the    *)
(* watcher's row is in SQLite and does.                                    *)
(*                                                                         *)
(* Of the watcher this module knows two columns of the row and how far its *)
(* poll cycle is with the vault.  When the row is on the list of active    *)
(* vaults, and when a late deactivation or a gap in the stream keeps it    *)
(* off, is the subject of Watcher.tla; here it may change at any time.     *)
(***************************************************************************)
EXTENDS Integers, FiniteSets

CONSTANTS
    MIN_INACTIVITY_THRESHOLD_SLOTS,
    MAX_INACTIVITY_THRESHOLD_SLOTS,
    MaxSlot, MaxInits,  \* bounds of VaultLifecycle
    Modes,              \* the values of RELAYER_MODE considered
    Signatures,         \* what the watcher's signature may turn out to be
    Handlers,           \* calls of handleTriggerSignal that may be active at once
    MAX_ATTEMPTS,       \* TriggerReadyEvent.maxRetries
    MaxFaults,          \* bound on the RPC calls that fail
    MaxCrashes          \* bound on the restarts of the relayer

ASSUME RelayerAssumption ==
    /\ MIN_INACTIVITY_THRESHOLD_SLOTS \in Nat \ {0}
    /\ MAX_INACTIVITY_THRESHOLD_SLOTS \in Nat
    /\ Modes \subseteq {"same-process", "separate-process"}
    /\ Signatures \subseteq {"unchecked", "valid", "invalid"}
    /\ IsFiniteSet(Handlers)
    /\ MAX_ATTEMPTS \in Nat \ {0}
    /\ {MaxSlot, MaxInits, MaxFaults, MaxCrashes} \subseteq Nat

VARIABLES               \* the chain
    slot, status, last_check_in_slot, inactivity_threshold_slots, inits

VARIABLES
    mode,               \* RELAYER_MODE
    is_active,          \* the watcher's row is on its list
    trigger_signalled,  \* the watcher's row says that it has signalled
    cycle,              \* how far the watcher's poll cycle is with the vault
    answered,           \* an answer of the watcher that names the vault is under way
    job,                \* the vault's entry of the job map
    handlers,           \* the calls of handleTriggerSignal
    stray,              \* transactions sent that nobody waits for any more
    faults, crashes,    \* how many there have been
    triggered_once      \* history: some vault at the address was triggered

Chain == INSTANCE VaultLifecycle

chain_vars   == <<slot, status, last_check_in_slot, inactivity_threshold_slots, inits>>
watcher_vars == <<is_active, trigger_signalled, cycle>>
relayer_vars == <<mode, answered, job, handlers, stray, faults, crashes>>
vars         == <<chain_vars, watcher_vars, relayer_vars, triggered_once>>

PreflightStatus ==
    {"ReadyToTrigger", "OwnerCheckedIn", "AlreadyTriggered", "VaultGone", "RpcError"}
Errors ==
    {"network", "AccountNotInitialized", "VaultAlreadyTriggered", "ThresholdNotReached"}

NoJob == [status |-> "none", preflight |-> "none"]
Idle  == [pc |-> "idle", currentSlot |-> 0, attempt |-> 0, error |-> "none"]

Job ==
    [ status : {"none", "Broadcasting", "Confirmed", "Skipped", "Failed",
                "SignatureRejected"},
      preflight : PreflightStatus \cup {"none"} ]

\* "slot" and "account" are the two reads of the pre-flight; "submit" has the
\* transaction still to send, "sent" waits for it and "landed" for the news.
Handler ==
    [ pc : {"idle", "slot", "account", "submit", "sent", "landed", "backoff"},
      currentSlot : Nat,
      attempt : 0..MAX_ATTEMPTS,
      error : Errors \cup {"none"} ]

RelayerTypeOK ==
    /\ mode \in Modes
    /\ {is_active, trigger_signalled, answered} \subseteq BOOLEAN
    /\ cycle \in {"idle", "listed", "due", "red"}
    /\ job \in Job
    /\ handlers \in [Handlers -> Handler]
    /\ stray \in Nat /\ faults \in Nat /\ crashes \in Nat
    /\ triggered_once \in BOOLEAN

Init ==
    /\ Chain!Init
    /\ mode \in Modes
    /\ is_active = FALSE /\ trigger_signalled = FALSE /\ answered = FALSE
    /\ cycle = "idle"
    /\ job = NoJob
    /\ handlers = [h \in Handlers |-> Idle]
    /\ stray = 0 /\ faults = 0 /\ crashes = 0
    /\ triggered_once = FALSE

-----------------------------------------------------------------------------
(* Everybody else: the clock, the owner, the council, and anyone who calls *)
(* trigger_inheritance before the relayer does.                            *)

\* The vault a cycle took for "due" has been claimable ever since.
CycleKeepsUp ==
    cycle' = IF cycle = "due" /\ ~Chain!Claimable' THEN "listed" ELSE cycle

TriggerLands ==
    /\ Chain!Trigger
    /\ triggered_once' = TRUE
    /\ CycleKeepsUp
    /\ UNCHANGED <<is_active, trigger_signalled>>

OthersStep ==
    /\ UNCHANGED relayer_vars
    /\ \/ /\ \/ Chain!Tick \/ Chain!Initialize \/ Chain!CheckIn
             \/ Chain!ConfigureThreshold \/ Chain!Close
          /\ CycleKeepsUp
          /\ UNCHANGED <<is_active, trigger_signalled, triggered_once>>
       \/ TriggerLands

-----------------------------------------------------------------------------
(* A signal arrives *)

\* Slip: only a confirmed job is recognised as a duplicate.
AcceptsWhileBroadcasting == job.status # "Confirmed"

\* Slip: any earlier job is taken for a duplicate.
AcceptsOnce == job.status = "none"

\* handleTriggerSignal's test; pollWatcher's test before it asks the same.
Accepts == job.status \notin {"Confirmed", "Broadcasting"}

\* A signature is refused only when both sides are configured for one; an
\* unsigned event, and a relayer without a trusted key, skip the check.
verifyEventSignature(signature) == signature # "invalid"

\* handleTriggerSignal up to its first await: the job is entered in the map and
\* the signature verified in the same turn.
HandleTriggerSignal(h, signature) ==
    /\ handlers[h].pc = "idle"
    /\ IF verifyEventSignature(signature)
       THEN /\ job' = [status |-> "Broadcasting", preflight |-> "none"]
            /\ handlers' = [handlers EXCEPT ![h] = [Idle EXCEPT !.pc = "slot"]]
       ELSE /\ job' = [status |-> "SignatureRejected", preflight |-> "none"]
            /\ UNCHANGED handlers

\* Stream, snapshot and reconciliation put the row on the list and take it off.
UpdateRow ==
    /\ is_active' = ~is_active
    /\ UNCHANGED <<chain_vars, relayer_vars, trigger_signalled, cycle, triggered_once>>

\* A poll cycle fixes its slot and lists the active vaults; one that is signalled
\* already is of no interest to it here.
ListVaults ==
    /\ cycle = "idle"
    /\ is_active /\ ~trigger_signalled
    /\ cycle' = IF Chain!Claimable THEN "due" ELSE "listed"
    /\ UNCHANGED <<chain_vars, relayer_vars, is_active, trigger_signalled, triggered_once>>

\* The vault is read and classified.  One that became claimable after the slot
\* was fixed may not be Red yet; one that is not claimable may be Red, since slot
\* notifications run ahead of the accounts, and a failing read goes by the row.
Classify ==
    /\ \/ cycle = "due" /\ cycle' = "red"
       \/ cycle = "listed" /\ cycle' \in {"idle", "red"}
    /\ UNCHANGED <<chain_vars, relayer_vars, is_active, trigger_signalled, triggered_once>>

\* The watcher signals a vault once.  In one process the relayer hears it at
\* once, in the same turn; across processes it is only stored.
Signal(signature) ==
    /\ cycle = "red"
    /\ ~trigger_signalled
    /\ cycle' = "idle"
    /\ trigger_signalled' = TRUE
    /\ \/ /\ mode = "same-process" /\ Accepts
          /\ \E h \in Handlers : HandleTriggerSignal(h, signature)
       \/ /\ mode = "same-process" /\ ~Accepts
          /\ UNCHANGED <<job, handlers>>
       \/ /\ mode = "separate-process"
          /\ UNCHANGED <<job, handlers>>
    /\ UNCHANGED <<chain_vars, is_active, mode, answered, stray, faults, crashes,
                   triggered_once>>

\* pollWatcher asks; the watcher answers with the rows on its list.
AskWatcher ==
    /\ mode = "separate-process"
    /\ ~answered
    /\ is_active /\ trigger_signalled
    /\ answered' = TRUE
    /\ UNCHANGED <<chain_vars, watcher_vars, mode, job, handlers, stray, faults, crashes,
                   triggered_once>>

\* The answer has come.  The event made from it carries no signature.
PollWatcher ==
    /\ answered
    /\ answered' = FALSE
    /\ \/ Accepts /\ \E h \in Handlers : HandleTriggerSignal(h, "unchecked")
       \/ ~Accepts /\ UNCHANGED <<job, handlers>>
    /\ UNCHANGED <<chain_vars, watcher_vars, mode, stray, faults, crashes, triggered_once>>

-----------------------------------------------------------------------------
(* A job runs *)

Finish(h, outcome, preflight) ==
    /\ job' = [status |-> outcome, preflight |-> preflight]
    /\ handlers' = [handlers EXCEPT ![h] = Idle]

\* isSolanaTransientError looks for the text of the error among the permanent
\* ones.  VaultAlreadyTriggered is there; the text of ThresholdNotReached ("The
\* inactivity threshold ...") is not, and neither is AccountNotInitialized.
isSolanaTransientError(error) == error # "VaultAlreadyTriggered"

\* Slip: the first attempt is not counted among the attempts allowed.
AttemptFailsOnceMore(h, error) ==
    IF isSolanaTransientError(error) /\ handlers[h].attempt <= MAX_ATTEMPTS
    THEN /\ handlers' = [handlers EXCEPT ![h].pc = "backoff", ![h].error = error]
         /\ UNCHANGED job
    ELSE Finish(h, "Failed", "none")

\* The catch block of withRetry.
AttemptFails(h, error) ==
    IF isSolanaTransientError(error) /\ handlers[h].attempt < MAX_ATTEMPTS
    THEN /\ handlers' = [handlers EXCEPT ![h].pc = "backoff", ![h].error = error]
         /\ UNCHANGED job
    ELSE Finish(h, "Failed", "none")

\* Slip: the lifecycle checks are left to the program.
preflight_threshold_only(currentSlot) ==
    CASE status = "absent" -> "VaultGone"
      [] status # "absent"
           /\ currentSlot < last_check_in_slot + inactivity_threshold_slots
                           -> "OwnerCheckedIn"
      [] OTHER             -> "ReadyToTrigger"

\* The decision of verifyTriggerPreflight, given the slot it has read, on the
\* account as it is now.
preflight_status(currentSlot) ==
    CASE status = "absent"              -> "VaultGone"
      [] status = "triggered"           -> "AlreadyTriggered"
      [] status = "open" /\ inactivity_threshold_slots = 0
                                        -> "RpcError"
      [] status = "open" /\ inactivity_threshold_slots > 0
           /\ currentSlot < last_check_in_slot + inactivity_threshold_slots
                                        -> "OwnerCheckedIn"
      [] OTHER                          -> "ReadyToTrigger"

Preflighted(h, preflight) ==
    IF preflight = "ReadyToTrigger"
    THEN /\ handlers' = [handlers EXCEPT ![h].pc = "submit", ![h].attempt = 1]
         /\ UNCHANGED job
    ELSE Finish(h, "Skipped", preflight)

GetSlot(h) ==
    /\ handlers[h].pc = "slot"
    /\ handlers' = [handlers EXCEPT ![h].pc = "account", ![h].currentSlot = slot]
    /\ UNCHANGED job

FetchAccount(h) ==
    /\ handlers[h].pc = "account"
    /\ Preflighted(h, preflight_status(handlers[h].currentSlot))

\* The transaction is simulated before it is sent.
SubmitOk(h) ==
    /\ handlers[h].pc = "submit"
    /\ Chain!Claimable
    /\ handlers' = [handlers EXCEPT ![h].pc = "sent"]
    /\ UNCHANGED job

program_error ==
    CASE status = "absent"    -> "AccountNotInitialized"
      [] status = "triggered" -> "VaultAlreadyTriggered"
      [] OTHER                -> "ThresholdNotReached"

\* The program refuses, in the simulation or when the transaction is executed.
Refused(h) ==
    /\ handlers[h].pc \in {"submit", "sent"}
    /\ ~Chain!Claimable
    /\ AttemptFails(h, program_error)

Confirmed(h) ==
    /\ handlers[h].pc = "landed"
    /\ Finish(h, "Confirmed", "none")

\* Slip: the attempt is not counted.
BackoffUncounted(h) ==
    /\ handlers[h].pc = "backoff"
    /\ handlers' = [handlers EXCEPT ![h].pc = "submit", ![h].error = "none"]
    /\ UNCHANGED job

BackoffOver(h) ==
    /\ handlers[h].pc = "backoff"
    /\ handlers' = [handlers EXCEPT ![h].pc = "submit", ![h].attempt = @ + 1,
                                    ![h].error = "none"]
    /\ UNCHANGED job

HandlerStep(h) ==
    /\ GetSlot(h) \/ FetchAccount(h) \/ SubmitOk(h) \/ Refused(h) \/ Confirmed(h)
       \/ BackoffOver(h)
    /\ UNCHANGED <<chain_vars, watcher_vars, mode, answered, stray, faults, crashes,
                   triggered_once>>

-----------------------------------------------------------------------------
(* The network *)

\* A validator executes the transaction a handler waits for.
Land(h) ==
    /\ handlers[h].pc = "sent"
    /\ TriggerLands
    /\ handlers' = [handlers EXCEPT ![h].pc = "landed"]
    /\ UNCHANGED <<mode, answered, job, stray, faults, crashes>>

PreflightCallFails(h) ==
    /\ handlers[h].pc \in {"slot", "account"}
    /\ Finish(h, "Skipped", "RpcError")
    /\ UNCHANGED stray

SendFails(h) ==
    /\ handlers[h].pc = "submit"
    /\ AttemptFails(h, "network")
    /\ UNCHANGED stray

\* Slip: no news is taken for good news.
ConfirmationAssumed(h) ==
    /\ handlers[h].pc \in {"sent", "landed"}
    /\ Finish(h, "Confirmed", "none")
    /\ stray' = IF handlers[h].pc = "sent" THEN stray + 1 ELSE stray

\* The wait for the confirmation times out: the transaction may have landed, it
\* may land later, and it may never land.
ConfirmationLost(h) ==
    /\ handlers[h].pc \in {"sent", "landed"}
    /\ AttemptFails(h, "network")
    /\ stray' = IF handlers[h].pc = "sent" THEN stray + 1 ELSE stray

Fault(h) ==
    /\ faults < MaxFaults
    /\ faults' = faults + 1
    /\ PreflightCallFails(h) \/ SendFails(h) \/ ConfirmationLost(h)
    /\ UNCHANGED <<chain_vars, watcher_vars, mode, answered, crashes, triggered_once>>

StrayLands ==
    /\ stray > 0
    /\ stray' = stray - 1
    /\ TriggerLands
    /\ UNCHANGED <<mode, answered, job, handlers, faults, crashes>>

\* Its blockhash expires, or the program refuses it.
StrayVanishes ==
    /\ stray > 0
    /\ stray' = stray - 1
    /\ UNCHANGED <<chain_vars, watcher_vars, mode, answered, job, handlers, faults, crashes,
                   triggered_once>>

\* The watcher's cycle ends in an error before it came to signalling, the watcher
\* restarts, or the vault cannot be read and its row does not show it due; or the
\* relayer's request fails or is answered with an error.
CycleFails == cycle # "idle" /\ cycle' = "idle" /\ UNCHANGED answered

PollFails == answered /\ answered' = FALSE /\ UNCHANGED cycle

WatcherFault ==
    /\ faults < MaxFaults
    /\ faults' = faults + 1
    /\ CycleFails \/ PollFails
    /\ UNCHANGED <<chain_vars, is_active, trigger_signalled, mode, job, handlers, stray,
                   crashes, triggered_once>>

-----------------------------------------------------------------------------
(* Restarts *)

\* The process dies, or is shut down, which waits for no handler; what it had
\* sent may still land.  The new process starts with an empty job map.
Crash ==
    /\ crashes < MaxCrashes
    /\ crashes' = crashes + 1
    /\ job' = NoJob
    /\ handlers' = [h \in Handlers |-> Idle]
    /\ answered' = FALSE
    /\ cycle' = IF mode = "separate-process" THEN cycle ELSE "idle"
    /\ stray' = stray + Cardinality({h \in Handlers : handlers[h].pc = "sent"})
    /\ UNCHANGED <<chain_vars, is_active, mode, faults, triggered_once>>

\* One process runs both services: it may also die after the flag was written
\* and before the event was emitted.
CrashAfterFlag ==
    /\ mode = "same-process"
    /\ cycle = "red" /\ ~trigger_signalled
    /\ Crash
    /\ trigger_signalled' = TRUE

Restart == CrashAfterFlag \/ (Crash /\ UNCHANGED trigger_signalled)

-----------------------------------------------------------------------------
Next ==
    \/ OthersStep
    \/ UpdateRow
    \/ ListVaults \/ Classify
    \/ \E s \in Signatures : Signal(s)
    \/ AskWatcher \/ PollWatcher
    \/ \E h \in Handlers : HandlerStep(h) \/ Land(h) \/ Fault(h)
    \/ WatcherFault
    \/ StrayLands \/ StrayVanishes
    \/ Restart

Spec == Init /\ [][Next]_vars

(***************************************************************************)
(* What runs by itself: the watcher's and the relayer's timers, the        *)
(* promises a handler awaits, and the validators, who execute or refuse a  *)
(* transaction that a handler waits for.  Nothing is assumed of the owner, *)
(* of other callers, of a fault, of a restart, of a stray transaction, or  *)
(* of when the watcher's row is on its list.                               *)
(***************************************************************************)
Fairness ==
    /\ WF_vars(ListVaults) /\ WF_vars(Classify)
    /\ WF_vars(\E s \in Signatures : Signal(s))
    /\ WF_vars(AskWatcher) /\ WF_vars(PollWatcher)
    /\ \A h \in Handlers : WF_vars(HandlerStep(h) \/ Land(h))

FairSpec == Spec /\ Fairness

-----------------------------------------------------------------------------
(* Properties *)

Active == {h \in Handlers : handlers[h].pc # "idle"}

(***************************************************************************)
(* The job map is the relayer's only protection against working twice on   *)
(* one vault: however signals, polls, failures and restarts interleave, at *)
(* most one handler is at work, and exactly while the job is Broadcasting. *)
(***************************************************************************)
OneBroadcast ==
    /\ Cardinality(Active) <= 1
    /\ job.status = "Broadcasting" <=> Active # {}

(***************************************************************************)
(* The slot and the account are read by two calls, and the owner may act   *)
(* between them.  Because the slot is read first, a pre-flight that lets   *)
(* the transaction through is right at that moment.                        *)
(***************************************************************************)
PreflightIsSound ==
    [][ \A h \in Handlers :
            handlers[h].pc = "account" /\ handlers'[h].pc = "submit"
                => Chain!Claimable ]_vars

(***************************************************************************)
(* A Confirmed job silences every later signal for the vault, so it must   *)
(* never stand on a transaction that did not land.                         *)
(***************************************************************************)
ConfirmedIsTriggered == job.status = "Confirmed" => triggered_once

(***************************************************************************)
(* However the chain and the network behave, a job comes to an end: the    *)
(* number of attempts is bounded for every kind of error.                  *)
(***************************************************************************)
JobsEnd == (job.status = "Broadcasting") ~> (job.status # "Broadcasting")

(***************************************************************************)
(* The point of the service: with the relayer polling, a vault past its    *)
(* threshold does not stay that way - it is triggered, or its owner comes  *)
(* back - whatever failed or restarted on the way, as long as the watcher  *)
(* keeps it on its list: /vaults names the active rows only, and nothing   *)
(* promises that a vault is among them (a late deactivation, a gap in the  *)
(* stream).  The other exception is the job map's: after a Confirmed job   *)
(* the vault's address is not served again, though a new vault may live    *)
(* there.                                                                  *)
(***************************************************************************)
EventuallyTriggered ==
    (mode = "separate-process" /\ Chain!Claimable /\ is_active)
        ~> (~Chain!Claimable \/ ~is_active \/ job.status = "Confirmed")
=============================================================================
