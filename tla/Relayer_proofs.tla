---------------------------- MODULE Relayer_proofs ----------------------------
(***************************************************************************)
(* Proofs about Relayer for any number of handlers, attempts, faults and   *)
(* restarts.                                                               *)
(***************************************************************************)
EXTENDS Relayer, TLAPS, FiniteSetTheorems

-----------------------------------------------------------------------------
(* Types.  A handler stores a slot it has read, so the chain's types belong *)
(* to the invariant.                                                        *)

ChainTypeOK ==
    /\ slot \in Nat
    /\ status \in {"absent", "open", "triggered"}
    /\ last_check_in_slot \in Nat
    /\ inactivity_threshold_slots \in Nat
    /\ inits \in Nat

TypeInv == ChainTypeOK /\ RelayerTypeOK

(* No step of the vault's own life leaves its types. *)
LEMMA ChainType ==
    ASSUME ChainTypeOK, [Chain!Next]_chain_vars
    PROVE  ChainTypeOK'
<1> USE RelayerAssumption DEF ChainTypeOK
<1>1. CASE UNCHANGED chain_vars
  BY <1>1 DEF chain_vars
<1>2. CASE Chain!Tick
  BY <1>2 DEF Chain!Tick, Chain!vault_vars
<1>3. CASE Chain!Initialize
  BY <1>3 DEF Chain!Initialize, Chain!Thresholds
<1>4. CASE Chain!CheckIn
  BY <1>4 DEF Chain!CheckIn
<1>5. CASE Chain!ConfigureThreshold
  BY <1>5 DEF Chain!ConfigureThreshold, Chain!Thresholds
<1>6. CASE Chain!Trigger
  BY <1>6 DEF Chain!Trigger
<1>7. CASE Chain!Close
  BY <1>7 DEF Chain!Close
<1> QED BY <1>1, <1>2, <1>3, <1>4, <1>5, <1>6, <1>7 DEF Chain!Next

(* Whoever acts, the vault takes a step of its own life or none. *)
LEMMA ChainStep ==
    ASSUME [Next]_vars PROVE [Chain!Next]_chain_vars
BY DEF Next, vars, OthersStep, UpdateRow, ListVaults, Classify, Signal, AskWatcher,
       PollWatcher, HandlerStep, Land, TriggerLands, Fault, WatcherFault, StrayLands,
       StrayVanishes, Restart, Crash, CrashAfterFlag, Chain!Next

(* A job that ends leaves a well-typed entry and an idle handler. *)
LEMMA FinishType ==
    ASSUME RelayerTypeOK, NEW h \in Handlers,
           NEW o \in {"Confirmed", "Skipped", "Failed"},
           NEW p \in PreflightStatus \cup {"none"}, Finish(h, o, p)
    PROVE  job' \in Job /\ handlers' \in [Handlers -> Handler]
<1>1. Idle \in Handler
  BY RelayerAssumption DEF Idle, Handler
<1> QED BY <1>1 DEF Finish, RelayerTypeOK, Job

(* An attempt that fails leaves well-typed handlers. *)
LEMMA AttemptFailsType ==
    ASSUME RelayerTypeOK, NEW h \in Handlers, NEW e \in Errors, AttemptFails(h, e)
    PROVE  job' \in Job /\ handlers' \in [Handlers -> Handler]
<1>1. CASE handlers' = [handlers EXCEPT ![h].pc = "backoff", ![h].error = e]
           /\ UNCHANGED job
  BY <1>1, ZenonT(60) DEF RelayerTypeOK, Handler
<1>2. CASE Finish(h, "Failed", "none")
  BY <1>2, FinishType DEF PreflightStatus
<1> QED BY <1>1, <1>2 DEF AttemptFails

(* A signal that is accepted leaves well-typed handlers. *)
LEMMA SignalType ==
    ASSUME RelayerTypeOK, NEW h \in Handlers, NEW s, HandleTriggerSignal(h, s)
    PROVE  job' \in Job /\ handlers' \in [Handlers -> Handler]
<1>1. [Idle EXCEPT !.pc = "slot"] \in Handler
  BY RelayerAssumption DEF Idle, Handler
<1> QED BY <1>1 DEF HandleTriggerSignal, RelayerTypeOK, Job

(* Each of a handler's own steps keeps the types. *)
LEMMA HandlerType ==
    ASSUME TypeInv, NEW h \in Handlers, HandlerStep(h),
           handlers[h].pc = "backoff" => handlers[h].attempt < MAX_ATTEMPTS
    PROVE  RelayerTypeOK'
<1> USE DEF TypeInv, RelayerTypeOK
<1> SUFFICES job' \in Job /\ handlers' \in [Handlers -> Handler]
  BY DEF HandlerStep, watcher_vars
<1>1. CASE GetSlot(h)
  BY <1>1, ZenonT(60) DEF GetSlot, Handler, ChainTypeOK
<1>2. CASE FetchAccount(h)
  <2> DEFINE p == preflight_status(handlers[h].currentSlot)
  <2>1. p \in PreflightStatus
    BY DEF preflight_status, PreflightStatus
  <2>2. CASE p = "ReadyToTrigger"
    BY <1>2, <2>2, RelayerAssumption DEF FetchAccount, Preflighted, Handler
  <2>3. CASE p # "ReadyToTrigger"
    BY <1>2, <2>1, <2>3, FinishType DEF FetchAccount, Preflighted
  <2> QED BY <2>2, <2>3
<1>3. CASE SubmitOk(h)
  BY <1>3 DEF SubmitOk, Handler
<1>4. CASE Refused(h)
  <2>1. program_error \in Errors
    BY DEF program_error, Errors
  <2> QED BY <1>4, <2>1, AttemptFailsType DEF Refused
<1>5. CASE Confirmed(h)
  BY <1>5, FinishType DEF Confirmed, PreflightStatus
<1>6. CASE BackoffOver(h)
  BY <1>6, RelayerAssumption DEF BackoffOver, Handler
<1> QED BY <1>1, <1>2, <1>3, <1>4, <1>5, <1>6 DEF HandlerStep

(* So does a call that fails. *)
LEMMA FaultType ==
    ASSUME TypeInv, NEW h \in Handlers, Fault(h)
    PROVE  RelayerTypeOK'
<1> USE DEF TypeInv, RelayerTypeOK
<1>1. faults' \in Nat /\ UNCHANGED <<watcher_vars, mode, answered, crashes, triggered_once>>
  BY RelayerAssumption DEF Fault
<1> USE DEF watcher_vars
<1>2. CASE PreflightCallFails(h)
  <2>1. "RpcError" \in PreflightStatus
    BY DEF PreflightStatus
  <2> QED BY <1>1, <1>2, <2>1, FinishType DEF PreflightCallFails
<1>3. CASE SendFails(h)
  BY <1>1, <1>3, AttemptFailsType DEF SendFails, Errors
<1>4. CASE ConfirmationLost(h)
  BY <1>1, <1>4, AttemptFailsType DEF ConfirmationLost, Errors
<1> QED BY <1>2, <1>3, <1>4 DEF Fault

(* What is left of a process that dies is well-typed. *)
LEMMA CrashType ==
    ASSUME TypeInv, Crash, trigger_signalled' \in BOOLEAN
    PROVE  RelayerTypeOK'
<1> DEFINE S == {h \in Handlers : handlers[h].pc = "sent"}
<1>1. Cardinality(S) \in Nat
  BY RelayerAssumption, FS_Subset, FS_CardinalityType
<1>2. Idle \in Handler /\ NoJob \in Job
  BY RelayerAssumption DEF Idle, Handler, NoJob, Job
<1>3. cycle' \in {"idle", "listed", "due", "red"}
  BY DEF TypeInv, RelayerTypeOK, Crash
<1>4. crashes' \in Nat /\ stray' \in Nat
  BY <1>1, RelayerAssumption DEF TypeInv, RelayerTypeOK, Crash
<1> QED BY <1>2, <1>3, <1>4 DEF TypeInv, RelayerTypeOK, Crash

-----------------------------------------------------------------------------
(* What is at work *)

\* At most one handler is active, said without cardinalities, and what each
\* has seen so far is true.
AtWork ==
    /\ \A g, h \in Handlers :
           handlers[g].pc # "idle" /\ handlers[h].pc # "idle" => g = h
    /\ job.status = "Broadcasting" <=> \E h \in Handlers : handlers[h].pc # "idle"
    /\ \A h \in Handlers : handlers[h].pc = "account" => handlers[h].currentSlot <= slot
    /\ \A h \in Handlers : handlers[h].pc = "landed" => triggered_once
    /\ \A h \in Handlers :
           handlers[h].pc = "backoff" => handlers[h].attempt < MAX_ATTEMPTS
    /\ ConfirmedIsTriggered

(* The clock runs forwards and what happened stays so. *)
LEMMA Progress ==
    ASSUME TypeInv, [Next]_vars
    PROVE  slot' \in Nat /\ slot <= slot' /\ (triggered_once => triggered_once')
<1>1. slot' \in Nat /\ slot <= slot'
  BY ChainStep DEF TypeInv, ChainTypeOK, Chain!Next, chain_vars, Chain!Tick,
     Chain!Initialize, Chain!CheckIn, Chain!ConfigureThreshold, Chain!Trigger, Chain!Close
<1>2. triggered_once => triggered_once'
  BY DEF Next, vars, OthersStep, UpdateRow, ListVaults, Classify, Signal, AskWatcher,
         PollWatcher, HandlerStep, Land, TriggerLands, Fault, WatcherFault, StrayLands,
         StrayVanishes, Restart, Crash, CrashAfterFlag
<1> QED BY <1>1, <1>2

(* A handler that is at work goes on. *)
LEMMA MoveAtWork ==
    ASSUME TypeInv, AtWork, [Next]_vars, NEW h \in Handlers, handlers[h].pc # "idle",
           NEW new \in Handler, new.pc # "idle",
           new.pc = "account" => new.currentSlot <= slot',
           new.pc = "landed" => triggered_once',
           new.pc = "backoff" => new.attempt < MAX_ATTEMPTS,
           handlers' = [handlers EXCEPT ![h] = new], UNCHANGED job
    PROVE  AtWork'
<1>1. \A g \in Handlers : handlers'[g] = IF g = h THEN new ELSE handlers[g]
  BY DEF TypeInv, RelayerTypeOK
<1>2. \A g \in Handlers : handlers'[g].pc # "idle" <=> handlers[g].pc # "idle"
  BY <1>1
<1>3. \A g \in Handlers :
          handlers'[g].pc = "account" => handlers'[g].currentSlot <= slot'
  BY <1>1, Progress DEF AtWork, TypeInv, ChainTypeOK, RelayerTypeOK, Handler
<1>4. \A g \in Handlers : handlers'[g].pc = "landed" => triggered_once'
  BY <1>1, Progress DEF AtWork
<1>5. \A g \in Handlers :
          handlers'[g].pc = "backoff" => handlers'[g].attempt < MAX_ATTEMPTS
  BY <1>1 DEF AtWork
<1> QED BY <1>2, <1>3, <1>4, <1>5, Progress DEF AtWork, ConfirmedIsTriggered

(* A handler that is at work ends, and with it the broadcasting. *)
LEMMA FinishAtWork ==
    ASSUME TypeInv, AtWork, [Next]_vars, NEW h \in Handlers, handlers[h].pc # "idle",
           NEW o, o # "Broadcasting", o = "Confirmed" => triggered_once', NEW p,
           Finish(h, o, p)
    PROVE  AtWork'
<1>1. \A g \in Handlers : handlers'[g].pc = "idle"
  BY DEF Finish, TypeInv, RelayerTypeOK, AtWork, Idle
<1>2. job'.status = o
  BY DEF Finish
<1> QED BY <1>1, <1>2 DEF AtWork, ConfirmedIsTriggered

(* An attempt that fails ends the handler or sends it to wait. *)
LEMMA AttemptFailsAtWork ==
    ASSUME TypeInv, AtWork, [Next]_vars, NEW h \in Handlers, handlers[h].pc # "idle",
           NEW e \in Errors, AttemptFails(h, e)
    PROVE  AtWork'
<1> DEFINE new == [handlers[h] EXCEPT !.pc = "backoff", !.error = e]
<1>1. new \in Handler /\ new.pc = "backoff" /\ new.attempt = handlers[h].attempt
  BY DEF TypeInv, RelayerTypeOK, Handler
<1>2. CASE /\ handlers[h].attempt < MAX_ATTEMPTS
           /\ handlers' = [handlers EXCEPT ![h].pc = "backoff", ![h].error = e]
           /\ UNCHANGED job
  <2>1. handlers' = [handlers EXCEPT ![h] = new]
    BY <1>2 DEF TypeInv, RelayerTypeOK, Handler
  <2> QED BY <1>1, <1>2, <2>1, MoveAtWork
<1>3. CASE Finish(h, "Failed", "none")
  BY <1>3, FinishAtWork
<1> QED BY <1>2, <1>3 DEF AttemptFails

(* A signal is accepted only when nothing is at work. *)
LEMMA SignalAtWork ==
    ASSUME TypeInv, AtWork, [Next]_vars, Accepts, NEW h \in Handlers, NEW s,
           HandleTriggerSignal(h, s)
    PROVE  AtWork'
<1>1. \A g \in Handlers : handlers[g].pc = "idle"
  BY DEF AtWork, Accepts
<1>2. CASE ~verifyEventSignature(s)
  BY <1>1, <1>2 DEF HandleTriggerSignal, AtWork, ConfirmedIsTriggered
<1>3. CASE verifyEventSignature(s)
  <2>1. \A g \in Handlers : handlers'[g].pc = IF g = h THEN "slot" ELSE "idle"
    BY <1>1, <1>3 DEF HandleTriggerSignal, TypeInv, RelayerTypeOK, Idle
  <2>2. job'.status = "Broadcasting"
    BY <1>3 DEF HandleTriggerSignal
  <2> QED BY <2>1, <2>2 DEF AtWork, ConfirmedIsTriggered
<1> QED BY <1>2, <1>3

(* Each of a handler's own steps. *)
LEMMA HandlerAtWork ==
    ASSUME TypeInv, AtWork, [Next]_vars, NEW h \in Handlers, HandlerStep(h)
    PROVE  AtWork'
<1> USE DEF TypeInv, RelayerTypeOK, Handler
<1>0. UNCHANGED <<slot, triggered_once>>
  BY DEF HandlerStep, chain_vars
<1>1. CASE GetSlot(h)
  <2> DEFINE new == [handlers[h] EXCEPT !.pc = "account", !.currentSlot = slot]
  <2>1. new \in Handler /\ new.pc = "account" /\ new.currentSlot = slot /\ slot <= slot'
    BY Progress DEF ChainTypeOK
  <2>2. handlers' = [handlers EXCEPT ![h] = new]
    BY <1>1 DEF GetSlot
  <2> HIDE DEF TypeInv, RelayerTypeOK, Handler
  <2> QED BY <1>1, <2>1, <2>2, MoveAtWork DEF GetSlot
<1>2. CASE FetchAccount(h)
  <2> DEFINE p == preflight_status(handlers[h].currentSlot)
             new == [handlers[h] EXCEPT !.pc = "submit", !.attempt = 1]
  <2>1. CASE p = "ReadyToTrigger"
    <3>0. handlers[h] \in Handler /\ 1 \in 0..MAX_ATTEMPTS
      BY RelayerAssumption
    <3>1. new \in Handler /\ new.pc = "submit"
      BY <3>0
    <3>2. handlers' = [handlers EXCEPT ![h] = new] /\ UNCHANGED job
      BY <1>2, <2>1 DEF FetchAccount, Preflighted
    <3> QED BY <1>2, <3>1, <3>2, MoveAtWork DEF FetchAccount
  <2>2. CASE p # "ReadyToTrigger"
    BY <1>2, <2>2, FinishAtWork DEF FetchAccount, Preflighted
  <2> QED BY <2>1, <2>2
<1>3. CASE SubmitOk(h)
  <2> DEFINE new == [handlers[h] EXCEPT !.pc = "sent"]
  <2>1. new \in Handler /\ new.pc = "sent"
    OBVIOUS
  <2> QED BY <1>3, <2>1, MoveAtWork DEF SubmitOk
<1>4. CASE Refused(h)
  <2>1. program_error \in Errors
    BY DEF program_error, Errors
  <2> QED BY <1>4, <2>1, AttemptFailsAtWork DEF Refused
<1>5. CASE Confirmed(h)
  BY <1>0, <1>5, FinishAtWork DEF Confirmed, AtWork
<1>6. CASE BackoffOver(h)
  <2> DEFINE new == [handlers[h] EXCEPT !.pc = "submit", !.attempt = @ + 1,
                                        !.error = "none"]
  <2>1. handlers[h] \in Handler /\ handlers[h].attempt + 1 \in 0..MAX_ATTEMPTS
    BY <1>6, RelayerAssumption DEF BackoffOver, AtWork
  <2>2. new \in Handler /\ new.pc = "submit"
    BY <2>1
  <2>3. handlers' = [handlers EXCEPT ![h] = new] /\ UNCHANGED job
    BY <1>6 DEF BackoffOver
  <2>4. handlers[h].pc # "idle"
    BY <1>6 DEF BackoffOver
  <2> HIDE DEF new, TypeInv, RelayerTypeOK, Handler
  <2> QED BY <2>2, <2>3, <2>4, MoveAtWork
<1> QED BY <1>1, <1>2, <1>3, <1>4, <1>5, <1>6 DEF HandlerStep

(* A call that fails. *)
LEMMA FaultAtWork ==
    ASSUME TypeInv, AtWork, [Next]_vars, NEW h \in Handlers, Fault(h)
    PROVE  AtWork'
<1>1. CASE PreflightCallFails(h)
  BY <1>1, FinishAtWork DEF PreflightCallFails
<1>2. CASE SendFails(h)
  BY <1>2, AttemptFailsAtWork DEF SendFails, Errors
<1>3. CASE ConfirmationLost(h)
  BY <1>3, AttemptFailsAtWork DEF ConfirmationLost, Errors
<1> QED BY <1>1, <1>2, <1>3 DEF Fault

(* A transaction lands that a handler waits for. *)
LEMMA LandAtWork ==
    ASSUME TypeInv, AtWork, [Next]_vars, NEW h \in Handlers, Land(h)
    PROVE  RelayerTypeOK' /\ AtWork'
<1> DEFINE new == [handlers[h] EXCEPT !.pc = "landed"]
<1>1. new \in Handler /\ new.pc = "landed" /\ handlers[h].pc # "idle"
  BY DEF Land, TypeInv, RelayerTypeOK, Handler
<1>2. handlers' = [handlers EXCEPT ![h] = new] /\ UNCHANGED job /\ triggered_once'
  BY DEF Land, TriggerLands
<1>3. RelayerTypeOK'
  BY <1>1, <1>2 DEF Land, TriggerLands, CycleKeepsUp, TypeInv, RelayerTypeOK
<1> HIDE DEF new
<1> QED BY <1>1, <1>2, <1>3, MoveAtWork

(* Steps that leave the job map and the handlers alone. *)
LEMMA OthersAtWork ==
    ASSUME TypeInv, AtWork, [Next]_vars, UNCHANGED <<job, handlers>>
    PROVE  AtWork'
BY Progress DEF TypeInv, ChainTypeOK, RelayerTypeOK, Handler, AtWork, ConfirmedIsTriggered

Inv == TypeInv /\ AtWork

(***************************************************************************)
(* What the other theorems rest on: no step of the relayer, of the network *)
(* or of anyone else breaks the invariant.                                 *)
(***************************************************************************)
LEMMA Invariance == Spec => []Inv
<1>1. Init => Inv
  <2> SUFFICES ASSUME Init PROVE Inv
    OBVIOUS
  <2>1. ChainTypeOK
    BY DEF Init, Chain!Init, ChainTypeOK
  <2>2. Idle \in Handler /\ NoJob \in Job
    BY RelayerAssumption DEF Idle, Handler, NoJob, Job
  <2>3. RelayerTypeOK
    BY <2>2 DEF Init, RelayerTypeOK
  <2>4. AtWork
    BY DEF Init, AtWork, ConfirmedIsTriggered, Idle, NoJob
  <2> QED BY <2>1, <2>3, <2>4 DEF Inv, TypeInv
<1>2. Inv /\ [Next]_vars => Inv'
  <2> SUFFICES ASSUME TypeInv, AtWork, [Next]_vars PROVE RelayerTypeOK' /\ AtWork'
    BY ChainType, ChainStep DEF Inv, TypeInv
  <2>1. CASE UNCHANGED vars
    BY <2>1, OthersAtWork DEF vars, relayer_vars, watcher_vars, TypeInv, RelayerTypeOK
  <2>2. CASE OthersStep
    BY <2>2, OthersAtWork DEF OthersStep, TriggerLands, CycleKeepsUp, relayer_vars, TypeInv,
                              RelayerTypeOK
  <2>3. ASSUME NEW s \in Signatures, Signal(s) PROVE RelayerTypeOK' /\ AtWork'
    <3>1. CASE UNCHANGED <<job, handlers>>
      BY <2>3, <3>1, OthersAtWork DEF Signal, TypeInv, RelayerTypeOK
    <3>2. ASSUME Accepts, NEW h \in Handlers, HandleTriggerSignal(h, s)
          PROVE  RelayerTypeOK' /\ AtWork'
      BY <2>3, <3>2, SignalType, SignalAtWork DEF Signal, TypeInv, RelayerTypeOK
    <3> QED BY <2>3, <3>1, <3>2 DEF Signal
  <2>4. CASE PollWatcher
    <3>1. CASE UNCHANGED <<job, handlers>>
      BY <2>4, <3>1, OthersAtWork DEF PollWatcher, watcher_vars, TypeInv, RelayerTypeOK
    <3>2. ASSUME Accepts, NEW h \in Handlers, HandleTriggerSignal(h, "unchecked")
          PROVE  RelayerTypeOK' /\ AtWork'
      BY <2>4, <3>2, SignalType, SignalAtWork
         DEF PollWatcher, watcher_vars, TypeInv, RelayerTypeOK
    <3> QED BY <2>4, <3>1, <3>2 DEF PollWatcher
  <2>5. ASSUME NEW h \in Handlers, HandlerStep(h) \/ Land(h) \/ Fault(h)
        PROVE  RelayerTypeOK' /\ AtWork'
    BY <2>5, HandlerType, HandlerAtWork, LandAtWork, FaultType, FaultAtWork DEF AtWork
  <2>6. CASE StrayLands \/ StrayVanishes
    <3>1. stray' \in Nat
      BY <2>6 DEF StrayLands, StrayVanishes, TypeInv, RelayerTypeOK
    <3>2. /\ UNCHANGED <<mode, is_active, trigger_signalled, answered, job, handlers, faults,
                         crashes>>
          /\ cycle' \in {"idle", "listed", "due", "red"}
          /\ triggered_once' \in BOOLEAN
      BY <2>6 DEF StrayLands, StrayVanishes, TriggerLands, CycleKeepsUp, watcher_vars,
                  TypeInv, RelayerTypeOK
    <3> QED BY <3>1, <3>2, OthersAtWork DEF TypeInv, RelayerTypeOK
  <2>7. CASE Restart
    <3>1. Crash /\ trigger_signalled' \in BOOLEAN
      BY <2>7 DEF Restart, CrashAfterFlag, TypeInv, RelayerTypeOK
    <3>2. \A h \in Handlers : handlers'[h].pc = "idle"
      BY <3>1 DEF Crash, Idle
    <3>3. AtWork'
      BY <3>1, <3>2 DEF Crash, AtWork, NoJob, ConfirmedIsTriggered
    <3> QED BY <3>1, <3>3, CrashType
  <2>8. CASE UpdateRow \/ ListVaults \/ Classify \/ AskWatcher \/ WatcherFault
    <3>1. /\ is_active' \in BOOLEAN /\ answered' \in BOOLEAN
          /\ cycle' \in {"idle", "listed", "due", "red"}
      BY <2>8 DEF UpdateRow, ListVaults, Classify, AskWatcher, WatcherFault, CycleFails,
                  PollFails, relayer_vars, watcher_vars, TypeInv, RelayerTypeOK
    <3>2. faults' \in Nat
      BY <2>8 DEF UpdateRow, ListVaults, Classify, AskWatcher, WatcherFault, relayer_vars,
                  TypeInv, RelayerTypeOK
    <3>3. UNCHANGED <<mode, trigger_signalled, job, handlers, stray, crashes,
                      triggered_once>>
      BY <2>8 DEF UpdateRow, ListVaults, Classify, AskWatcher, WatcherFault, relayer_vars,
                  watcher_vars
    <3> QED BY <3>1, <3>2, <3>3, OthersAtWork DEF TypeInv, RelayerTypeOK
  <2> QED BY <2>1, <2>2, <2>3, <2>4, <2>5, <2>6, <2>7, <2>8 DEF Next
<1> QED BY <1>1, <1>2, PTL DEF Spec

-----------------------------------------------------------------------------
(***************************************************************************)
(* The relayer's memory is well-typed for any number of handlers.          *)
(***************************************************************************)
THEOREM RelayerTypeCorrect == Spec => []RelayerTypeOK
BY Invariance, PTL DEF Inv, TypeInv

(***************************************************************************)
(* No interleaving of signals, polls, failures and restarts puts two       *)
(* handlers to work on the vault.                                          *)
(***************************************************************************)
THEOREM OneBroadcastCorrect == Spec => []OneBroadcast
<1>1. Inv => OneBroadcast
  <2> SUFFICES ASSUME Inv PROVE OneBroadcast
    OBVIOUS
  <2>1. job.status = "Broadcasting" <=> Active # {}
    BY DEF Inv, AtWork, Active
  <2>2. CASE Active = {}
    BY <2>1, <2>2, FS_EmptySet DEF OneBroadcast
  <2>3. ASSUME NEW h \in Active PROVE Cardinality(Active) = 1
    <3>1. Active = {h}
      BY <2>3 DEF Inv, AtWork, Active
    <3> QED BY <3>1, FS_Singleton
  <2> QED BY <2>1, <2>2, <2>3 DEF OneBroadcast
<1> QED BY <1>1, Invariance, PTL

(***************************************************************************)
(* A Confirmed job stands on a vault that was triggered.                   *)
(***************************************************************************)
THEOREM ConfirmedCorrect == Spec => []ConfirmedIsTriggered
BY Invariance, PTL DEF Inv, AtWork

(***************************************************************************)
(* A pre-flight that lets the transaction through is right at that moment, *)
(* although it reads the chain twice.                                      *)
(***************************************************************************)
THEOREM PreflightCorrect == Spec => PreflightIsSound
<1> DEFINE A == \A h \in Handlers :
                   handlers[h].pc = "account" /\ handlers'[h].pc = "submit"
                       => Chain!Claimable
<1>1. Inv /\ [Next]_vars => [A]_vars
  <2> SUFFICES ASSUME TypeInv, AtWork, Next, NEW h \in Handlers,
                      handlers[h].pc = "account", handlers'[h].pc = "submit"
               PROVE  Chain!Claimable
    BY DEF Inv
  <2>1. FetchAccount(h)
    <3>1. ASSUME NEW g \in Handlers, HandlerStep(g) PROVE FetchAccount(h)
      <4>1. g = h
        BY <3>1 DEF HandlerStep, GetSlot, FetchAccount, SubmitOk, Refused, Confirmed,
                    BackoffOver, AtWork
      <4> QED BY <3>1, <4>1 DEF HandlerStep, GetSlot, SubmitOk, Refused, Confirmed,
                                BackoffOver
    <3>2. \A g \in Handlers : ~Fault(g) /\ ~Land(g)
      BY DEF Fault, PreflightCallFails, SendFails, ConfirmationLost, Land, AttemptFails,
             Finish, Idle, AtWork, TypeInv, RelayerTypeOK, Handler
    <3>3. ~Restart
      BY DEF Restart, CrashAfterFlag, Crash, Idle
    <3>4. UNCHANGED handlers => FALSE
      OBVIOUS
    <3>5. \A g \in Handlers : \A s : Accepts => ~HandleTriggerSignal(g, s)
      BY DEF Accepts, AtWork, HandleTriggerSignal
    <3> QED BY <3>1, <3>2, <3>3, <3>4, <3>5
            DEF Next, OthersStep, relayer_vars, UpdateRow, ListVaults, Classify, Signal,
                AskWatcher, PollWatcher, WatcherFault, StrayLands, StrayVanishes
  <2>2. preflight_status(handlers[h].currentSlot) = "ReadyToTrigger"
    BY <2>1 DEF FetchAccount, Preflighted, Finish, Idle, TypeInv, RelayerTypeOK
  <2>3. status = "open" /\ handlers[h].currentSlot <= slot
    BY <2>2 DEF preflight_status, TypeInv, ChainTypeOK, AtWork
  <2>4. ~(handlers[h].currentSlot < last_check_in_slot + inactivity_threshold_slots)
    BY <2>2, <2>3 DEF preflight_status, TypeInv, ChainTypeOK
  <2>5. handlers[h].currentSlot \in Nat
    BY DEF TypeInv, RelayerTypeOK, Handler
  <2> QED BY <2>3, <2>4, <2>5 DEF Chain!Claimable, TypeInv, ChainTypeOK
<1> QED BY <1>1, Invariance, PTL DEF Spec, PreflightIsSound
=============================================================================
