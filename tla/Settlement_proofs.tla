-------------------------- MODULE Settlement_proofs ---------------------------
(***************************************************************************)
(* Proofs about Settlement: types, that a vault is not closed over money   *)
(* its guardians have seen, and that what is shown as done is done, for    *)
(* any guardians, deposits and numbers of attempts.                        *)
(***************************************************************************)
EXTENDS Settlement, TLAPS

(* What must be true before a claim is sent.                               *)
AllMoved ==
    /\ \A u \in recorded \ missed : pool[u] = "moved"
    /\ recorded # {} => \E u \in Utxos : pool[u] = "moved"

(* Every deposit the program has recorded, or is about to be told of, is   *)
(* in the pool.                                                            *)
RecordsAreShielded ==
    /\ vault.utxo_commitment = 0 => recorded = {}
    /\ \A u \in recorded : pool[u] # "none"
    /\ \A u \in Utxos : adrift[RecordDeposit(u)] > 0 => pool[u] # "none"

(* The owner's page and its call.                                          *)
DepositInv ==
    /\ deposit.step = "recording" =>
         /\ deposit.utxo \in Utxos
         /\ pool[deposit.utxo] # "none"
         /\ call["owner"].ix = RecordDeposit(deposit.utxo)
         /\ call["owner"].at \in {"landed", "returned"} => deposit.utxo \in recorded
    /\ deposit.step # "recording" => call["owner"].at = "idle"
    /\ deposit.step = "done" => deposit.utxo \in recorded

(* A guardian's page and its call: it is open and works on a triggered     *)
(* vault only, and moves what its scan found before it sends the record.   *)
ExecutorInv(g) ==
    /\ exec[g].step # "hidden" \/ exec[g].phase # "none" => vault.status # "open"
    /\ exec[g].phase = "proving" => exec[g].found # {}
    /\ exec[g].phase = "recording" =>
         /\ AllMoved
         /\ call[g].ix = RecordClaim
         /\ call[g].at \in {"landed", "returned"} => vault.status = "closed"
    /\ exec[g].phase # "recording" => call[g].at = "idle"
    /\ exec[g].step = "done" => vault.status = "closed"

ClaimAdriftInv == adrift[RecordClaim] > 0 => vault.status # "open" /\ AllMoved

IInv ==
    /\ RecordsAreShielded
    /\ DepositInv
    /\ \A g \in Guardians : ExecutorInv(g)
    /\ ClaimAdriftInv
    /\ vault.status = "closed" => AllMoved

-----------------------------------------------------------------------------
(* The instructions.                                                       *)
LEMMA InstructionFacts ==
    /\ RecordClaim \in SentInstructions
    /\ \A u \in Utxos : RecordDeposit(u) \in SentInstructions
    /\ \A u \in Utxos : RecordDeposit(u) # RecordClaim
    /\ \A u, v \in Utxos : RecordDeposit(u) = RecordDeposit(v) => u = v
    /\ \A i \in SentInstructions : i = RecordClaim \/ \E u \in Utxos : i = RecordDeposit(u)
  BY DEF SentInstructions, RecordClaim, RecordDeposit

(* A claim is never taken for a deposit, nor for the trigger.              *)
LEMMA KindFacts ==
    /\ \A u \in Utxos : RecordDeposit(u)[1] = "record_cloak_deposit" /\ RecordDeposit(u)[2] = u
    /\ \A u \in Utxos : RecordDeposit(u) # TriggerIx /\ RecordDeposit(u) # ClaimIx
    /\ RecordClaim[1] # "record_cloak_deposit" /\ RecordClaim # TriggerIx /\ RecordClaim # ClaimIx
    /\ TriggerIx[1] # "record_cloak_deposit"
    /\ ClaimIx[1] # "record_cloak_deposit" /\ ClaimIx # TriggerIx
  BY DEF RecordDeposit, RecordClaim, TriggerIx, ClaimIx

-----------------------------------------------------------------------------
(* Types *)

LEMMA RetryType ==
    ASSUME NEW c \in Pages, call \in [Pages -> Calls], call[c].at # "idle", Retry(c)
    PROVE  call' \in [Pages -> Calls]
<1> DEFINE again == [at |-> "build", attempt |-> call[c].attempt + 1, ix |-> call[c].ix]
           over == [call[c] EXCEPT !.at = "threw"]
<1>1. call[c] \in [at : Places, attempt : 1..MaxAttempts, ix : Instructions]
  BY DEF Calls, NoCall
<1>2. ASSUME call[c].attempt < MaxAttempts
      PROVE  again \in Calls
  <2>1. call[c].attempt + 1 \in 1..MaxAttempts
    BY <1>1, <1>2, SendingAssumption
  <2>2. call[c].ix \in Instructions
    BY <1>1
  <2>3. QED
    BY <2>1, <2>2 DEF Calls, Places
<1>3. over \in Calls
  BY <1>1 DEF Calls, Places
<1>4. call' = [call EXCEPT ![c] = IF call[c].attempt < MaxAttempts THEN again ELSE over]
  BY DEF Retry
<1>5. QED
  BY <1>2, <1>3, <1>4

LEMMA MoveType ==
    ASSUME NEW c \in Pages, NEW from, from # "idle", NEW to \in Places,
           call \in [Pages -> Calls], Move(c, from, to)
    PROVE  call' \in [Pages -> Calls]
<1>1. call[c] \in [at : Places, attempt : 1..MaxAttempts, ix : Instructions]
  BY DEF Calls, NoCall, Move, At
<1>2. [call[c] EXCEPT !.at = to] \in Calls
  BY <1>1 DEF Calls
<1>3. QED
  BY <1>2 DEF Move

LEMMA AdriftType ==
    ASSUME NEW i \in SentInstructions, adrift \in [SentInstructions -> Nat], Adrift(i)
    PROVE  adrift' \in [SentInstructions -> Nat]
  BY DEF Adrift

LEMMA NoCallType == NoCall \in Calls
  BY DEF Calls

LEMMA BeginType ==
    ASSUME NEW c \in Pages, NEW i \in SentInstructions, call \in [Pages -> Calls], Begin(c, i)
    PROVE  call' \in [Pages -> Calls] /\ adrift' = adrift
<1>1. [at |-> "build", attempt |-> 1, ix |-> i] \in Calls
  BY SendingAssumption, SettlementAssumption DEF Calls, Places
<1>2. QED
  BY <1>1 DEF Begin

LEMMA SettledType ==
    ASSUME NEW c \in Pages, NEW how, call \in [Pages -> Calls], Settled(c, how)
    PROVE  call' \in [Pages -> Calls] /\ adrift' = adrift
  BY NoCallType DEF Settled

(* A client's step: where the call is afterwards, and what may go adrift.   *)
LEMMA ClientType ==
    ASSUME TypeOK, NEW c \in Pages, Client(c)
    PROVE  call' \in [Pages -> Calls] /\ adrift' \in [SentInstructions -> Nat]
<1> USE DEF TypeOK
<1>1. call[c].at # "idle" => call[c].ix \in SentInstructions
  BY SettlementAssumption DEF Calls, NoCall
<1>2. CASE Prepared(c) \/ Declined(c) \/ Submit(c, At(c, "send") /\ Accepts(call[c].ix)) \/ Confirmed(c)
  BY <1>2, MoveType DEF Prepared, Declined, Submit, Confirmed, Places, Move
<1>3. CASE \/ BlockhashFails(c) \/ Refused(c, At(c, "send") /\ Accepts(call[c].ix))
           \/ SubmitFails(c) \/ Expires(c) \/ StatusFails(c) \/ ConfirmedError(c)
  BY <1>3, RetryType DEF BlockhashFails, Refused, SubmitFails, Expires, StatusFails, ConfirmedError, At
<1>4. CASE AnswerLost(c, At(c, "send") /\ Accepts(call[c].ix)) \/ TimesOut(c)
  <2>1. Retry(c)
    BY <1>4 DEF AnswerLost, TimesOut
  <2>0. call[c].at # "idle"
    BY <1>4 DEF AnswerLost, TimesOut, At
  <2>2. adrift' \in [SentInstructions -> Nat]
    BY <1>4 DEF AnswerLost, TimesOut, Adrift
  <2>3. QED
    BY <2>0, <2>1, <2>2, RetryType
<1>5. QED
  BY <1>2, <1>3, <1>4 DEF Client, ClientStep

LEMMA ForgetType ==
    ASSUME TypeOK, NEW c \in Pages, Forget(c)
    PROVE  call' \in [Pages -> Calls] /\ adrift' \in [SentInstructions -> Nat]
<1>1. call' \in [Pages -> Calls]
  BY NoCallType DEF Forget, TypeOK
<1>2. adrift' \in [SentInstructions -> Nat]
  BY DEF Forget, Adrift, TypeOK
<1>3. QED
  BY <1>1, <1>2

LEMMA ExecuteType ==
    ASSUME TypeOK, NEW i, i \in SentInstructions \cup {TriggerIx, ClaimIx}, Execute(i)
    PROVE  /\ vault' \in [status : {"open", "triggered", "closed"},
                          utxo_commitment : 0..MaxUtxos, deposited_lamports : Nat]
           /\ recorded' \subseteq Utxos
<1> USE DEF TypeOK
<1>1. CASE ~Accepts(i)
  BY <1>1 DEF Execute
<1>2. CASE Accepts(i) /\ i[1] = "record_cloak_deposit"
  <2>1. PICK u \in Utxos : i = RecordDeposit(u)
    BY <1>2, InstructionFacts, KindFacts
  <2>2. i[2] = u
    BY <2>1, KindFacts
  <2>3. vault' = [vault EXCEPT !.utxo_commitment = u, !.deposited_lamports = @ + 1]
        /\ recorded' = recorded \cup {u}
    BY <1>2, <2>2 DEF Execute
  <2>4. u \in 0..MaxUtxos
    BY SettlementAssumption DEF Utxos
  <2>5. vault.deposited_lamports + 1 \in Nat
    OBVIOUS
  <2>6. recorded' \subseteq Utxos
    BY <2>3
  <2>7. vault' \in [status : {"open", "triggered", "closed"},
                   utxo_commitment : 0..MaxUtxos, deposited_lamports : Nat]
    BY <2>3, <2>4, <2>5
  <2>8. QED
    BY <2>6, <2>7
<1>3. CASE Accepts(i) /\ i[1] # "record_cloak_deposit"
  BY <1>3 DEF Execute
<1>4. QED
  BY <1>1, <1>2, <1>3

LEMMA InitType ==
    ASSUME Init
    PROVE  TypeOK
<1>1. call \in [Pages -> Calls]
  BY NoCallType, SettlementAssumption DEF Init, SendingInit
<1>2. adrift \in [SentInstructions -> Nat]
  BY SettlementAssumption DEF Init, SendingInit
<1>3. exec \in [Guardians -> Executors] /\ desk \in [Guardians -> Desks]
  BY DEF Init, Hidden, Executors, Away, Desks
<1>4. QED
  BY <1>1, <1>2, <1>3, SettlementAssumption DEF Init, TypeOK, Utxos

LEMMA DepositType ==
    ASSUME TypeOK, DepositStep
    PROVE  TypeOK'
<1> USE DEF TypeOK
<1>1. UNCHANGED <<vault, recorded, missed, exec, desk>>
  BY DEF DepositStep, handleShield, ShieldDone, ShieldFails, DepositRecorded, RecordThrew,
         Complete, OwnerCloses, DepositOnly
<1>2. "owner" \in Pages /\ 0 \in 0..MaxUtxos /\ \A u \in Utxos : u \in 0..MaxUtxos
  BY SettlementAssumption DEF Pages, Utxos
<1>3. ASSUME NEW u \in Utxos, TakenByPool(u)
      PROVE  pool' \in [Utxos -> {"none", "unspent", "moved"}]
  BY <1>3 DEF TakenByPool
<1>4. pool' \in [Utxos -> {"none", "unspent", "moved"}]
  BY <1>3 DEF DepositStep, handleShield, ShieldDone, ShieldFails, DepositRecorded, RecordThrew,
         Complete, OwnerCloses
<1>5. deposit' \in [step : {"amount", "shielding", "recording", "done"}, utxo : 0..MaxUtxos]
  BY <1>2 DEF DepositStep, handleShield, ShieldDone, ShieldFails, DepositRecorded, RecordThrew,
         Complete, OwnerCloses
<1>6. call' \in [Pages -> Calls] /\ adrift' \in [SentInstructions -> Nat]
  <2>1. CASE handleShield \/ ShieldFails \/ Complete
    BY <2>1 DEF handleShield, ShieldFails, Complete, sending
  <2>2. CASE ShieldDone
    BY <2>2, <1>2, BeginType, InstructionFacts DEF ShieldDone
  <2>3. CASE DepositRecorded \/ RecordThrew
    BY <2>3, <1>2, SettledType DEF DepositRecorded, RecordThrew
  <2>4. CASE OwnerCloses
    BY <2>4, <1>2, ForgetType DEF OwnerCloses
  <2>5. QED
    BY <2>1, <2>2, <2>3, <2>4 DEF DepositStep
<1>7. QED
  BY <1>1, <1>4, <1>5, <1>6

LEMMA ExecutorType ==
    ASSUME TypeOK, NEW g \in Guardians, ExecutorStep(g)
    PROVE  TypeOK'
<1> DEFINE Idle == \/ Mount(g) \/ EnterShares(g) \/ BackToPrereqs(g) \/ ToConfirm(g)
                  \/ BackToShares(g) \/ handleExecute(g)
                  \/ ScanDone(g) \/ ScanFails(g) \/ Unmount(g)
<1>1. g \in Pages /\ exec[g] \in Executors /\ Hidden \in Executors
  BY DEF Pages, TypeOK, Hidden, Executors
<1>2. UNCHANGED <<vault, recorded, deposit, desk>> /\ missed' \subseteq Utxos
  BY DEF TypeOK, ExecutorStep, Mount, EnterShares, BackToPrereqs, ToConfirm, BackToShares, Turn,
         handleExecute, ScanDone, ScanFails, TransferDone, TransferFails,
         ClaimRecorded, ClaimThrew, Unmount, GuardianCloses, ExecOnly
<1>3. pool' \in [Utxos -> {"none", "unspent", "moved"}]
  BY DEF ExecutorStep, Mount, EnterShares, BackToPrereqs, ToConfirm, BackToShares, Turn,
         handleExecute, ScanDone, ScanFails, TransferDone, TransferFails,
         ClaimRecorded, ClaimThrew, Unmount, GuardianCloses, Moved, Transfer, TypeOK
<1>4. call' \in [Pages -> Calls] /\ adrift' \in [SentInstructions -> Nat]
  <2>1. CASE Idle \/ TransferFails(g)
    BY <2>1 DEF Mount, EnterShares, BackToPrereqs, ToConfirm, BackToShares, Turn,
         handleExecute, ScanDone, ScanFails, TransferFails, Unmount,
         sending, TypeOK
  <2>2. CASE TransferDone(g)
    BY <2>2, <1>1, BeginType, InstructionFacts DEF TransferDone, TypeOK
  <2>3. CASE ClaimRecorded(g) \/ ClaimThrew(g)
    BY <2>3, <1>1, SettledType DEF ClaimRecorded, ClaimThrew, TypeOK
  <2>4. CASE GuardianCloses(g)
    BY <2>4, <1>1, ForgetType DEF GuardianCloses
  <2>5. QED
    BY <2>1, <2>2, <2>3, <2>4 DEF ExecutorStep
<1>5. ASSUME NEW e \in Executors, Set(g, e)
      PROVE  exec' \in [Guardians -> Executors]
  BY <1>5 DEF Set, TypeOK
<1>6. exec' \in [Guardians -> Executors]
  <2>1. CASE Mount(g) \/ Unmount(g) \/ GuardianCloses(g)
    BY <2>1, <1>1, <1>5 DEF Mount, Unmount, GuardianCloses, Hidden, Executors
  <2>2. CASE EnterShares(g) \/ BackToPrereqs(g) \/ ToConfirm(g) \/ BackToShares(g)
    BY <2>2, <1>1, <1>5 DEF EnterShares, BackToPrereqs, ToConfirm, BackToShares, Turn, Executors
  <2>3. CASE handleExecute(g)
    BY <2>3, <1>1, <1>5 DEF handleExecute, Executors
  <2>4. CASE ScanDone(g)
    BY <2>4, <1>1, <1>5 DEF ScanDone, Scans, Executors
  <2>5. CASE ScanFails(g) \/ TransferFails(g) \/ ClaimThrew(g)
    BY <2>5, <1>1, <1>5 DEF ScanFails, TransferFails, ClaimThrew, Failed, Executors
  <2>6. CASE TransferDone(g) \/ ClaimRecorded(g)
    BY <2>6, <1>1, <1>5 DEF TransferDone, ClaimRecorded, Executors
  <2>7. QED
    BY <2>1, <2>2, <2>3, <2>4, <2>5, <2>6 DEF ExecutorStep
<1>7. QED
  BY <1>2, <1>3, <1>4, <1>6 DEF TypeOK

(* A step of the desktop app, and what it leaves alone.                    *)
LEMMA DeskFacts ==
    ASSUME TypeOK, NEW g \in Guardians, DeskStep(g)
    PROVE  /\ UNCHANGED <<call, adrift, vault, recorded, missed, deposit, exec>>
           /\ \E x \in Desks : desk' = [desk EXCEPT ![g] = x]
           /\ pool' = pool \/ Transfer(desk[g].found)
<1> DEFINE Quietly == \/ OpenSignCovenant(g) \/ DeskScans(g) \/ DeskScanned(g)
                      \/ BackToEntry(g) \/ executeTransfer(g) \/ TryAgain(g) \/ Leave(g)
<1>1. desk[g] \in Desks
  BY DEF TypeOK
<1>2. ASSUME NEW from, NEW to, NEW found, Show(g, from, to, found),
             found \in SUBSET Utxos,
             to \in {"away", "entry", "scanning", "confirm", "executing", "done", "error"}
      PROVE  /\ UNCHANGED <<call, adrift, vault, recorded, missed, deposit, exec>>
             /\ \E x \in Desks : desk' = [desk EXCEPT ![g] = x]
  BY <1>2 DEF Show, DeskOnly, sending, Desks
<1>3. {} \in SUBSET Utxos /\ desk[g].found \in SUBSET Utxos /\ \A f \in Scans : f \in SUBSET Utxos
  BY <1>1 DEF Desks, Scans
<1>4. CASE Quietly
  <2>1. pool' = pool
    BY <1>4 DEF OpenSignCovenant, DeskScans, DeskScanned, BackToEntry, executeTransfer,
       TryAgain, Leave, Turns
  <2>2. CASE DeskScanned(g)
    BY <1>2, <1>3, <2>1, <2>2 DEF DeskScanned, Turns
  <2>3. CASE ~DeskScanned(g)
    BY <1>2, <1>3, <1>4, <2>1, <2>3 DEF OpenSignCovenant, DeskScans, BackToEntry,
       executeTransfer, TryAgain, Leave, Turns
  <2>4. QED
    BY <2>2, <2>3
<1>5. CASE TransferReplied(g)
  BY <1>2, <1>3, <1>5 DEF TransferReplied
<1>6. CASE ServiceFails(g) \/ DeskCloses(g)
  BY <1>2, <1>3, <1>6 DEF ServiceFails, DeskCloses
<1>7. QED
  BY <1>4, <1>5, <1>6 DEF DeskStep

LEMMA DeskType ==
    ASSUME TypeOK, NEW g \in Guardians, DeskStep(g)
    PROVE  TypeOK'
<1>1. pool' \in [Utxos -> {"none", "unspent", "moved"}]
  BY DeskFacts DEF Transfer, TypeOK
<1>2. desk' \in [Guardians -> Desks]
  BY DeskFacts DEF TypeOK
<1>3. QED
  BY <1>1, <1>2, DeskFacts DEF TypeOK

LEMMA StepType ==
    ASSUME TypeOK, [Next]_vars
    PROVE  TypeOK'
<1>1. CASE UNCHANGED vars
  BY <1>1 DEF vars, TypeOK
<1>2. CASE Trigger
  BY <1>2, ExecuteType DEF Trigger, pages, TypeOK
<1>3. ASSUME NEW c \in Pages, Client(c)
      PROVE  TypeOK'
  BY <1>3, ClientType DEF Client, pages, TypeOK
<1>4. ASSUME NEW c \in Pages, Lands(c)
      PROVE  TypeOK'
  <2>1. call[c].ix \in SentInstructions
    BY <1>4, SettlementAssumption DEF TypeOK, Calls, NoCall, Lands, At
  <2>2. call' \in [Pages -> Calls] /\ adrift' = adrift
    BY <1>4, MoveType DEF Lands, Executed, Places, TypeOK, Move
  <2>3. QED
    BY <1>4, <2>1, <2>2, ExecuteType DEF Lands, pages, TypeOK
<1>5. ASSUME NEW i \in SentInstructions, DriftsIn(i) \/ DriftsOff(i)
      PROVE  TypeOK'
  <2>1. adrift' \in [SentInstructions -> Nat] /\ call' = call
    BY <1>5 DEF DriftsIn, DriftsOff, AdriftEnds, TypeOK
  <2>2. QED
    BY <1>5, <2>1, ExecuteType DEF DriftsIn, DriftsOff, pages, TypeOK
<1>6. CASE HeirStep
  BY <1>6, ExecuteType DEF HeirStep, handleTrigger, handleClaim, HeirSends, pages, sending, TypeOK
<1>7. QED
  BY <1>1, <1>2, <1>3, <1>4, <1>5, <1>6, DepositType, ExecutorType, DeskType DEF Next

(* The variables keep their types.                                         *)
THEOREM SettlementTypeCorrect == Spec => []TypeOK
<1>1. Init => TypeOK
  BY InitType
<1>2. TypeOK /\ [Next]_vars => TypeOK'
  BY StepType
<1>3. QED
  BY <1>1, <1>2, PTL DEF Spec

-----------------------------------------------------------------------------
(* What a step of the client leaves alone: the instruction, the other      *)
(* calls, what is adrift of other instructions.  The result is returned    *)
(* from landed only.                                                       *)
LEMMA ClientFacts ==
    ASSUME TypeOK, NEW c \in Pages, Client(c)
    PROVE  /\ call[c].at # "idle" /\ call'[c].at # "idle"
           /\ call'[c].ix = call[c].ix
           /\ call'[c].at \in {"landed", "returned"} => call[c].at = "landed"
           /\ \A d \in Pages : d # c => call'[d] = call[d]
           /\ \A i \in SentInstructions : i # call[c].ix => adrift'[i] = adrift[i]
<1>1. call \in [Pages -> Calls] /\ adrift \in [SentInstructions -> Nat]
  BY DEF TypeOK
<1>2. call[c].at # "idle"
  BY DEF Client, ClientStep, At, Move, Prepared, BlockhashFails, Declined, Submit, Refused,
         SubmitFails, AnswerLost, Expires, TimesOut, Confirmed, StatusFails, ConfirmedError
<1>3. call[c].ix \in SentInstructions
  BY <1>1, <1>2, SettlementAssumption DEF Calls, NoCall
<1>4. call[c] \in [at : Places, attempt : 1..MaxAttempts, ix : Instructions]
  BY <1>1, <1>2 DEF Calls, NoCall
<1>5. ASSUME Retry(c)
      PROVE  /\ call'[c].at \in {"build", "threw"} /\ call'[c].ix = call[c].ix
             /\ \A d \in Pages : d # c => call'[d] = call[d]
  BY <1>1, <1>4, <1>5 DEF Retry
<1>6. ASSUME NEW from, NEW to, Move(c, from, to)
      PROVE  /\ call'[c].at = to /\ call'[c].ix = call[c].ix
             /\ \A d \in Pages : d # c => call'[d] = call[d]
             /\ adrift' = adrift
  BY <1>1, <1>4, <1>6 DEF Move
<1>7. CASE Retry(c) /\ (adrift' = adrift \/ Adrift(call[c].ix))
  BY <1>1, <1>2, <1>3, <1>5, <1>7 DEF Adrift
<1>8. CASE Prepared(c) \/ Declined(c) \/ Submit(c, At(c, "send") /\ Accepts(call[c].ix)) \/ Confirmed(c)
  BY <1>2, <1>6, <1>8 DEF Prepared, Declined, Submit, Confirmed, Move, At
<1>9. QED
  BY <1>7, <1>8 DEF Client, ClientStep, BlockhashFails, Refused, SubmitFails, AnswerLost,
         Expires, TimesOut, StatusFails, ConfirmedError

LEMMA ClientKeeps ==
    ASSUME TypeOK, IInv, NEW c \in Pages, Client(c)
    PROVE  IInv'
<1>1. /\ vault' = vault /\ recorded' = recorded /\ missed' = missed /\ pool' = pool
      /\ deposit' = deposit /\ exec' = exec
  BY DEF Client, pages
<1>2. "owner" \in Pages /\ \A g \in Guardians : g \in Pages /\ g # "owner"
  BY SettlementAssumption DEF Pages
<1>3. DepositInv'
  BY <1>1, <1>2, ClientFacts DEF IInv, DepositInv
<1>4. ASSUME NEW g \in Guardians
      PROVE  ExecutorInv(g)'
  BY <1>1, <1>2, ClientFacts DEF IInv, ExecutorInv, AllMoved
<1>5. c = "owner" => /\ deposit.step = "recording"
                     /\ call[c].ix = RecordDeposit(deposit.utxo)
                     /\ deposit.utxo \in Utxos /\ pool[deposit.utxo] # "none"
  BY ClientFacts DEF IInv, DepositInv
<1>6. c # "owner" => /\ call[c].ix = RecordClaim
                     /\ AllMoved /\ vault.status # "open"
  BY ClientFacts DEF IInv, ExecutorInv, Pages
<1>7. RecordsAreShielded'
  BY <1>1, <1>5, <1>6, ClientFacts, InstructionFacts DEF IInv, RecordsAreShielded
<1>8. ClaimAdriftInv'
  <2>1. CASE c = "owner"
    BY <1>1, <1>5, <2>1, ClientFacts, InstructionFacts DEF IInv, ClaimAdriftInv, AllMoved
  <2>2. CASE c # "owner"
    BY <1>1, <1>6, <2>2 DEF ClaimAdriftInv, AllMoved
  <2>3. QED
    BY <2>1, <2>2
<1>9. QED
  BY <1>1, <1>3, <1>4, <1>7, <1>8 DEF IInv, AllMoved

-----------------------------------------------------------------------------
(* What the program does with an instruction it accepts.                   *)
LEMMA Executions ==
    ASSUME TypeOK, NEW i, Execute(i)
    PROVE  /\ vault.status # "open" => recorded' = recorded /\ vault'.status # "open"
           /\ vault.status = "closed" => vault'.status = "closed"
           /\ \A u \in Utxos : i = RecordDeposit(u) =>
                /\ vault'.status = vault.status
                /\ recorded' \subseteq recorded \cup {u}
                /\ recorded \subseteq recorded'
                /\ Accepts(i) => u \in recorded'
                /\ vault'.utxo_commitment = 0 => recorded' = recorded /\ vault' = vault
           /\ i \in {RecordClaim, ClaimIx, TriggerIx} =>
                /\ recorded' = recorded
                /\ vault'.utxo_commitment = vault.utxo_commitment
                /\ Accepts(i) /\ i # TriggerIx => vault'.status = "closed"
                /\ vault'.status = "closed" =>
                     \/ vault.status = "closed"
                     \/ i = ClaimIx /\ vault.utxo_commitment = 0
                     \/ i = RecordClaim
<1> USE DEF TypeOK
<1>1. CASE ~Accepts(i)
  BY <1>1 DEF Execute
<1>2. CASE Accepts(i) /\ i[1] = "record_cloak_deposit"
  <2>1. /\ vault' = [vault EXCEPT !.utxo_commitment = i[2], !.deposited_lamports = @ + 1]
        /\ recorded' = recorded \cup {i[2]}
    BY <1>2 DEF Execute
  <2>2. vault.status = "open" /\ vault'.status = vault.status /\ vault'.utxo_commitment = i[2]
    BY <1>2, <2>1, KindFacts DEF Accepts
  <2>3. i \notin {RecordClaim, ClaimIx, TriggerIx}
    BY <1>2, KindFacts
  <2>4. ASSUME NEW u \in Utxos, i = RecordDeposit(u)
        PROVE  i[2] = u /\ u # 0
    BY <2>4, KindFacts, SettlementAssumption DEF Utxos
  <2>5. QED
    BY <2>1, <2>2, <2>3, <2>4
<1>3. CASE Accepts(i) /\ i[1] # "record_cloak_deposit"
  <2>1. /\ vault' = [vault EXCEPT !.status = IF i = TriggerIx THEN "triggered" ELSE "closed"]
        /\ recorded' = recorded
    BY <1>3 DEF Execute
  <2>2. \A u \in Utxos : i # RecordDeposit(u)
    BY <1>3, KindFacts
  <2>3. /\ i = TriggerIx => vault.status = "open"
        /\ i = ClaimIx => vault.utxo_commitment = 0
        /\ vault.status # "closed"
    BY <1>3, KindFacts DEF Accepts, Shielded
  <2>4. vault'.status = (IF i = TriggerIx THEN "triggered" ELSE "closed")
        /\ vault'.utxo_commitment = vault.utxo_commitment
    BY <2>1
  <2>5. QED
    BY <2>1, <2>2, <2>3, <2>4, KindFacts
<1>4. QED
  BY <1>1, <1>2, <1>3

(* An execution keeps what is known of the pages' flows.                   *)
LEMMA ExecutionKeeps ==
    ASSUME TypeOK, IInv, NEW i, Execute(i),
           i \in SentInstructions \cup {TriggerIx, ClaimIx},
           \A u \in Utxos : i = RecordDeposit(u) => pool[u] # "none",
           i = RecordClaim => AllMoved,
           UNCHANGED <<pool, missed, deposit, exec>>
    PROVE  /\ vault'.utxo_commitment = 0 => recorded' = {}
           /\ \A u \in recorded' : pool'[u] # "none"
           /\ recorded \subseteq recorded'
           /\ vault.status # "open" => (AllMoved => AllMoved') /\ vault'.status # "open"
           /\ vault'.status = "closed" => AllMoved'
           /\ \A g \in Guardians :
                /\ exec'[g].step # "hidden" \/ exec'[g].phase # "none" => vault'.status # "open"
                /\ exec'[g].phase = "proving" => exec'[g].found # {}
                /\ exec'[g].phase = "recording" => AllMoved'
                /\ exec'[g].step = "done" => vault'.status = "closed"
<1>1. i \in {RecordClaim, ClaimIx, TriggerIx} \/ \E u \in Utxos : i = RecordDeposit(u)
  BY InstructionFacts
<1>2. recorded \subseteq recorded'
  BY <1>1, Executions
<1>3. /\ vault.status # "open" => recorded' = recorded /\ vault'.status # "open"
      /\ vault.status = "closed" => vault'.status = "closed"
  BY Executions
<1>4. vault'.utxo_commitment = 0 => recorded' = {}
  BY <1>1, Executions DEF IInv, RecordsAreShielded
<1>5. \A u \in recorded' : pool'[u] # "none"
  BY <1>1, Executions DEF IInv, RecordsAreShielded
<1>6. vault'.status = "closed" => AllMoved'
  <2>1. SUFFICES ASSUME vault'.status = "closed" PROVE AllMoved'
    OBVIOUS
  <2>2. CASE vault.status = "closed"
    BY <1>3, <2>2 DEF IInv, AllMoved
  <2>3. CASE vault.status # "closed"
    <3>1. i \in {RecordClaim, ClaimIx, TriggerIx}
      BY <1>1, <2>1, <2>3, Executions
    <3>2. CASE i = RecordClaim
      BY <3>1, <3>2, Executions DEF AllMoved
    <3>3. CASE i # RecordClaim
      <4>1. vault.utxo_commitment = 0 /\ recorded' = recorded
        BY <2>1, <2>3, <3>1, <3>3, Executions
      <4>2. QED
        BY <4>1 DEF IInv, RecordsAreShielded, AllMoved
    <3>4. QED
      BY <3>2, <3>3
  <2>4. QED
    BY <2>2, <2>3
<1>7. vault.status # "open" => (AllMoved => AllMoved')
  BY <1>3 DEF AllMoved
<1>8. ASSUME NEW g \in Guardians
      PROVE  /\ exec'[g].step # "hidden" \/ exec'[g].phase # "none" => vault'.status # "open"
             /\ exec'[g].phase = "proving" => exec'[g].found # {}
             /\ exec'[g].phase = "recording" => AllMoved'
             /\ exec'[g].step = "done" => vault'.status = "closed"
  BY <1>3, <1>7 DEF IInv, ExecutorInv
<1>9. QED
  BY <1>2, <1>3, <1>4, <1>5, <1>6, <1>7, <1>8

(* The relayer's trigger, and the heir's trigger and claim.                *)
LEMMA OutsiderKeeps ==
    ASSUME TypeOK, IInv, NEW i \in {TriggerIx, ClaimIx}, Execute(i),
           UNCHANGED <<call, adrift, pool, missed, deposit, exec>>
    PROVE  IInv'
<1>1. \A u \in Utxos : i # RecordDeposit(u)
  BY KindFacts
<1>2. i # RecordClaim
  BY KindFacts
<1>3. recorded' = recorded
  BY Executions
<1>4. RecordsAreShielded' /\ DepositInv'
  BY <1>1, <1>2, <1>3, ExecutionKeeps DEF IInv, RecordsAreShielded, DepositInv
<1>5. ASSUME NEW g \in Guardians
      PROVE  ExecutorInv(g)'
  BY <1>1, <1>2, ExecutionKeeps, Executions DEF IInv, ExecutorInv
<1>6. ClaimAdriftInv'
  BY <1>1, <1>2, ExecutionKeeps DEF IInv, ClaimAdriftInv
<1>7. QED
  BY <1>1, <1>2, <1>4, <1>5, <1>6, ExecutionKeeps DEF IInv

LEMMA LandsKeeps ==
    ASSUME TypeOK, IInv, NEW c \in Pages, Lands(c)
    PROVE  IInv'
<1> DEFINE i == call[c].ix
<1>1. "owner" \in Pages /\ \A g \in Guardians : g \in Pages /\ g # "owner"
  BY SettlementAssumption DEF Pages
<1>2. /\ call[c].at = "confirm"
      /\ call' = [call EXCEPT ![c].at = IF Accepts(i) THEN "landed" ELSE "failed"]
      /\ Execute(i)
      /\ UNCHANGED <<adrift, pool, missed, deposit, exec>>
  BY DEF Lands, Executed, Move, At, pages
<1>3. call[c] \in [at : Places, attempt : 1..MaxAttempts, ix : Instructions]
  BY <1>2 DEF TypeOK, Calls, NoCall
<1>4. i \in SentInstructions
  BY <1>3, SettlementAssumption
<1>5. /\ call'[c].ix = i /\ call'[c].at = (IF Accepts(i) THEN "landed" ELSE "failed")
      /\ \A d \in Pages : d # c => call'[d] = call[d]
  BY <1>2, <1>3 DEF TypeOK
<1>6. c = "owner" => /\ deposit.step = "recording" /\ deposit.utxo \in Utxos
                     /\ i = RecordDeposit(deposit.utxo) /\ pool[deposit.utxo] # "none"
  BY <1>2 DEF IInv, DepositInv
<1>7. c # "owner" => /\ i = RecordClaim /\ AllMoved /\ vault.status # "open"
  BY <1>2 DEF IInv, ExecutorInv, Pages
<1>8. /\ \A u \in Utxos : i = RecordDeposit(u) => pool[u] # "none"
      /\ i = RecordClaim => AllMoved
  BY <1>6, <1>7, InstructionFacts
<1>9. RecordsAreShielded' /\ ClaimAdriftInv'
  BY <1>2, <1>4, <1>8, ExecutionKeeps DEF IInv, RecordsAreShielded, ClaimAdriftInv
<1>10. DepositInv'
  <2>1. CASE c = "owner"
    <3>1. Accepts(i) => deposit.utxo \in recorded'
      BY <1>2, <1>6, <2>1, Executions
    <3>2. QED
      BY <1>2, <1>5, <1>6, <2>1, <3>1 DEF DepositInv
  <2>2. CASE c # "owner"
    <3>1. recorded' = recorded
      BY <1>2, <1>7, <2>2, Executions
    <3>2. QED
      BY <1>1, <1>2, <1>5, <2>2, <3>1 DEF IInv, DepositInv
  <2>3. QED
    BY <2>1, <2>2
<1>11. ASSUME NEW g \in Guardians
       PROVE  ExecutorInv(g)'
  <2>1. /\ exec'[g].step # "hidden" \/ exec'[g].phase # "none" => vault'.status # "open"
        /\ exec'[g].phase = "proving" => exec'[g].found # {}
        /\ exec'[g].phase = "recording" => AllMoved'
        /\ exec'[g].step = "done" => vault'.status = "closed"
    BY <1>2, <1>4, <1>8, ExecutionKeeps
  <2>2. CASE g = c
    <3>1. i = RecordClaim /\ exec[g].phase = "recording"
      BY <1>1, <1>2, <1>7, <2>2 DEF IInv, ExecutorInv
    <3>2. Accepts(i) => vault'.status = "closed"
      BY <1>2, <3>1, KindFacts, Executions
    <3>3. QED
      BY <1>2, <1>5, <2>1, <2>2, <3>1, <3>2 DEF ExecutorInv
  <2>3. CASE g # c
    <3>1. call'[g] = call[g]
      BY <1>1, <1>5, <2>3
    <3>2. vault.status = "closed" => vault'.status = "closed"
      BY <1>2, Executions
    <3>3. QED
      BY <1>2, <2>1, <3>1, <3>2 DEF IInv, ExecutorInv
  <2>4. QED
    BY <2>2, <2>3
<1>12. QED
  BY <1>2, <1>4, <1>8, <1>9, <1>10, <1>11, ExecutionKeeps DEF IInv

LEMMA DriftsKeeps ==
    ASSUME TypeOK, IInv, NEW i \in SentInstructions, DriftsIn(i) \/ DriftsOff(i)
    PROVE  IInv'
<1>1. /\ adrift[i] > 0 /\ call' = call /\ UNCHANGED <<pool, missed, deposit, exec>>
      /\ \A j \in SentInstructions : adrift'[j] > 0 => adrift[j] > 0
  BY DEF DriftsIn, DriftsOff, AdriftEnds, pages, TypeOK
<1>2. CASE DriftsOff(i)
  <2>1. vault' = vault /\ recorded' = recorded
    BY <1>2 DEF DriftsOff
  <2>2. QED
    BY <1>1, <2>1, InstructionFacts
       DEF IInv, RecordsAreShielded, DepositInv, ExecutorInv, ClaimAdriftInv, AllMoved
<1>3. CASE DriftsIn(i)
  <2>1. Execute(i)
    BY <1>3 DEF DriftsIn
  <2>2. \A u \in Utxos : i = RecordDeposit(u) => pool[u] # "none"
    BY <1>1 DEF IInv, RecordsAreShielded
  <2>3. i = RecordClaim => AllMoved
    BY <1>1 DEF IInv, ClaimAdriftInv
  <2>4. vault.status = "closed" => vault'.status = "closed"
    BY <2>1, Executions
  <2>5. RecordsAreShielded'
    BY <1>1, <2>1, <2>2, <2>3, ExecutionKeeps, InstructionFacts DEF IInv, RecordsAreShielded
  <2>6. DepositInv'
    BY <1>1, <2>1, <2>2, <2>3, ExecutionKeeps DEF IInv, DepositInv
  <2>7. ClaimAdriftInv'
    BY <1>1, <2>1, <2>2, <2>3, ExecutionKeeps, InstructionFacts DEF IInv, ClaimAdriftInv
  <2>8. ASSUME NEW g \in Guardians
        PROVE  ExecutorInv(g)'
    BY <1>1, <2>1, <2>2, <2>3, <2>4, ExecutionKeeps DEF IInv, ExecutorInv
  <2>9. QED
    BY <1>1, <2>1, <2>2, <2>3, <2>5, <2>6, <2>7, <2>8, ExecutionKeeps DEF IInv
<1>4. QED
  BY <1>2, <1>3

(* What the owner's page does leaves the other pages' invariants alone: a  *)
(* UTXO it brings into the pool is none of the recorded ones.              *)
LEMMA DepositKeeps ==
    ASSUME TypeOK, IInv, DepositStep
    PROVE  IInv'
<1>1. vault' = vault /\ recorded' = recorded /\ missed' = missed /\ exec' = exec
  BY DEF DepositStep, handleShield, ShieldDone, ShieldFails, DepositRecorded, RecordThrew,
         Complete, OwnerCloses, DepositOnly
<1>2. "owner" \in Pages /\ \A g \in Guardians : g \in Pages /\ g # "owner"
  BY SettlementAssumption DEF Pages
<1>3. ASSUME NEW u \in Utxos, TakenByPool(u)
      PROVE  /\ pool'[u] = "unspent"
             /\ \A v \in Utxos : pool[v] # "none" => pool'[v] = pool[v]
  BY <1>3 DEF TakenByPool, Unused, TypeOK
<1>4. \A v \in Utxos : pool[v] # "none" => pool'[v] = pool[v]
  BY <1>3 DEF DepositStep, handleShield, ShieldDone, ShieldFails, DepositRecorded, RecordThrew,
         Complete, OwnerCloses
<1>5. recorded \subseteq Utxos /\ \A u \in recorded : pool'[u] = pool[u]
  BY <1>4 DEF TypeOK, IInv, RecordsAreShielded
<1>6. /\ \A g \in Guardians : call'[g] = call[g]
      /\ \A i \in SentInstructions :
            \/ adrift'[i] = adrift[i]
            \/ /\ deposit.step = "recording" /\ i = RecordDeposit(deposit.utxo)
               /\ deposit.utxo \in Utxos /\ pool[deposit.utxo] # "none"
  <2>1. CASE handleShield \/ ShieldFails \/ Complete
    BY <2>1 DEF handleShield, ShieldFails, Complete, sending
  <2>2. CASE ShieldDone \/ DepositRecorded \/ RecordThrew
    BY <2>2, <1>2 DEF ShieldDone, DepositRecorded, RecordThrew, Begin, Settled, TypeOK
  <2>3. CASE OwnerCloses
    <3>1. call' = [call EXCEPT !["owner"] = NoCall]
      BY <2>3 DEF OwnerCloses, Forget
    <3>2. CASE At("owner", "confirm")
      <4>1. /\ deposit.step = "recording" /\ call["owner"].ix = RecordDeposit(deposit.utxo)
            /\ deposit.utxo \in Utxos /\ pool[deposit.utxo] # "none"
        BY <3>2 DEF At, IInv, DepositInv
      <4>2. Adrift(call["owner"].ix)
        BY <2>3, <3>2 DEF OwnerCloses, Forget
      <4>3. QED
        BY <1>2, <3>1, <4>1, <4>2 DEF Adrift, TypeOK
    <3>3. CASE ~At("owner", "confirm")
      BY <1>2, <2>3, <3>1, <3>3 DEF OwnerCloses, Forget, TypeOK
    <3>4. QED
      BY <3>2, <3>3
  <2>4. QED
    BY <2>1, <2>2, <2>3 DEF DepositStep
<1>7. AllMoved => AllMoved'
  <2>1. \A u \in Utxos : pool[u] = "moved" => pool'[u] = "moved"
    BY <1>4
  <2>2. QED
    BY <1>1, <1>5, <2>1 DEF AllMoved
<1>8. RecordsAreShielded'
  <2>1. ASSUME NEW u \in Utxos, adrift'[RecordDeposit(u)] > 0
        PROVE  pool[u] # "none"
    BY <1>6, <2>1, InstructionFacts DEF IInv, RecordsAreShielded
  <2>2. QED
    BY <1>1, <1>4, <1>5, <2>1 DEF IInv, RecordsAreShielded
<1>9. ClaimAdriftInv'
  BY <1>1, <1>6, <1>7, InstructionFacts DEF IInv, ClaimAdriftInv
<1>10. ASSUME NEW g \in Guardians
       PROVE  ExecutorInv(g)'
  BY <1>1, <1>5, <1>6, <1>7 DEF IInv, ExecutorInv
<1>11. DepositInv'
  <2>1. CASE handleShield \/ ShieldFails \/ Complete
    BY <2>1 DEF handleShield, ShieldFails, Complete, sending, IInv, DepositInv
  <2>2. CASE ShieldDone
    <3>1. PICK u \in Utxos : /\ TakenByPool(u)
                             /\ deposit' = [step |-> "recording", utxo |-> u]
                             /\ Begin("owner", RecordDeposit(u))
      BY <2>2 DEF ShieldDone
    <3>2. call'["owner"] = [at |-> "build", attempt |-> 1, ix |-> RecordDeposit(u)]
      BY <1>2, <3>1 DEF Begin, TypeOK
    <3>3. QED
      BY <1>3, <3>1, <3>2 DEF DepositInv
  <2>3. CASE DepositRecorded \/ RecordThrew \/ OwnerCloses
    <3>1. call'["owner"] = NoCall
      BY <1>2, <2>3 DEF DepositRecorded, RecordThrew, OwnerCloses, Settled, Forget, TypeOK
    <3>2. deposit'.step # "recording"
      BY <2>3 DEF DepositRecorded, RecordThrew, OwnerCloses, TypeOK
    <3>3. deposit'.step = "done" => deposit'.utxo \in recorded
      BY <2>3 DEF DepositRecorded, RecordThrew, OwnerCloses, Settled, At, IInv, DepositInv, TypeOK
    <3>4. QED
      BY <1>1, <3>1, <3>2, <3>3 DEF DepositInv, NoCall
  <2>4. QED
    BY <2>1, <2>2, <2>3 DEF DepositStep
<1>12. QED
  BY <1>1, <1>7, <1>8, <1>9, <1>10, <1>11 DEF IInv

(* A guardian's step: nothing but its own page, its own call, the pool and *)
(* copies of its record gone adrift.                                       *)
LEMMA ExecutorFacts ==
    ASSUME TypeOK, IInv, NEW g \in Guardians, ExecutorStep(g)
    PROVE  /\ vault' = vault /\ recorded' = recorded /\ deposit' = deposit
           /\ \A h \in Guardians \ {g} : exec'[h] = exec[h]
           /\ \A c \in Pages \ {g} : call'[c] = call[c]
           /\ \A i \in SentInstructions :
                 adrift'[i] = adrift[i] \/ (i = RecordClaim /\ exec[g].phase = "recording")
           /\ \A u \in Utxos : pool[u] = "moved" => pool'[u] = "moved"
           /\ \A u \in Utxos : pool[u] # "none" => pool'[u] # "none"
           /\ missed' = missed \/ TransferDone(g)
<1>1. g \in Pages
  BY DEF Pages
<1>2. vault' = vault /\ recorded' = recorded /\ deposit' = deposit
  BY DEF ExecutorStep, Mount, EnterShares, BackToPrereqs, ToConfirm, BackToShares, Turn,
         handleExecute, ScanDone, ScanFails, TransferDone, TransferFails,
         ClaimRecorded, ClaimThrew, Unmount, GuardianCloses, ExecOnly
<1>3. \E e : Set(g, e)
  BY DEF ExecutorStep, Mount, EnterShares, BackToPrereqs, ToConfirm, BackToShares, Turn,
         handleExecute, ScanDone, ScanFails, TransferDone, TransferFails,
         ClaimRecorded, ClaimThrew, Unmount, GuardianCloses, Failed
<1>4. \A h \in Guardians \ {g} : exec'[h] = exec[h]
  BY <1>3 DEF Set, TypeOK
<1>5. pool' = pool \/ Moved(g)
  BY DEF ExecutorStep, Mount, EnterShares, BackToPrereqs, ToConfirm, BackToShares, Turn,
         handleExecute, ScanDone, ScanFails, TransferDone, TransferFails,
         ClaimRecorded, ClaimThrew, Unmount, GuardianCloses
<1>6. /\ \A u \in Utxos : pool[u] = "moved" => pool'[u] = "moved"
      /\ \A u \in Utxos : pool[u] # "none" => pool'[u] # "none"
  BY <1>5 DEF Moved, Transfer, TypeOK
<1>7. /\ \A c \in Pages \ {g} : call'[c] = call[c]
      /\ \A i \in SentInstructions :
            adrift'[i] = adrift[i] \/ (i = RecordClaim /\ exec[g].phase = "recording")
  <2>1. CASE GuardianCloses(g)
    <3>1. Forget(g)
      BY <2>1 DEF GuardianCloses
    <3>2. \A c \in Pages \ {g} : call'[c] = call[c]
      BY <1>1, <3>1 DEF Forget, TypeOK
    <3>3. At(g, "confirm") => call[g].ix = RecordClaim /\ exec[g].phase = "recording"
      BY <1>1 DEF At, IInv, ExecutorInv
    <3>4. \A i \in SentInstructions :
            adrift'[i] = adrift[i] \/ (i = RecordClaim /\ exec[g].phase = "recording")
      BY <3>1, <3>3 DEF Forget, Adrift, TypeOK
    <3>5. QED
      BY <3>2, <3>4
  <2>2. CASE TransferDone(g) \/ ClaimRecorded(g) \/ ClaimThrew(g)
    BY <1>1, <2>2 DEF TransferDone, ClaimRecorded, ClaimThrew, Begin, Settled, TypeOK
  <2>3. CASE call' = call /\ adrift' = adrift
    BY <2>3
  <2>4. QED
    BY <2>1, <2>2, <2>3 DEF ExecutorStep, Mount, EnterShares, BackToPrereqs, ToConfirm,
       BackToShares, Turn, handleExecute, ScanDone, ScanFails,
       TransferFails, Unmount, sending
<1>8. missed' = missed \/ TransferDone(g)
  BY DEF ExecutorStep, Mount, EnterShares, BackToPrereqs, ToConfirm, BackToShares, Turn,
         handleExecute, ScanDone, ScanFails, TransferFails,
         ClaimRecorded, ClaimThrew, Unmount, GuardianCloses, ExecOnly
<1>9. QED
  BY <1>2, <1>4, <1>6, <1>7, <1>8

(* A transfer that is done has moved every recorded UTXO it does not miss. *)
LEMMA TransferMoves ==
    ASSUME TypeOK, IInv, NEW g \in Guardians, TransferDone(g)
    PROVE  AllMoved'
<1>1. /\ exec[g].phase = "proving" /\ Transfer(exec[g].found) /\ recorded' = recorded
      /\ missed' = {u \in recorded \ exec[g].found : pool[u] = "unspent"}
  BY DEF TransferDone, Moved
<1>2. exec[g].found # {} /\ exec[g].found \subseteq Utxos
  BY <1>1 DEF IInv, ExecutorInv, TypeOK, Executors
<1>3. \A u \in recorded : u \in Utxos /\ pool[u] \in {"unspent", "moved"}
  BY DEF IInv, RecordsAreShielded, TypeOK
<1>4. \A u \in exec[g].found : pool'[u] = "moved"
  BY <1>1, <1>2 DEF Transfer
<1>5. \A u \in recorded' \ missed' : pool'[u] = "moved"
  BY <1>1, <1>3, <1>4 DEF Transfer
<1>6. QED
  BY <1>2, <1>4, <1>5 DEF AllMoved

LEMMA ExecutorMoves ==
    ASSUME TypeOK, IInv, NEW g \in Guardians, ExecutorStep(g)
    PROVE  AllMoved => AllMoved'
<1>1. CASE TransferDone(g)
  BY <1>1, TransferMoves
<1>2. CASE missed' = missed
  BY <1>2, ExecutorFacts DEF AllMoved, TypeOK
<1>3. QED
  BY <1>1, <1>2, ExecutorFacts

(* The step keeps what is known of the guardian's own page: what the scan  *)
(* found is moved before the record is sent.                               *)
LEMMA OwnPageKeeps ==
    ASSUME TypeOK, IInv, NEW g \in Guardians, ExecutorStep(g)
    PROVE  ExecutorInv(g)'
<1> DEFINE e == exec[g]
<1>1. /\ vault' = vault /\ recorded' = recorded
      /\ recorded \subseteq Utxos
      /\ AllMoved => AllMoved'
  BY ExecutorFacts, ExecutorMoves DEF TypeOK
<1>2. g \in Pages /\ ExecutorInv(g) /\ e \in Executors
  BY DEF Pages, IInv, TypeOK
<1>3. ASSUME NEW x, Set(g, x)
      PROVE  exec'[g] = x
  BY <1>3 DEF Set, TypeOK
<1>4. CASE Mount(g)
  <2>1. exec'[g] = [Hidden EXCEPT !.step = "prereqs"] /\ call' = call
    BY <1>3, <1>4 DEF Mount, sending
  <2>2. exec'[g].phase = "none" /\ exec'[g].step = "prereqs"
    BY <2>1 DEF Hidden
  <2>3. vault.status # "open" /\ call[g].at = "idle"
    BY <1>2, <1>4 DEF Mount, MayOpen, ShownClaimable, Hidden, ExecutorInv
  <2>4. QED
    BY <1>1, <2>1, <2>2, <2>3 DEF ExecutorInv
<1>5. CASE EnterShares(g) \/ BackToPrereqs(g) \/ ToConfirm(g) \/ BackToShares(g)
  <2>1. /\ e.step \notin {"hidden", "done"} /\ call' = call /\ pool' = pool
        /\ exec'[g].step \notin {"hidden", "done"}
        /\ exec'[g].phase = e.phase /\ exec'[g].found = e.found
    BY <1>2, <1>3, <1>5 DEF EnterShares, BackToPrereqs, ToConfirm, BackToShares, Turn,
       sending, Executors
  <2>2. QED
    BY <1>1, <1>2, <2>1 DEF ExecutorInv
<1>6. CASE handleExecute(g)
  <2>1. /\ e.step = "confirm" /\ e.phase = "none" /\ call' = call
        /\ exec'[g].step = "executing" /\ exec'[g].phase = "scanning"
    BY <1>2, <1>3, <1>6 DEF handleExecute, sending, Executors
  <2>2. QED
    BY <1>1, <1>2, <2>1 DEF ExecutorInv
<1>7. CASE ScanDone(g)
  <2>0. PICK found \in Scans \ {{}} : Set(g, [e EXCEPT !.phase = "proving", !.found = found])
    BY <1>7 DEF ScanDone
  <2>1. e.phase = "scanning" /\ call' = call /\ found # {}
    BY <1>7, <2>0 DEF ScanDone, sending
  <2>2. /\ exec'[g].step = e.step /\ exec'[g].phase = "proving"
        /\ exec'[g].found = found
    BY <1>2, <1>3, <2>0 DEF Executors
  <2>3. QED
    BY <1>1, <1>2, <2>1, <2>2 DEF ExecutorInv
<1>8. ASSUME Failed(g), call'[g].at = "idle", e.phase # "none"
      PROVE  ExecutorInv(g)'
  <2>1. /\ exec'[g].phase = "none"
        /\ exec'[g].step = "done" => e.step = "done"
    BY <1>2, <1>3, <1>8 DEF Failed, Executors
  <2>2. QED
    BY <1>1, <1>2, <1>8, <2>1 DEF ExecutorInv
<1>9. CASE ScanFails(g) \/ TransferFails(g)
  BY <1>2, <1>8, <1>9 DEF ScanFails, TransferFails, ExecutorInv, sending
<1>10. CASE TransferDone(g)
  <2>1. e.phase = "proving" /\ Moved(g) /\ Begin(g, RecordClaim)
    BY <1>10 DEF TransferDone, Moved
  <2>2. exec'[g].step = e.step /\ exec'[g].phase = "recording"
    BY <1>2, <1>3, <1>10 DEF TransferDone, Executors
  <2>3. AllMoved'
    BY <1>10, TransferMoves
  <2>4. call'[g] = [at |-> "build", attempt |-> 1, ix |-> RecordClaim]
    BY <1>2, <2>1 DEF Begin, TypeOK
  <2>5. QED
    BY <1>1, <1>2, <2>1, <2>2, <2>3, <2>4 DEF ExecutorInv
<1>11. CASE ClaimRecorded(g)
  <2>1. /\ e.phase = "recording" /\ call[g].at = "returned"
        /\ call' = [call EXCEPT ![g] = NoCall]
    BY <1>11 DEF ClaimRecorded, Settled, At
  <2>2. exec'[g].phase = "none"
    BY <1>2, <1>3, <1>11 DEF ClaimRecorded, Executors
  <2>3. vault.status = "closed"
    BY <1>2, <2>1 DEF ExecutorInv
  <2>4. call'[g].at = "idle"
    BY <1>2, <2>1 DEF NoCall, TypeOK
  <2>5. QED
    BY <1>1, <2>2, <2>3, <2>4 DEF ExecutorInv
<1>12. CASE ClaimThrew(g)
  <2>1. e.phase = "recording" /\ Failed(g) /\ call' = [call EXCEPT ![g] = NoCall]
    BY <1>12 DEF ClaimThrew, Settled
  <2>2. call'[g].at = "idle"
    BY <1>2, <2>1 DEF NoCall, TypeOK
  <2>3. QED
    BY <1>8, <2>1, <2>2
<1>13. CASE Unmount(g)
  <2>1. /\ call' = call /\ pool' = pool /\ exec'[g].step = "hidden"
        /\ exec'[g].phase = e.phase
        /\ e.phase # "none" => exec'[g].found = e.found
    BY <1>2, <1>3, <1>13 DEF Unmount, Hidden, Executors, sending
  <2>2. QED
    BY <1>1, <1>2, <2>1 DEF ExecutorInv
<1>14. CASE GuardianCloses(g)
  <2>1. exec'[g] = Hidden /\ call' = [call EXCEPT ![g] = NoCall]
    BY <1>3, <1>14 DEF GuardianCloses, Forget
  <2>2. call'[g].at = "idle"
    BY <1>2, <2>1 DEF NoCall, TypeOK
  <2>3. QED
    BY <2>1, <2>2 DEF ExecutorInv, Hidden
<1>15. QED
  BY <1>4, <1>5, <1>6, <1>7, <1>9, <1>10, <1>11, <1>12, <1>13, <1>14 DEF ExecutorStep

LEMMA ExecutorKeeps ==
    ASSUME TypeOK, IInv, NEW g \in Guardians, ExecutorStep(g)
    PROVE  IInv'
<1>1. /\ vault' = vault /\ recorded' = recorded /\ deposit' = deposit
      /\ recorded \subseteq Utxos
      /\ AllMoved => AllMoved'
  BY ExecutorFacts, ExecutorMoves DEF TypeOK
<1>2. "owner" \in Pages \ {g} /\ \A h \in Guardians : h \in Pages
  BY SettlementAssumption DEF Pages
<1>3. call'["owner"] = call["owner"]
  BY <1>2, ExecutorFacts
<1>4. RecordsAreShielded'
  <2>1. \A u \in Utxos : adrift'[RecordDeposit(u)] = adrift[RecordDeposit(u)]
    BY ExecutorFacts, InstructionFacts
  <2>2. QED
    BY <1>1, <2>1, ExecutorFacts DEF IInv, RecordsAreShielded
<1>5. DepositInv'
  BY <1>1, <1>3, ExecutorFacts DEF IInv, DepositInv
<1>6. ASSUME NEW h \in Guardians, h # g
      PROVE  ExecutorInv(h)'
  <2>1. exec'[h] = exec[h] /\ call'[h] = call[h]
    BY <1>2, <1>6, ExecutorFacts
  <2>2. QED
    BY <1>1, <2>1 DEF IInv, ExecutorInv
<1>7. \A h \in Guardians : ExecutorInv(h)'
  BY <1>6, OwnPageKeeps
<1>8. ClaimAdriftInv'
  <2>1. CASE exec[g].phase = "recording"
    BY <1>1, <2>1 DEF IInv, ExecutorInv, ClaimAdriftInv
  <2>2. CASE exec[g].phase # "recording"
    <3>1. adrift'[RecordClaim] = adrift[RecordClaim]
      BY <2>2, ExecutorFacts, InstructionFacts
    <3>2. QED
      BY <1>1, <3>1 DEF IInv, ClaimAdriftInv
  <2>3. QED
    BY <2>1, <2>2
<1>9. QED
  BY <1>1, <1>4, <1>5, <1>7, <1>8 DEF IInv

(* The desktop app can only move more of what is in the pool.              *)
LEMMA DeskKeeps ==
    ASSUME TypeOK, IInv, NEW g \in Guardians, DeskStep(g)
    PROVE  IInv'
<1>1. UNCHANGED <<call, adrift, vault, recorded, missed, deposit, exec>>
  BY DeskFacts
<1>2. /\ \A u \in Utxos : pool[u] = "moved" => pool'[u] = "moved"
      /\ \A u \in Utxos : pool[u] # "none" => pool'[u] # "none"
  BY DeskFacts DEF Transfer, TypeOK
<1>3. recorded \subseteq Utxos /\ (AllMoved => AllMoved')
  BY <1>1, <1>2 DEF AllMoved, TypeOK
<1>4. RecordsAreShielded' /\ DepositInv'
  BY <1>1, <1>2, <1>3 DEF IInv, RecordsAreShielded, DepositInv
<1>5. ASSUME NEW h \in Guardians
      PROVE  ExecutorInv(h)'
  BY <1>1, <1>2, <1>3 DEF IInv, ExecutorInv
<1>6. ClaimAdriftInv'
  BY <1>1, <1>3 DEF IInv, ClaimAdriftInv
<1>7. QED
  BY <1>1, <1>3, <1>4, <1>5, <1>6 DEF IInv

-----------------------------------------------------------------------------
LEMMA InitInv ==
    ASSUME Init
    PROVE  IInv
<1>1. "owner" \in Pages /\ \A g \in Guardians : g \in Pages
  BY DEF Pages
<1>2. \A c \in Pages : call[c].at = "idle"
  BY SettlementAssumption DEF Init, SendingInit, NoCall
<1>3. \A i \in SentInstructions : adrift[i] = 0
  BY SettlementAssumption DEF Init, SendingInit
<1>4. RecordsAreShielded /\ ClaimAdriftInv
  BY <1>3, InstructionFacts DEF Init, RecordsAreShielded, ClaimAdriftInv
<1>5. DepositInv
  BY <1>1, <1>2 DEF Init, DepositInv
<1>6. \A g \in Guardians : ExecutorInv(g)
  BY <1>1, <1>2 DEF Init, Hidden, ExecutorInv
<1>7. QED
  BY <1>4, <1>5, <1>6 DEF Init, IInv

LEMMA StepInv ==
    ASSUME TypeOK, IInv, [Next]_vars
    PROVE  IInv'
<1>1. CASE UNCHANGED vars
  BY <1>1 DEF vars, IInv, RecordsAreShielded, DepositInv, ExecutorInv, ClaimAdriftInv, AllMoved
<1>2. CASE Trigger
  BY <1>2, OutsiderKeeps DEF Trigger, pages
<1>3. ASSUME NEW c \in Pages, Client(c) \/ Lands(c)
      PROVE  IInv'
  BY <1>3, ClientKeeps, LandsKeeps
<1>4. ASSUME NEW i \in SentInstructions, DriftsIn(i) \/ DriftsOff(i)
      PROVE  IInv'
  BY <1>4, DriftsKeeps
<1>5. CASE DepositStep
  BY <1>5, DepositKeeps
<1>6. ASSUME NEW g \in Guardians, ExecutorStep(g) \/ DeskStep(g)
      PROVE  IInv'
  BY <1>6, ExecutorKeeps, DeskKeeps
<1>7. CASE HeirStep
  BY <1>7, OutsiderKeeps DEF HeirStep, handleTrigger, handleClaim, HeirSends, pages, sending
<1>8. QED
  BY <1>1, <1>2, <1>3, <1>4, <1>5, <1>6, <1>7 DEF Next

(* What was transferred stays so, whoever moves next.                      *)
LEMMA MovedStays ==
    ASSUME TypeOK, IInv, [Next]_vars
    PROVE  \A u \in Utxos : pool[u] = "moved" => pool'[u] = "moved"
<1>1. ASSUME NEW v \in Utxos, TakenByPool(v)
      PROVE  \A u \in Utxos : pool[u] = "moved" => pool'[u] = "moved"
  BY <1>1 DEF TakenByPool, Unused, TypeOK
<1>2. CASE DepositStep
  BY <1>1, <1>2 DEF DepositStep, handleShield, ShieldDone, ShieldFails, DepositRecorded,
     RecordThrew, Complete, OwnerCloses
<1>3. ASSUME NEW g \in Guardians, ExecutorStep(g)
      PROVE  \A u \in Utxos : pool[u] = "moved" => pool'[u] = "moved"
  BY <1>3, ExecutorFacts
<1>4. ASSUME NEW g \in Guardians, DeskStep(g)
      PROVE  \A u \in Utxos : pool[u] = "moved" => pool'[u] = "moved"
  BY <1>4, DeskFacts DEF Transfer, TypeOK
<1>5. CASE pool' = pool
  BY <1>5
<1>6. QED
  BY <1>2, <1>3, <1>4, <1>5 DEF Next, vars, Trigger, Client, Lands, DriftsIn, DriftsOff,
     pages, HeirStep, handleTrigger, handleClaim, HeirSends

(* What a screen of the desktop app shows as executed was moved.           *)
DeskInv(g) == desk[g].phase = "done" => \A u \in desk[g].found : pool[u] = "moved"

LEMMA DeskInvKept ==
    ASSUME TypeOK, IInv, [Next]_vars, NEW g \in Guardians, DeskInv(g)
    PROVE  DeskInv(g)'
<1>1. desk[g] \in Desks
  BY DEF TypeOK
<1>2. CASE desk'[g] = desk[g]
  BY <1>1, <1>2, MovedStays DEF DeskInv, Desks
<1>3. CASE \E h \in Guardians \ {g} : DeskStep(h)
  <2>1. desk'[g] = desk[g]
    BY <1>3, DeskFacts DEF TypeOK
  <2>2. QED
    BY <1>2, <2>1
<1>4. CASE DeskStep(g)
  <2>1. CASE TransferReplied(g)
    <3>1. desk'[g].found = desk[g].found /\ Transfer(desk[g].found)
      BY <2>1 DEF TransferReplied, Show, TypeOK
    <3>2. QED
      BY <1>1, <3>1 DEF DeskInv, Transfer, Desks
  <2>2. CASE ~TransferReplied(g)
    <3>1. desk'[g].phase # "done"
      BY <1>4, <2>2 DEF DeskStep, OpenSignCovenant, DeskScans, DeskScanned, BackToEntry,
         executeTransfer, ServiceFails, TryAgain, Leave, DeskCloses, Turns, Show, TypeOK
    <3>2. QED
      BY <3>1 DEF DeskInv
  <2>3. QED
    BY <2>1, <2>2
<1>5. CASE \A h \in Guardians : ~DeskStep(h)
  <2>1. desk' = desk
    BY <1>5 DEF Next, vars, Trigger, Client, Lands, DriftsIn, DriftsOff, pages,
       HeirStep, handleTrigger, handleClaim, HeirSends,
       DepositStep, handleShield, ShieldDone, ShieldFails, DepositRecorded, RecordThrew,
       Complete, OwnerCloses, DepositOnly, ExecutorStep, Mount, EnterShares, BackToPrereqs,
       ToConfirm, BackToShares, Turn, handleExecute, ScanDone, ScanFails, TransferDone,
       TransferFails, ClaimRecorded, ClaimThrew, Unmount, GuardianCloses, ExecOnly
  <2>2. QED
    BY <1>2, <2>1
<1>6. QED
  BY <1>3, <1>4, <1>5

Safe == TypeOK /\ IInv /\ \A g \in Guardians : DeskInv(g)

LEMMA Inductive == Spec => []Safe
<1>1. Init => Safe
  BY InitType, InitInv DEF Safe, Init, Away, DeskInv
<1>2. Safe /\ [Next]_vars => Safe'
  BY StepType, StepInv, DeskInvKept DEF Safe
<1>3. QED
  BY <1>1, <1>2, PTL DEF Spec

(* Whoever closes the vault, and whatever was lost or sent twice, every    *)
(* deposit it recorded has been transferred, save those that the scan      *)
(* behind a claim did not show, and if it recorded any, something was.     *)
THEOREM ClosedMeansAllMoved == Spec => []ClosedMeansMoved
<1>1. Safe => ClosedMeansMoved
  BY DEF Safe, IInv, AllMoved, ClosedMeansMoved
<1>2. QED
  BY <1>1, Inductive, PTL

(* What a page shows as done has been executed by the program.             *)
THEOREM DoneIsExecuted == Spec => []SuccessMeansLanded
<1>1. Safe => SuccessMeansLanded
  BY DEF Safe, IInv, DepositInv, ExecutorInv, DeskInv, SuccessMeansLanded
<1>2. QED
  BY <1>1, Inductive, PTL
=============================================================================
