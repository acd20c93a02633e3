----------------------------- MODULE Settlement -----------------------------
(* Shielded money from the owner's deposit to the heir: ShieldedDepositFlow    *)
(* (shield in Cloak's pool, then record_cloak_deposit), InheritanceExecutor    *)
(* (scan, transfer in the pool, then record_cloak_claim) in the browsers of    *)
(* several guardians, the guardians' desktop app (the SignCovenant screen,     *)
(* whose signing service transfers in the pool and records nothing), and the   *)
(* heir's claim page.  The two halves of each flow live in two systems and     *)
(* everything in between may fail.                                             *)
EXTENDS Sending, FiniteSets, TLC

CONSTANTS Guardians,   \* executors: a guardian's page each
          MaxUtxos     \* bound on the deposits shielded

Utxos == 1..MaxUtxos

\* Who awaits a call, and the instructions sent.
Pages == {"owner"} \cup Guardians

RecordDeposit(u) == <<"record_cloak_deposit", u>>
RecordClaim == <<"record_cloak_claim", 0>>
ClaimIx == <<"claim_inheritance", 0>>
TriggerIx == <<"trigger_inheritance", 0>>

SentInstructions == {RecordDeposit(u) : u \in Utxos} \cup {RecordClaim}

ASSUME SettlementAssumption ==
    /\ Callers = Pages
    /\ Instructions = SentInstructions
    /\ NoIx \notin SentInstructions
    /\ "owner" \notin Guardians
    /\ MaxUtxos \in Nat

VARIABLES
    vault,      \* the vault account; one deposit counts 1
    pool,       \* the owner's UTXOs in Cloak's pool
    deposit,    \* ShieldedDepositFlow: step, and the UTXO being recorded
    exec,       \* InheritanceExecutor per guardian
    desk,       \* the desktop app's SignCovenant screen per guardian
    recorded,   \* history: the UTXOs whose record was executed
    missed      \* history: those of them that a transfer to claim left, not shown by its scan

vars == <<call, adrift, vault, pool, deposit, exec, desk, recorded, missed>>

\* The shares typed into a page are not part of its state: the transfer and the
\* scan that read them are those of the right shares, of wrong ones, or fail.
Executors == [step : {"hidden", "prereqs", "shares", "confirm", "executing", "done"},
              phase : {"none", "scanning", "proving", "recording"},
              found : SUBSET Utxos]

Hidden == [step |-> "hidden", phase |-> "none", found |-> {}]

Desks == [phase : {"away", "entry", "scanning", "confirm", "executing", "done", "error"},
          found : SUBSET Utxos]

Away == [phase |-> "away", found |-> {}]

Init ==
    /\ SendingInit
    /\ vault = [status |-> "open", utxo_commitment |-> 0, deposited_lamports |-> 0]
    /\ pool = [u \in Utxos |-> "none"]
    /\ deposit = [step |-> "amount", utxo |-> 0]
    /\ exec = [g \in Guardians |-> Hidden]
    /\ desk = [g \in Guardians |-> Away]
    /\ recorded = {} /\ missed = {}

-----------------------------------------------------------------------------
(* The program *)

Shielded == vault.utxo_commitment # 0

Accepts(i) ==
    \/ i[1] = "record_cloak_deposit" /\ vault.status = "open"
    \/ i = TriggerIx /\ vault.status = "open"
    \/ i = RecordClaim /\ vault.status = "triggered" /\ Shielded
    \/ i = ClaimIx /\ vault.status = "triggered" /\ ~Shielded

Execute(i) ==
    IF ~Accepts(i) THEN UNCHANGED <<vault, recorded>>
    ELSE IF i[1] = "record_cloak_deposit"
      THEN /\ vault' = [vault EXCEPT !.utxo_commitment = i[2],
                                     !.deposited_lamports = @ + 1]
           /\ recorded' = recorded \cup {i[2]}
      ELSE /\ vault' = [vault EXCEPT !.status = IF i = TriggerIx THEN "triggered" ELSE "closed"]
           /\ UNCHANGED recorded

pages == <<pool, deposit, exec, desk, missed>>

\* The relayer, a guardian or anybody else triggers; the deadline may have passed any time.
Trigger == /\ Accepts(TriggerIx)
           /\ Execute(TriggerIx)
           /\ UNCHANGED <<call, adrift, pages>>

Client(c) == /\ ClientStep(c, At(c, "send") /\ Accepts(call[c].ix))
             /\ UNCHANGED <<vault, recorded, pages>>

Lands(c) == /\ At(c, "confirm")
            /\ Executed(c, Accepts(call[c].ix))
            /\ Execute(call[c].ix)
            /\ UNCHANGED pages

DriftsIn(i) == /\ AdriftEnds(i)
               /\ Execute(i)
               /\ UNCHANGED pages

DriftsOff(i) == /\ AdriftEnds(i)
                /\ UNCHANGED <<vault, recorded, pages>>

-----------------------------------------------------------------------------
(* ShieldedDepositFlow *)

Unused == {u \in Utxos : pool[u] = "none"}

DepositOnly == UNCHANGED <<vault, recorded, missed, exec, desk>>

handleShield ==
    /\ deposit.step = "amount"
    /\ Unused # {}
    /\ deposit' = [step |-> "shielding", utxo |-> 0]
    /\ UNCHANGED <<sending, pool>>
    /\ DepositOnly

TakenByPool(u) == /\ u \in Unused
                  /\ \A v \in Unused : u <= v
                  /\ pool' = [pool EXCEPT ![u] = "unspent"]

\* depositToShieldedVault returned the commitment.
ShieldDone ==
    /\ deposit.step = "shielding"
    /\ \E u \in Utxos :
          /\ TakenByPool(u)
          /\ deposit' = [step |-> "recording", utxo |-> u]
          /\ Begin("owner", RecordDeposit(u))
    /\ DepositOnly

\* transact threw: before the pool took the deposit, or after it.
ShieldFails ==
    /\ deposit.step = "shielding"
    /\ \/ UNCHANGED pool
       \/ \E u \in Utxos : TakenByPool(u)
    /\ deposit' = [step |-> "amount", utxo |-> 0]
    /\ UNCHANGED sending
    /\ DepositOnly

DepositRecorded ==
    /\ deposit.step = "recording"
    /\ Settled("owner", "returned")
    /\ deposit' = [deposit EXCEPT !.step = "done"]
    /\ UNCHANGED pool
    /\ DepositOnly

RecordThrew ==
    /\ deposit.step = "recording"
    /\ Settled("owner", "threw")
    /\ deposit' = [step |-> "amount", utxo |-> 0]
    /\ UNCHANGED pool
    /\ DepositOnly

\* Done, and the flow is opened for the next deposit.
Complete ==
    /\ deposit.step = "done"
    /\ deposit' = [step |-> "amount", utxo |-> 0]
    /\ UNCHANGED <<sending, pool>>
    /\ DepositOnly

\* The owner's page is closed; a deposit under way may reach the pool all the same.
OwnerCloses ==
    /\ deposit.step \in {"shielding", "recording"}
    /\ Forget("owner")
    /\ \/ UNCHANGED pool
       \/ deposit.step = "shielding" /\ \E u \in Utxos : TakenByPool(u)
    /\ deposit' = [step |-> "amount", utxo |-> 0]
    /\ DepositOnly

-----------------------------------------------------------------------------
(* InheritanceExecutor *)

ExecOnly == UNCHANGED <<vault, recorded, missed, deposit, desk>>

Set(g, e) == exec' = [exec EXCEPT ![g] = e]

\* Bound: a guardian works in one of the web app and the desktop app at a time.
MayOpen(g) == exec[g] = Hidden /\ desk[g] = Away

\* What the page shows is its copy of the vault, seconds old: it may still say
\* "triggered" of a vault that is closed by now, and say "open" of a triggered one.
ShownClaimable == vault.status # "open" /\ Shielded

Mount(g) ==
    /\ MayOpen(g)
    /\ ShownClaimable
    /\ Set(g, [Hidden EXCEPT !.step = "prereqs"])
    /\ UNCHANGED <<sending, pool>>
    /\ ExecOnly

\* Continue and Back between the forms.
Turn(g, from, to) ==
    /\ exec[g].step = from
    /\ Set(g, [exec[g] EXCEPT !.step = to])
    /\ UNCHANGED <<sending, pool>>
    /\ ExecOnly

EnterShares(g) == ShownClaimable /\ Turn(g, "prereqs", "shares")
BackToPrereqs(g) == Turn(g, "shares", "prereqs")
\* As many shares as the threshold asks for, and each well formed.
ToConfirm(g) == Turn(g, "shares", "confirm")
BackToShares(g) == Turn(g, "confirm", "shares")

handleExecute(g) ==
    /\ exec[g].step = "confirm"
    /\ exec[g].phase = "none"
    /\ Set(g, [exec[g] EXCEPT !.step = "executing", !.phase = "scanning"])
    /\ UNCHANGED <<sending, pool>>
    /\ ExecOnly

\* scanOwnerUtxos: of what the key of the right shares owns, all that is found
\* within the limit of the scan; nothing for the key of wrong shares.
Scans == SUBSET {u \in Utxos : pool[u] = "unspent"}

ScanDone(g) ==
    /\ exec[g].phase = "scanning"
    /\ \E found \in Scans \ {{}} :
          Set(g, [exec[g] EXCEPT !.phase = "proving", !.found = found])
    /\ UNCHANGED <<sending, pool>>
    /\ ExecOnly

\* The catch: back to the confirmation, if the component is still there.
Failed(g) == Set(g, [exec[g] EXCEPT !.step = IF @ = "executing" THEN "confirm" ELSE @,
                                    !.phase = "none", !.found = {}])

\* Slip: an empty scan is taken for a transfer already made.
ScanEmptyRecords(g) ==
    /\ exec[g].phase = "scanning"
    /\ Set(g, [exec[g] EXCEPT !.phase = "recording"])
    /\ Begin(g, RecordClaim)
    /\ UNCHANGED pool
    /\ ExecOnly

\* "No unspent UTXOs found", or the scan itself failed.
ScanFails(g) ==
    /\ exec[g].phase = "scanning"
    /\ Failed(g)
    /\ UNCHANGED <<sending, pool>>
    /\ ExecOnly

\* The pool takes a transfer once: the nullifier of a spent UTXO is refused.
Transfer(found) == /\ \A u \in found : pool[u] = "unspent"
                   /\ pool' = [u \in Utxos |-> IF u \in found THEN "moved" ELSE pool[u]]

Moved(g) == exec[g].phase = "proving" /\ Transfer(exec[g].found)

\* reconstructAndTransfer returned; the claim is recorded next.
TransferDone(g) ==
    /\ Moved(g)
    /\ Set(g, [exec[g] EXCEPT !.phase = "recording", !.found = {}])
    /\ Begin(g, RecordClaim)
    /\ missed' = {u \in recorded \ exec[g].found : pool[u] = "unspent"}
    /\ UNCHANGED <<vault, recorded, deposit, desk>>

TransferFails(g) ==
    /\ exec[g].phase = "proving"
    /\ UNCHANGED pool \/ Moved(g)
    /\ Failed(g)
    /\ UNCHANGED sending
    /\ ExecOnly

ClaimRecorded(g) ==
    /\ exec[g].phase = "recording"
    /\ Settled(g, "returned")
    /\ Set(g, [exec[g] EXCEPT !.step = IF @ = "executing" THEN "done" ELSE @,
                              !.phase = "none"])
    /\ UNCHANGED pool
    /\ ExecOnly

ClaimThrew(g) ==
    /\ exec[g].phase = "recording"
    /\ Settled(g, "threw")
    /\ Failed(g)
    /\ UNCHANGED pool
    /\ ExecOnly

\* The page learns that the vault is gone, or the guardian goes elsewhere in the
\* app: the component goes, a handler under way runs on.
Unmount(g) ==
    /\ exec[g].step # "hidden"
    /\ Set(g, IF exec[g].phase = "none" THEN Hidden ELSE [exec[g] EXCEPT !.step = "hidden"])
    /\ UNCHANGED <<sending, pool>>
    /\ ExecOnly

\* The tab is closed; a transfer under way may reach the pool all the same.
GuardianCloses(g) ==
    /\ exec[g].phase # "none"
    /\ Forget(g)
    /\ Set(g, Hidden)
    /\ UNCHANGED pool \/ Moved(g)
    /\ ExecOnly

-----------------------------------------------------------------------------
(* SignCovenant, in the desktop app, and its signing service.  The screen asks *)
(* nothing of the vault, neither that it was triggered nor that it is shielded,*)
(* and sends nothing to the program.                                           *)

DeskOnly == UNCHANGED <<sending, vault, recorded, missed, deposit, exec>>

\* The screen goes from one phase to another, showing what a scan found.
Show(g, from, to, found) ==
    /\ desk[g].phase \in from
    /\ desk' = [desk EXCEPT ![g] = [phase |-> to, found |-> found]]
    /\ DeskOnly

Turns(g, from, to, found) == Show(g, from, to, found) /\ UNCHANGED pool

OpenSignCovenant(g) == exec[g] = Hidden /\ Turns(g, {"away"}, "entry", {})

DeskScans(g) == Turns(g, {"entry"}, "scanning", {})

\* What the service's scan shows, an empty list too, is confirmed.
DeskScanned(g) ==
    \E found \in Scans : Turns(g, {"scanning"}, "confirm", found)

BackToEntry(g) == Turns(g, {"confirm"}, "entry", {})

executeTransfer(g) == Turns(g, {"confirm"}, "executing", desk[g].found)

TransferReplied(g) ==
    /\ Show(g, {"executing"}, "done", desk[g].found)
    /\ Transfer(desk[g].found)

\* The service answers 500, or not at all, and the transfer may have landed.
ServiceFails(g) ==
    /\ Show(g, {"scanning", "executing"}, "error", {})
    /\ \/ UNCHANGED pool
       \/ desk[g].phase = "executing" /\ Transfer(desk[g].found)

TryAgain(g) == Turns(g, {"error"}, "entry", {})

\* Back to the risk brief, or to the dashboard.
Leave(g) == Turns(g, {"entry", "confirm", "done", "error"}, "away", {})

\* The app is closed under the overlay.
DeskCloses(g) ==
    /\ Show(g, {"scanning", "executing"}, "away", {})
    /\ \/ UNCHANGED pool
       \/ desk[g].phase = "executing" /\ Transfer(desk[g].found)

-----------------------------------------------------------------------------
(* The claim page *)

\* The page offers what its copy of the vault says, and the program decides: of what
\* an old copy offers, only what one loaded now would offer is executed, so that the
\* copy is no state here.  The page awaits its call only to report its end, and what
\* it sends is executed now or later or not: the action is the execution.
HeirSends(i) == /\ Accepts(i)
                /\ Execute(i)
                /\ UNCHANGED <<sending, pages>>

handleTrigger == HeirSends(TriggerIx)
handleClaim == HeirSends(ClaimIx)

-----------------------------------------------------------------------------
DepositStep == handleShield \/ ShieldDone \/ ShieldFails \/ DepositRecorded
               \/ RecordThrew \/ Complete \/ OwnerCloses

ExecutorStep(g) ==
    \/ Mount(g) \/ EnterShares(g) \/ BackToPrereqs(g) \/ ToConfirm(g) \/ BackToShares(g)
    \/ handleExecute(g) \/ ScanDone(g) \/ ScanFails(g)
    \/ TransferDone(g) \/ TransferFails(g) \/ ClaimRecorded(g) \/ ClaimThrew(g)
    \/ Unmount(g) \/ GuardianCloses(g)

DeskStep(g) ==
    \/ OpenSignCovenant(g) \/ DeskScans(g) \/ DeskScanned(g) \/ BackToEntry(g)
    \/ executeTransfer(g) \/ TransferReplied(g) \/ ServiceFails(g) \/ TryAgain(g)
    \/ Leave(g) \/ DeskCloses(g)

HeirStep == handleTrigger \/ handleClaim

Next ==
    \/ Trigger
    \/ \E c \in Pages : Client(c) \/ Lands(c)
    \/ \E i \in SentInstructions : DriftsIn(i) \/ DriftsOff(i)
    \/ DepositStep
    \/ \E g \in Guardians : ExecutorStep(g) \/ DeskStep(g)
    \/ HeirStep

Spec == Init /\ [][Next]_vars

\* The guardians' pages differ in nothing.
Symmetry == Permutations(Guardians)

-----------------------------------------------------------------------------
TypeOK ==
    /\ call \in [Pages -> Calls]
    /\ adrift \in [SentInstructions -> Nat]
    /\ vault \in [status : {"open", "triggered", "closed"},
                  utxo_commitment : 0..MaxUtxos, deposited_lamports : Nat]
    /\ pool \in [Utxos -> {"none", "unspent", "moved"}]
    /\ deposit \in [step : {"amount", "shielding", "recording", "done"}, utxo : 0..MaxUtxos]
    /\ exec \in [Guardians -> Executors]
    /\ desk \in [Guardians -> Desks]
    /\ recorded \subseteq Utxos /\ missed \subseteq Utxos

\* What a page shows as done is done: the deposit shown as recorded was recorded,
\* behind a guardian's "Private Inheritance Complete" the vault is closed, and what
\* the desktop app has "executed successfully" is no longer the owner's.
\* (sendAndConfirmLegacyTx returns only what the chain executed without error, the
\* bridge only what the signing service answered with success.)
SuccessMeansLanded ==
    /\ deposit.step = "done" => deposit.utxo \in recorded
    /\ \A g \in Guardians :
          /\ exec[g].step = "done" => vault.status = "closed"
          /\ desk[g].phase = "done" => \A u \in desk[g].found : pool[u] = "moved"

\* A vault is not closed over money its guardians have seen: when it is gone, every
\* UTXO whose deposit was recorded has been transferred, except those that the scan
\* behind a claim had left out, and something was transferred if any deposit was
\* recorded - whoever closed it and whatever was lost, refused or sent twice on the
\* way.  (record_cloak_claim does not look at the pool; only the order of handleExecute
\* does.  What a scan leaves out is left behind: handleExecute refuses only an empty one.)
ClosedMeansMoved ==
    vault.status = "closed" =>
        /\ \A u \in recorded \ missed : pool[u] = "moved"
        /\ recorded # {} => \E u \in Utxos : pool[u] = "moved"

\* Violated: what the vault counts as shielded has been shielded.
\* ("Total lamports declared as shielded [...] The SOL itself resides in Cloak's
\* shielded pool", programs/legacy_vault/src/state/vault.rs:65-67.)
DeclaredIsShielded ==
    vault.deposited_lamports <= Cardinality({u \in Utxos : pool[u] # "none"})
=============================================================================
