---------------------------- MODULE BeneficiaryKey ----------------------------
(***************************************************************************)
(* A beneficiary's key from the form that makes it (BeneficiarySetup) to   *)
(* the page that uses it (BeneficiaryClaim).  In between lie the months of *)
(* silence after which a guardian's transfer puts funds into the pool for  *)
(* the key registered in a vault; the form is closed by then.              *)
(***************************************************************************)
EXTENDS BeneficiarySetup, BeneficiaryClaim

vars == <<setup_vars, claim_vars>>

TypeOK == SetupTypeOK /\ ClaimTypeOK

Init == SetupInit /\ ClaimInit

Registered == {k \in Keys : \E i \in Indices : vaults[i] # None /\ vaults[i].heir = k}

\* Executed by a guardian for one vault; the pool pays its heir.
Inherit(k) ==
    /\ ~open /\ creating = {} /\ late = {}
    /\ pool \cup wallet = {}
    /\ k \in Registered
    /\ pool' = {k}
    /\ UNCHANGED <<setup_vars, step, identity, utxos, calls, wallet>>

SetupStep == pool \cup wallet = {} /\ SetupNext /\ UNCHANGED claim_vars

ClaimStep == pool \cup wallet # {} /\ ClaimNext(delivered) /\ UNCHANGED setup_vars

Next ==
    \/ SetupStep
    \/ \E k \in Keys : Inherit(k)
    \/ ClaimStep

\* Promises settle: decryption, RPC and relay calls return or fail.
Fairness == \A c \in Calls : WF_vars(Settles(c) /\ UNCHANGED setup_vars)

Spec == Init /\ [][Next]_vars /\ Fairness

-----------------------------------------------------------------------------

\* No vault is ever registered for a key that its beneficiary cannot bring back:
\* a backup that was made of the live key has been handed out.  Where the backup
\* went through the clipboard, it opens with the very password the form showed
\* when the key was confirmed.  The key is lost otherwise, and with it the estate.
RegisteredKeyIsBackedUp ==
    \A k \in Registered :
        \E b \in delivered :
            /\ b.key = k /\ b.whole
            /\ browser = "restricted" => b.password = confirmed_with[k]

\* CreateVaultModal.tsx:344-347 on Standard mode: "Balance and beneficiary visible
\* on block explorers": the vault's beneficiary is the address typed in.
StandardPaysTheAddress ==
    \A i \in Indices : vaults[i] # None => vaults[i].heir = vaults[i].wanted
=============================================================================
