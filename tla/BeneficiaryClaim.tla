--------------------------- MODULE BeneficiaryClaim ---------------------------
(***************************************************************************)
(* The claim page: BeneficiaryClaim imports the beneficiary's identity,    *)
(* scans the shielded pool, withdraws, and offers a compliance proof.      *)
(*                                                                         *)
(* What the component shows is step; the private key is in a ref.  The     *)
(* import screen stays usable while a backup is being decrypted, so that   *)
(* two imports may overlap, and each one's scan sets the step when it ends.*)
(* The pool itself is external: the funds of a key are there or spent.     *)
(***************************************************************************)
EXTENDS BeneficiaryIdentity, FiniteSets

CONSTANT Calls          \* asynchronous handlers that may be under way at once

VARIABLES
    step,
    identity,           \* identityRef.current
    utxos,              \* the key the listed outputs belong to, or None
    calls,
    pool,               \* keys with unspent outputs in the pool
    wallet              \* keys whose outputs have been paid out

claim_vars == <<step, identity, utxos, calls, pool, wallet>>

Idle == [kind |-> "none", identity |-> None]

CallRecord ==
    [ kind : {"none", "import", "scan", "withdraw", "paid", "proof"},
      identity : Identity \cup {None} ]

Steps == {"import", "scanning", "withdraw", "withdrawing", "proof", "done"}

ClaimTypeOK ==
    /\ step \in Steps
    /\ identity \in Identity \cup {None}
    /\ utxos \in Keys \cup {None}
    /\ calls \in [Calls -> CallRecord]
    /\ pool \subseteq Keys /\ wallet \subseteq Keys

ClaimInit ==
    /\ step = "import" /\ identity = None /\ utxos = None
    /\ calls = [c \in Calls |-> Idle]
    /\ pool = {} /\ wallet = {}

-----------------------------------------------------------------------------

Begins(c, kind, id) ==
    /\ calls[c] = Idle
    /\ calls' = [calls EXCEPT ![c] = [kind |-> kind, identity |-> id]]

Ends(c) == calls' = [calls EXCEPT ![c] = Idle]

Under(c, kind) == calls[c].kind = kind

\* storeIdentity, then doScan up to its await: from whatever step the page shows.
Scan(c, id) ==
    /\ identity' = id
    /\ step' = "scanning"
    /\ calls' = [calls EXCEPT ![c] = [kind |-> "scan", identity |-> id]]

\* File and password are read, and decrypted over several awaits.
handleImportFromBackup(c, id) ==
    /\ step = "import"
    /\ Begins(c, "import", id)
    /\ UNCHANGED <<step, identity, utxos, pool, wallet>>

Imported(c) ==
    /\ Under(c, "import")
    /\ Scan(c, calls[c].identity)
    /\ UNCHANGED <<utxos, pool, wallet>>

\* A wrong password or a broken file.
ImportFails(c) ==
    /\ Under(c, "import")
    /\ Ends(c)
    /\ UNCHANGED <<step, identity, utxos, pool, wallet>>

\* A key typed in is used at once.
handleImportManual(c, k) ==
    /\ step = "import"
    /\ calls[c] = Idle
    /\ Scan(c, Read(k))
    /\ UNCHANGED <<utxos, pool, wallet>>

\* The key's outputs, or nothing although there are some: they lie beyond the scan's
\* limit, or the identity is from a backup, whose viewing key is what the SDK returned,
\* never converted to the bytes a scan needs.  It is none the worse for zeroed bytes of
\* the private key beside it.
Scanned(c) ==
    /\ Under(c, "scan")
    /\ utxos' \in {None} \cup ({calls[c].identity.key} \cap pool)
    /\ step' = "withdraw"
    /\ Ends(c)
    /\ UNCHANGED <<identity, pool, wallet>>

\* Slip: a failed scan only shows its error.
ScanFailsQuietly(c) ==
    /\ Under(c, "scan")
    /\ Ends(c)
    /\ UNCHANGED <<step, identity, utxos, pool, wallet>>

ScanFails(c) ==
    /\ Under(c, "scan")
    /\ step' = "import"
    /\ Ends(c)
    /\ UNCHANGED <<identity, utxos, pool, wallet>>

\* "<- Back"
BackToImport ==
    /\ step = "withdraw"
    /\ step' = "import"
    /\ UNCHANGED <<identity, utxos, calls, pool, wallet>>

\* The private key is copied for the call; what is withdrawn is the key's in the
\* ref, whichever key the listed outputs belong to.
handleWithdraw(c) ==
    /\ step = "withdraw" /\ utxos # None
    /\ identity # None
    /\ Begins(c, "withdraw", identity)
    /\ step' = "withdrawing"
    /\ UNCHANGED <<identity, utxos, pool, wallet>>

\* claimInheritanceToWallet scans again with a viewing key derived from the
\* private key, refuses when it finds nothing, and has the pool pay out.
fullWithdraw(c) ==
    /\ Under(c, "withdraw")
    /\ calls[c].identity.whole
    /\ calls[c].identity.key \in pool
    /\ pool' = pool \ {calls[c].identity.key}
    /\ wallet' = wallet \cup {calls[c].identity.key}
    /\ calls' = [calls EXCEPT ![c].kind = "paid"]
    /\ UNCHANGED <<step, identity, utxos>>

WithdrawSucceeds(c) ==
    /\ Under(c, "paid")
    /\ step' = "proof"
    /\ Ends(c)
    /\ UNCHANGED <<identity, utxos, pool, wallet>>

\* Slip: an error on the way back is taken for success.
WithdrawFailsToProof(c) ==
    /\ calls[c].kind \in {"withdraw", "paid"}
    /\ step' = "proof"
    /\ Ends(c)
    /\ UNCHANGED <<identity, utxos, pool, wallet>>

\* Nothing found, no payment, or a payment whose answer is lost.
WithdrawFails(c) ==
    /\ calls[c].kind \in {"withdraw", "paid"}
    /\ step' = "withdraw"
    /\ Ends(c)
    /\ UNCHANGED <<identity, utxos, pool, wallet>>

\* clearIdentity zeroes and drops whatever identity is in the ref by then.
clearIdentity == identity' = None

handleGenerateProof(c) ==
    /\ step = "proof"
    /\ identity # None
    /\ Begins(c, "proof", identity)
    /\ UNCHANGED <<step, identity, utxos, pool, wallet>>

\* The proof is downloaded, or fails; the finally block clears the identity.
ProofDone(c) ==
    /\ Under(c, "proof")
    /\ step' = "done"
    /\ clearIdentity
    /\ Ends(c)
    /\ UNCHANGED <<utxos, pool, wallet>>

ProofFails(c) ==
    /\ Under(c, "proof")
    /\ clearIdentity
    /\ Ends(c)
    /\ UNCHANGED <<step, utxos, pool, wallet>>

handleSkipProof ==
    /\ step = "proof"
    /\ step' = "done"
    /\ clearIdentity
    /\ UNCHANGED <<utxos, calls, pool, wallet>>

\* What a call does when its await ends; the browser sees to it that it does.
Settles(c) ==
    \/ Imported(c) \/ ImportFails(c)
    \/ Scanned(c) \/ ScanFails(c)
    \/ WithdrawSucceeds(c) \/ WithdrawFails(c)
    \/ ProofDone(c) \/ ProofFails(c)

ClaimNext(backups) ==
    \/ \E c \in Calls :
         \/ \E b \in backups : handleImportFromBackup(c, Decrypt(b))
         \/ \E k \in Keys : handleImportManual(c, k)
         \/ handleWithdraw(c) \/ fullWithdraw(c)
         \/ handleGenerateProof(c)
         \/ Settles(c)
    \/ BackToImport \/ handleSkipProof

-----------------------------------------------------------------------------

\* "Withdrawal Complete" and "Inheritance Complete" are shown only after a payment,
\* and the page keeps no key behind once it says that it is done: late scans,
\* failed proofs and lost answers notwithstanding.
FinishedClaim ==
    /\ step \in {"proof", "done"} => wallet # {}
    /\ step = "done" => identity = None

\* The screens without buttons are left again, whichever of the calls fail.
BusyEnds ==
    /\ (step = "scanning") ~> (step # "scanning")
    /\ (step = "withdrawing") ~> (step # "withdrawing")
=============================================================================
