------------------------- MODULE BeneficiaryIdentity -------------------------
(***************************************************************************)
(* The beneficiary's identity and its encrypted backup, as the form that   *)
(* makes them and the page that uses them share them.  An identity is      *)
(* named by its public key; it is whole while its private key has not been *)
(* overwritten with zeroes.                                                *)
(***************************************************************************)

CONSTANTS
    Keys,               \* the keys generateUtxoKeypair may return
    Passwords,          \* what is typed into a password field
    None

ASSUME IdentityAssumption == None \notin Keys \cup Passwords

Identity == [key : Keys, whole : BOOLEAN]
Backup   == [key : Keys, password : Passwords, whole : BOOLEAN]

Read(k)   == [key |-> k, whole |-> TRUE]
Zeroed(k) == [key |-> k, whole |-> FALSE]

\* exportBeneficiaryIdentity: what the identity holds at that moment, encrypted.
Encrypt(id, password) ==
    [key |-> id.key, password |-> password, whole |-> id.whole]

\* importBeneficiaryIdentity: a backup opens with its own password only ...
Opens(b, password) == b.password = password

\* ... and gives back what was encrypted.
Decrypt(b) == [key |-> b.key, whole |-> b.whole]
=============================================================================
