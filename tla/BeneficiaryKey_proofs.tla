------------------------- MODULE BeneficiaryKey_proofs -------------------------
(***************************************************************************)
(* Proofs about BeneficiaryKey for any number of keys, passwords, vault    *)
(* indices and overlapping calls.                                          *)
(***************************************************************************)
EXTENDS BeneficiaryKey, TLAPS

-----------------------------------------------------------------------------
(* What the form knows *)

Good(b, k) == b.key = k /\ b.whole

\* A key that is confirmed and backed up the way RegisteredKeyIsBackedUp asks.
BackedUp(k) ==
    \E b \in delivered :
        Good(b, k) /\ (browser = "restricted" => b.password = confirmed_with[k])

\* The mounted flow: an export under way is of its live key, a download or a share
\* that was left behind has reached the user, a verified text opens with what the
\* form shows.
FlowInv ==
    /\ setup.key # None <=> setup.step # "generate"
    /\ setup.busy = "generating" => setup.step = "generate"
    /\ setup.busy \in {"deriving", "delivering"} =>
         /\ setup.step = "backup" /\ ~setup.clipboardPath
         /\ setup.held \in Backup /\ Good(setup.held, setup.key)
    /\ setup.busy = "verifying" =>
         setup.step = "confirm" /\ setup.held \in delivered
    /\ setup.pasted \in delivered \cup {None}
    /\ setup.clipboardPath => browser = "restricted" /\ setup.step # "generate"
    /\ setup.step = "confirm" =>
         IF browser = "restricted"
         THEN setup.clipboardPath
         ELSE \E b \in delivered : Good(b, setup.key)
    /\ setup.verifyPassed =>
         /\ setup.step = "confirm"
         /\ \E b \in delivered : b.key = setup.key /\ b.password = setup.password

\* A hollow backup is of a key whose flow is gone, and no key comes twice.
HollowInv ==
    /\ setup.key \in generated \cup {None}
    /\ \A b \in delivered \cup late :
         b.key \in generated /\ (~b.whole => b.key # setup.key)

\* Whatever is, will be or may still be registered is backed up.
RegistryInv ==
    /\ beneficiaryHex # None => BackedUp(beneficiaryHex)
    /\ \A c \in creating : c.vault.heir \in Keys => BackedUp(c.vault.heir)
    /\ \A i \in Indices :
         vaults[i] # None /\ vaults[i].heir \in Keys => BackedUp(vaults[i].heir)

IInv == TypeOK /\ FlowInv /\ HollowInv /\ RegistryInv

-----------------------------------------------------------------------------
(* Types *)

LEMMA FreshType == Fresh \in Setup
BY IdentityAssumption DEF Fresh, Setup

(* The two Boolean fields that are computed. *)
LEMMA BooleanFields ==
    ASSUME NEW s \in Setup, NEW v \in BOOLEAN
    PROVE  /\ [s EXCEPT !.confirmed = v] \in Setup
           /\ [s EXCEPT !.busy = "no", !.held = None, !.verifyPassed = v] \in Setup
BY DEF Setup

(* What an unmounted flow leaves behind is an encrypted backup of its key. *)
LEMMA AbandonedType ==
    ASSUME SetupTypeOK, FlowInv PROVE Abandoned \subseteq Backup
<1>1. CASE setup.busy = "deriving"
  <2>1. setup.held \in Backup /\ setup.held.key = setup.key
    BY <1>1 DEF FlowInv, Good
  <2>2. Encrypt(Zeroed(setup.key), setup.held.password) \in Backup
    BY <2>1 DEF Encrypt, Zeroed, Backup
  <2> QED BY <1>1, <2>2 DEF Abandoned
<1>2. CASE setup.busy = "delivering"
  BY <1>2 DEF Abandoned, FlowInv
<1>3. CASE setup.busy \notin {"deriving", "delivering"}
  BY <1>3 DEF Abandoned
<1> QED BY <1>1, <1>2, <1>3

(* Mounting and unmounting keeps the types. *)
LEMMA GoToType ==
    ASSUME SetupTypeOK, FlowInv, NEW s, GoTo(s)
    PROVE  setup' \in Setup /\ late' \subseteq Backup
BY FreshType, AbandonedType DEF GoTo, Unmount, SetupTypeOK

(* So does asking for a vault. *)
LEMMA CreateType ==
    ASSUME SetupTypeOK, FlowInv, NEW k \in Keys \cup {None}, handleCreate(k)
    PROVE  /\ setup' \in Setup /\ late' \subseteq Backup
           /\ creating' \subseteq Call
           /\ flowStep' = "creating" /\ open' = open
<1>1. setup' \in Setup /\ late' \subseteq Backup
  BY GoToType DEF handleCreate
<1>2. resolvedHex(k) \in Keys \cup {"address"}
  BY DEF handleCreate, resolvedHex, SetupTypeOK
<1>3. [index |-> vaultIndex, shielded |-> shielded,
       vault |-> [heir |-> resolvedHex(k),
                  wanted |-> IF k # None THEN k ELSE "address"]] \in Call
  BY <1>2 DEF Call, Vault, SetupTypeOK
<1> QED BY <1>1, <1>3 DEF handleCreate, GoTo, SetupTypeOK

LEMMA SetupType ==
    ASSUME SetupTypeOK, FlowInv, SetupNext PROVE SetupTypeOK'
<1> USE DEF SetupTypeOK
<1>1. CASE Open
  BY <1>1 DEF Open
<1>2. CASE Close
  BY <1>2, GoToType DEF Close, Reset, GoTo
<1>3. CASE Back
  BY <1>3, GoToType DEF Back, GoTo
<1>4. ASSUME NEW i \in Indices, DetectIndex(i) PROVE SetupTypeOK'
  BY <1>4 DEF DetectIndex
<1>5. ASSUME NEW s \in BOOLEAN, ChooseMode(s) PROVE SetupTypeOK'
  BY <1>5 DEF ChooseMode
<1>6. ASSUME NEW a \in {"address", None}, TypeAddress(a) PROVE SetupTypeOK'
  BY <1>6 DEF TypeAddress
<1>7. CASE handleContinueToBeneficiary
  BY <1>7, CreateType DEF handleContinueToBeneficiary
<1>8. ASSUME NEW c \in creating, CreateSucceeds(c) PROVE SetupTypeOK'
  <2>1. c.vault \in Vault /\ c.index \in Indices
    BY DEF Call
  <2>2. vaults' \in [Indices -> Vault \cup {None}]
    BY <1>8, <2>1 DEF CreateSucceeds, Lands
  <2> QED BY <1>8, <2>2, GoToType DEF CreateSucceeds, Reset, GoTo
<1>9. ASSUME NEW c \in creating, CreateFails(c) PROVE SetupTypeOK'
  <2>1. c.vault \in Vault /\ c.index \in Indices
    BY DEF Call
  <2>2. vaults' \in [Indices -> Vault \cup {None}]
    BY <1>9, <2>1 DEF CreateFails, Lands
  <2> QED BY <1>9, <2>2, GoToType DEF CreateFails, GoTo
<1>10. CASE handleGenerate
  BY <1>10 DEF handleGenerate, FlowOnly, Setup
<1>11. CASE Generated
  <2>1. ASSUME NEW k \in Keys
        PROVE  [setup EXCEPT !.key = k, !.step = "backup", !.busy = "no"] \in Setup
    BY DEF Setup
  <2>2. [setup EXCEPT !.busy = "no"] \in Setup
    BY DEF Setup
  <2>3. ASSUME NEW k \in Keys \ generated,
               setup' = [setup EXCEPT !.key = k, !.step = "backup", !.busy = "no"],
               generated' = generated \cup {k}
        PROVE  setup' \in Setup /\ generated' \subseteq Keys
    BY <2>1, <2>3
  <2>4. ASSUME setup' = [setup EXCEPT !.busy = "no"], UNCHANGED generated
        PROVE  setup' \in Setup /\ generated' \subseteq Keys
    BY <2>2, <2>4
  <2>5. setup' \in Setup /\ generated' \subseteq Keys
    BY <1>11, <2>3, <2>4 DEF Generated
  <2> QED BY <1>11, <2>5 DEF Generated, FlowOnly
<1>12. ASSUME NEW p \in Passwords, NEW same \in BOOLEAN, TypePassword(p, same)
       PROVE  SetupTypeOK'
  BY <1>12 DEF TypePassword, FlowOnly, Setup
<1>13. CASE handleSaveBackup
  <2>1. Encrypt(Read(setup.key), setup.password) \in Backup
    BY <1>13 DEF handleSaveBackup, Encrypt, Read, Backup, Setup
  <2> QED BY <1>13, <2>1 DEF handleSaveBackup, FlowOnly, Setup
<1>14. CASE exportBeneficiaryIdentity
  BY <1>14 DEF exportBeneficiaryIdentity, FlowOnly, Setup
<1>15. CASE ExportFails
  BY <1>15 DEF ExportFails, SaveFails, FlowOnly, Setup
<1>16. CASE DeliverBackup
  <2>1. setup.held \in Backup
    BY <1>16 DEF DeliverBackup, FlowInv
  <2>2. /\ [setup EXCEPT !.clipboardPath = TRUE, !.busy = "no", !.held = None] \in Setup
        /\ [setup EXCEPT !.step = "confirm", !.busy = "no", !.held = None] \in Setup
        /\ [setup EXCEPT !.busy = "no", !.held = None] \in Setup
    BY DEF Setup
  <2>3. setup' \in Setup /\ delivered' \subseteq Backup
    BY <1>16, <2>1, <2>2 DEF DeliverBackup, Deliver, Saved, SaveFails
  <2> QED BY <1>16, <2>3 DEF DeliverBackup, FlowOnly
<1>17. ASSUME NEW b \in late, DeliverLate(b) PROVE SetupTypeOK'
  BY <1>17 DEF DeliverLate
<1>18. CASE ContinueToConfirm
  BY <1>18 DEF ContinueToConfirm, FlowOnly, Setup
<1>19. CASE Tick
  <2>1. (~setup.confirmed) \in BOOLEAN
    OBVIOUS
  <2>2. setup' \in Setup
    BY <1>19, <2>1, BooleanFields DEF Tick
  <2> QED BY <1>19, <2>2 DEF Tick, FlowOnly
<1>20. ASSUME NEW b \in delivered \cup {None}, Paste(b) PROVE SetupTypeOK'
  BY <1>20 DEF Paste, FlowOnly, Setup
<1>21. CASE handleVerify
  BY <1>21 DEF handleVerify, FlowOnly, Setup
<1>22. CASE Verified
  <2>1. (setup.verifyPassed \/ Verifies) \in BOOLEAN
    OBVIOUS
  <2>2. setup' \in Setup
    BY <1>22, <2>1, BooleanFields DEF Verified
  <2> QED BY <1>22, <2>2 DEF Verified, FlowOnly
<1>23. CASE onComplete
  <2>1. setup.key \in Keys
    BY <1>23 DEF onComplete, MayConfirm, Setup
  <2>2. confirmed_with' \in [Keys -> Passwords \cup {None}]
    BY <1>23 DEF onComplete, Setup
  <2> QED BY <1>23, <2>1, <2>2, CreateType DEF onComplete
<1> QED BY <1>1, <1>2, <1>3, <1>4, <1>5, <1>6, <1>7, <1>8, <1>9, <1>10, <1>11, <1>12,
           <1>13, <1>14, <1>15, <1>16, <1>17, <1>18, <1>19, <1>20, <1>21, <1>22, <1>23
           DEF SetupNext

LEMMA ClaimType ==
    ASSUME ClaimTypeOK, NEW backups \in SUBSET Backup, ClaimNext(backups)
    PROVE  ClaimTypeOK'
<1> USE DEF ClaimTypeOK
<1>0. Idle \in CallRecord
  BY DEF Idle, CallRecord
<1>1. ASSUME NEW c \in Calls, NEW b \in backups, handleImportFromBackup(c, Decrypt(b))
      PROVE  ClaimTypeOK'
  <2>1. Decrypt(b) \in Identity
    BY DEF Decrypt, Identity, Backup
  <2> QED BY <1>1, <2>1 DEF handleImportFromBackup, Begins, CallRecord
<1>2. ASSUME NEW c \in Calls, NEW k \in Keys, handleImportManual(c, k) PROVE ClaimTypeOK'
  <2>1. Read(k) \in Identity
    BY DEF Read, Identity
  <2> QED BY <1>2, <2>1 DEF handleImportManual, Scan, CallRecord, Steps
<1>3. ASSUME NEW c \in Calls, handleWithdraw(c) PROVE ClaimTypeOK'
  BY <1>3 DEF handleWithdraw, Begins, CallRecord, Steps
<1>4. ASSUME NEW c \in Calls, fullWithdraw(c) PROVE ClaimTypeOK'
  BY <1>4 DEF fullWithdraw, CallRecord
<1>5. ASSUME NEW c \in Calls, handleGenerateProof(c) PROVE ClaimTypeOK'
  BY <1>5 DEF handleGenerateProof, Begins, CallRecord
<1>6. ASSUME NEW c \in Calls, Settles(c) PROVE ClaimTypeOK'
  <2>1. CASE Imported(c)
    BY <2>1, <1>6 DEF Imported, Scan, Under, CallRecord, Steps
  <2>2. CASE ImportFails(c) \/ ScanFails(c)
    BY <2>2, <1>0 DEF ImportFails, ScanFails, Ends, Steps
  <2>3. CASE Scanned(c)
    BY <2>3, <1>0 DEF Scanned, Ends, Steps, Under, CallRecord, Identity
  <2>4. CASE WithdrawSucceeds(c) \/ WithdrawFails(c)
    BY <2>4, <1>0 DEF WithdrawSucceeds, WithdrawFails, Ends, Steps
  <2>5. CASE ProofDone(c) \/ ProofFails(c)
    BY <2>5, <1>0 DEF ProofDone, ProofFails, clearIdentity, Ends, Steps
  <2> QED BY <1>6, <2>1, <2>2, <2>3, <2>4, <2>5 DEF Settles
<1>7. CASE BackToImport
  BY <1>7 DEF BackToImport, Steps
<1>8. CASE handleSkipProof
  BY <1>8 DEF handleSkipProof, clearIdentity, Steps
<1> QED BY <1>1, <1>2, <1>3, <1>4, <1>5, <1>6, <1>7, <1>8 DEF ClaimNext

-----------------------------------------------------------------------------
(* The flow's invariant *)

\* What FlowInv and HollowInv speak of.
flow_view == <<setup, late, delivered, generated, browser>>

(* A change of the modal's step mounts a fresh flow or unmounts one. *)
LEMMA GoToKeeps ==
    ASSUME SetupTypeOK, FlowInv, HollowInv, NEW s, GoTo(s),
           UNCHANGED <<delivered, generated, browser>>
    PROVE  FlowInv' /\ HollowInv'
<1>1. CASE UNCHANGED <<setup, late>>
  BY <1>1 DEF FlowInv, HollowInv
<1>2. CASE Unmount
  <2>1. FlowInv'
    BY <1>2 DEF FlowInv, Unmount, Fresh
  <2>2. \A b \in Abandoned : b.key \in generated
    <3>1. CASE setup.busy = "deriving"
      BY <3>1 DEF Abandoned, FlowInv, HollowInv, Encrypt, Zeroed
    <3>2. CASE setup.busy = "delivering"
      BY <3>2 DEF Abandoned, FlowInv, HollowInv, Good
    <3>3. CASE setup.busy \notin {"deriving", "delivering"}
      BY <3>3 DEF Abandoned
    <3> QED BY <3>1, <3>2, <3>3
  <2>3. \A b \in delivered' \cup late' : b.key \in generated' /\ b.key # None
    BY <1>2, <2>2, IdentityAssumption DEF Unmount, HollowInv, SetupTypeOK
  <2> QED BY <1>2, <2>1, <2>3 DEF Unmount, Fresh, HollowInv
<1> QED BY <1>1, <1>2 DEF GoTo

LEMMA FlowKept ==
    ASSUME SetupTypeOK, FlowInv, HollowInv, SetupNext PROVE FlowInv' /\ HollowInv'
<1>0. CASE UNCHANGED flow_view
  BY <1>0 DEF flow_view, FlowInv, HollowInv
<1>1. CASE Open
  BY <1>0, <1>1 DEF Open, flow_view
<1>2. CASE Close
  BY <1>2, GoToKeeps DEF Close, Reset
<1>3. CASE Back
  BY <1>3, GoToKeeps DEF Back
<1>4. ASSUME NEW i \in Indices, DetectIndex(i) PROVE FlowInv' /\ HollowInv'
  BY <1>0, <1>4 DEF DetectIndex, flow_view
<1>5. ASSUME NEW s \in BOOLEAN, ChooseMode(s) PROVE FlowInv' /\ HollowInv'
  BY <1>0, <1>5 DEF ChooseMode, flow_view
<1>6. ASSUME NEW a \in {"address", None}, TypeAddress(a) PROVE FlowInv' /\ HollowInv'
  BY <1>0, <1>6 DEF TypeAddress, flow_view
<1>7. CASE handleContinueToBeneficiary
  BY <1>0, <1>7, GoToKeeps DEF handleContinueToBeneficiary, handleCreate, flow_view
<1>8. ASSUME NEW c \in creating, CreateSucceeds(c) PROVE FlowInv' /\ HollowInv'
  BY <1>8, GoToKeeps DEF CreateSucceeds, Reset
<1>9. ASSUME NEW c \in creating, CreateFails(c) PROVE FlowInv' /\ HollowInv'
  BY <1>9, GoToKeeps DEF CreateFails
<1>10. CASE handleGenerate
  BY <1>10 DEF handleGenerate, FlowOnly, FlowInv, HollowInv, SetupTypeOK, Setup
<1>11. CASE Generated
  <2>1. ASSUME NEW k \in Keys \ generated,
               setup' = [setup EXCEPT !.key = k, !.step = "backup", !.busy = "no"],
               generated' = generated \cup {k},
               UNCHANGED <<late, delivered, browser>>
        PROVE  FlowInv' /\ HollowInv'
    <3>1. setup.step = "generate"
      BY <1>11 DEF Generated, FlowInv
    <3>2. /\ setup'.key = k /\ setup'.step = "backup" /\ setup'.busy = "no"
          /\ setup'.pasted = setup.pasted /\ setup'.clipboardPath = setup.clipboardPath
          /\ setup'.verifyPassed = setup.verifyPassed
          /\ setup'.password = setup.password
      BY <2>1 DEF SetupTypeOK, Setup
    <3>3. \A b \in delivered \cup late : b.key # k
      BY DEF HollowInv
    <3>4. ~setup.clipboardPath /\ ~setup.verifyPassed
      BY <3>1 DEF FlowInv
    <3>5. FlowInv'
      BY <2>1, <3>2, <3>4, IdentityAssumption DEF FlowInv
    <3>6. HollowInv'
      BY <2>1, <3>2, <3>3 DEF HollowInv
    <3> QED BY <3>5, <3>6
  <2>2. ASSUME setup' = [setup EXCEPT !.busy = "no"],
               UNCHANGED <<late, delivered, browser, generated>>
        PROVE  FlowInv' /\ HollowInv'
    BY <2>2 DEF FlowInv, HollowInv, SetupTypeOK, Setup
  <2> QED BY <1>11, <2>1, <2>2 DEF Generated, FlowOnly
<1>12. ASSUME NEW p \in Passwords, NEW same \in BOOLEAN, TypePassword(p, same)
       PROVE  FlowInv' /\ HollowInv'
  <2>1. setup.step = "backup" /\ ~setup.clipboardPath
    BY <1>12 DEF TypePassword, PasswordForm
  <2> QED BY <1>12, <2>1 DEF TypePassword, FlowOnly, FlowInv, HollowInv, SetupTypeOK, Setup
<1>13. CASE handleSaveBackup
  <2> DEFINE e == Encrypt(Read(setup.key), setup.password)
  <2>1. e \in Backup /\ Good(e, setup.key)
    BY <1>13 DEF handleSaveBackup, Encrypt, Read, Backup, Good, SetupTypeOK, Setup
  <2>2. setup.step = "backup" /\ ~setup.clipboardPath /\ setup.busy = "no"
    BY <1>13 DEF handleSaveBackup, PasswordForm
  <2>3. setup' = [setup EXCEPT !.busy = "deriving", !.held = e]
    BY <1>13 DEF handleSaveBackup
  <2>4. /\ setup'.held = e /\ setup'.busy = "deriving" /\ setup'.key = setup.key
        /\ setup'.step = setup.step /\ setup'.clipboardPath = setup.clipboardPath
        /\ setup'.pasted = setup.pasted /\ setup'.verifyPassed = setup.verifyPassed
        /\ setup'.password = setup.password
    BY <2>3 DEF SetupTypeOK, Setup
  <2> HIDE DEF e
  <2> QED BY <1>13, <2>1, <2>2, <2>4 DEF handleSaveBackup, FlowOnly, FlowInv, HollowInv
<1>14. CASE exportBeneficiaryIdentity
  BY <1>14 DEF exportBeneficiaryIdentity, FlowOnly, FlowInv, HollowInv, SetupTypeOK, Setup
<1>15. CASE ExportFails
  BY <1>15 DEF ExportFails, SaveFails, FlowOnly, FlowInv, HollowInv, SetupTypeOK, Setup
<1>16. CASE DeliverBackup
  <2>1. /\ setup.step = "backup" /\ ~setup.clipboardPath /\ setup.key # None
        /\ setup.held \in Backup /\ Good(setup.held, setup.key) /\ ~setup.verifyPassed
    BY <1>16 DEF DeliverBackup, FlowInv
  <2>2. UNCHANGED <<late, generated, browser>>
    BY <1>16 DEF DeliverBackup, FlowOnly
  <2>3. CASE browser = "restricted"
             /\ Saved([setup EXCEPT !.clipboardPath = TRUE, !.busy = "no", !.held = None])
    BY <2>1, <2>2, <2>3 DEF Saved, FlowInv, HollowInv, Good, SetupTypeOK, Setup
  <2>4. CASE browser # "restricted"
             /\ Saved([setup EXCEPT !.step = "confirm", !.busy = "no", !.held = None])
    BY <2>1, <2>2, <2>4 DEF Saved, FlowInv, HollowInv, Good, SetupTypeOK, Setup
  <2>5. CASE SaveFails
    BY <2>1, <2>2, <2>5 DEF SaveFails, FlowInv, HollowInv, SetupTypeOK, Setup
  <2> QED BY <1>16, <2>3, <2>4, <2>5 DEF DeliverBackup, Deliver
<1>17. ASSUME NEW b \in late, DeliverLate(b) PROVE FlowInv' /\ HollowInv'
  <2>1. delivered \subseteq delivered' /\ delivered' \cup late' \subseteq delivered \cup late
    BY <1>17 DEF DeliverLate
  <2>2. UNCHANGED <<setup, generated, browser>>
    BY <1>17 DEF DeliverLate
  <2> QED BY <2>1, <2>2 DEF FlowInv, HollowInv
<1>18. CASE ContinueToConfirm
  BY <1>18 DEF ContinueToConfirm, FlowOnly, FlowInv, HollowInv, SetupTypeOK, Setup
<1>19. CASE Tick
  <2>1. /\ setup'.key = setup.key /\ setup'.step = setup.step /\ setup'.busy = setup.busy
        /\ setup'.held = setup.held /\ setup'.clipboardPath = setup.clipboardPath
        /\ setup'.pasted = setup.pasted /\ setup'.verifyPassed = setup.verifyPassed
        /\ setup'.password = setup.password
    BY <1>19 DEF Tick, SetupTypeOK, Setup
  <2> QED BY <1>19, <2>1 DEF Tick, FlowOnly, FlowInv, HollowInv
<1>20. ASSUME NEW b \in delivered \cup {None}, Paste(b) PROVE FlowInv' /\ HollowInv'
  BY <1>20 DEF Paste, FlowOnly, FlowInv, HollowInv, SetupTypeOK, Setup
<1>21. CASE handleVerify
  BY <1>21 DEF handleVerify, FlowOnly, FlowInv, HollowInv, SetupTypeOK, Setup
<1>22. CASE Verified
  <2> DEFINE v == setup.verifyPassed \/ Verifies
  <2>1. /\ setup'.key = setup.key /\ setup'.step = setup.step /\ setup'.busy = "no"
        /\ setup'.clipboardPath = setup.clipboardPath
        /\ setup'.pasted = setup.pasted /\ setup'.verifyPassed = v
        /\ setup'.password = setup.password
    BY <1>22 DEF Verified, SetupTypeOK, Setup
  <2>2. setup.step = "confirm" /\ setup.held \in delivered
    BY <1>22 DEF Verified, FlowInv
  <2>3. v => \E b \in delivered : b.key = setup.key /\ b.password = setup.password
    BY <2>2 DEF FlowInv, Verifies, Opens
  <2> HIDE DEF v
  <2> QED BY <1>22, <2>1, <2>2, <2>3 DEF Verified, FlowOnly, FlowInv, HollowInv
<1>23. CASE onComplete
  BY <1>0, <1>23, GoToKeeps DEF onComplete, handleCreate, flow_view
<1> QED BY <1>1, <1>2, <1>3, <1>4, <1>5, <1>6, <1>7, <1>8, <1>9, <1>10, <1>11, <1>12,
           <1>13, <1>14, <1>15, <1>16, <1>17, <1>18, <1>19, <1>20, <1>21, <1>22, <1>23
           DEF SetupNext

-----------------------------------------------------------------------------
(* What is registered *)

(* A backup that has been handed out stays so. *)
LEMMA StaysBackedUp ==
    ASSUME NEW k, BackedUp(k), delivered \subseteq delivered', browser' = browser,
           confirmed_with'[k] = confirmed_with[k]
    PROVE  BackedUp(k)'
BY DEF BackedUp, Good

(* The button that registers a key is live only when the key is backed up. *)
LEMMA ConfirmedIsBackedUp ==
    ASSUME SetupTypeOK, FlowInv, HollowInv, onComplete, NEW k, k = setup.key
    PROVE  BackedUp(k)'
<1>1. /\ setup.key \in Keys /\ setup.step = "confirm"
      /\ setup.clipboardPath => setup.verifyPassed
      /\ confirmed_with'[setup.key] = setup.password
      /\ UNCHANGED <<delivered, browser>>
  BY DEF onComplete, MayConfirm, SetupTypeOK, Setup
<1>2. CASE browser = "restricted"
  <2>1. PICK b \in delivered : b.key = setup.key /\ b.password = setup.password
    BY <1>1, <1>2 DEF FlowInv
  <2>2. b.whole
    BY <2>1 DEF HollowInv
  <2>3. b \in delivered' /\ Good(b, k) /\ b.password = confirmed_with'[k]
    BY <1>1, <2>1, <2>2 DEF Good
  <2> QED BY <2>3 DEF BackedUp, Good
<1>3. CASE browser # "restricted"
  <2>1. PICK b \in delivered : Good(b, setup.key)
    BY <1>1, <1>3 DEF FlowInv
  <2>2. b \in delivered' /\ Good(b, k) /\ browser' # "restricted"
    BY <1>1, <1>3, <2>1
  <2> QED BY <2>2 DEF BackedUp, Good
<1> QED BY <1>1, <1>2, <1>3

(* What the registry rests on: the keys that are or may be registered. *)
Candidates ==
    ({beneficiaryHex} \cup {c.vault.heir : c \in creating}
       \cup {vaults[i].heir : i \in {j \in Indices : vaults[j] # None}}) \cap Keys

LEMMA RegistryIsCandidates ==
    ASSUME SetupTypeOK PROVE RegistryInv <=> \A k \in Candidates : BackedUp(k)
BY IdentityAssumption DEF RegistryInv, Candidates, SetupTypeOK

(* Only onComplete brings in a candidate, the key of the flow. *)
LEMMA CandidatesKept ==
    ASSUME SetupTypeOK, FlowInv, SetupNext
    PROVE  Candidates' \subseteq Candidates
             \cup (IF onComplete THEN {setup.key} ELSE {})
<1> DEFINE Kept == Candidates' \subseteq Candidates
<1>1. ASSUME UNCHANGED <<beneficiaryHex, creating, vaults>> PROVE Kept
  BY <1>1 DEF Candidates
<1>2. CASE Close
  BY <1>2, IdentityAssumption DEF Close, Reset, Candidates
<1>3. CASE handleContinueToBeneficiary
  <2>1. CASE UNCHANGED creating
    BY <1>1, <1>3, <2>1 DEF handleContinueToBeneficiary
  <2>2. CASE handleCreate(None)
    <3>1. resolvedHex(None) \in {beneficiaryHex, "address"}
      BY DEF resolvedHex, SetupTypeOK, handleCreate
    <3>2. \A c \in creating' : c \in creating \/ c.vault.heir = resolvedHex(None)
      BY <2>2 DEF handleCreate
    <3>3. UNCHANGED <<beneficiaryHex, vaults>>
      BY <1>3 DEF handleContinueToBeneficiary
    <3> QED BY <3>1, <3>2, <3>3, SetupAssumption DEF Candidates
  <2> QED BY <1>3, <2>1, <2>2 DEF handleContinueToBeneficiary
<1>4. ASSUME NEW c \in creating, CreateSucceeds(c) PROVE Kept
  <2>1. \A i \in Indices : vaults'[i] = vaults[i] \/ vaults'[i] = c.vault
    BY <1>4 DEF CreateSucceeds, Lands, SetupTypeOK
  <2>2. creating' \subseteq creating /\ beneficiaryHex' = None
    BY <1>4 DEF CreateSucceeds, Reset
  <2> QED BY <2>1, <2>2, IdentityAssumption DEF Candidates
<1>5. ASSUME NEW c \in creating, CreateFails(c) PROVE Kept
  <2>1. \A i \in Indices : vaults'[i] = vaults[i] \/ vaults'[i] = c.vault
    BY <1>5 DEF CreateFails, Lands, SetupTypeOK
  <2>2. creating' \subseteq creating /\ beneficiaryHex' = beneficiaryHex
    BY <1>5 DEF CreateFails
  <2> QED BY <2>1, <2>2 DEF Candidates
<1>6. CASE onComplete
  <2>1. setup.key \in Keys
    BY <1>6 DEF onComplete, MayConfirm, SetupTypeOK, Setup
  <2>2. beneficiaryHex' = setup.key /\ vaults' = vaults
    BY <1>6 DEF onComplete
  <2>3. \A c \in creating' : c \in creating \/ c.vault.heir = setup.key
    <3>1. resolvedHex(setup.key) = setup.key
      BY <2>1, IdentityAssumption DEF resolvedHex
    <3> QED BY <1>6, <3>1 DEF onComplete, handleCreate
  <2> QED BY <1>6, <2>2, <2>3 DEF Candidates
<1>7. CASE FlowOnly
  BY <1>1, <1>7 DEF FlowOnly
<1> QED BY <1>1, <1>2, <1>3, <1>4, <1>5, <1>6, <1>7 DEF SetupNext, Open, Back, DetectIndex,
           ChooseMode, TypeAddress, DeliverLate, handleGenerate, Generated, TypePassword,
           handleSaveBackup, exportBeneficiaryIdentity, ExportFails, DeliverBackup,
           ContinueToConfirm, Tick, Paste, handleVerify, Verified

(* Nothing that was handed out is taken back, and only onComplete changes the
   record of a password, that of the flow's key. *)
LEMMA DeliveredGrows ==
    ASSUME SetupTypeOK, SetupNext
    PROVE  /\ delivered \subseteq delivered' /\ browser' = browser
           /\ \/ UNCHANGED confirmed_with
              \/ /\ onComplete
                 /\ \A k \in Keys \ {setup.key} : confirmed_with'[k] = confirmed_with[k]
BY DEF SetupNext, SetupTypeOK, Open, Close, Back, DetectIndex, ChooseMode, TypeAddress,
       handleContinueToBeneficiary, CreateSucceeds, CreateFails, FlowOnly, handleGenerate,
       Generated, TypePassword, handleSaveBackup, exportBeneficiaryIdentity, ExportFails,
       SaveFails, DeliverBackup, Deliver, Saved, DeliverLate, ContinueToConfirm, Tick, Paste,
       handleVerify, Verified, onComplete

LEMMA RegistryKept ==
    ASSUME SetupTypeOK, FlowInv, HollowInv, RegistryInv, SetupNext PROVE RegistryInv'
<1>1. SetupTypeOK'
  BY SetupType
<1> SUFFICES ASSUME NEW k \in Candidates' PROVE BackedUp(k)'
  <2>1. SetupTypeOK' /\ (\A k \in Candidates' : BackedUp(k)') => RegistryInv'
    BY IdentityAssumption DEF RegistryInv, Candidates, SetupTypeOK
  <2> QED BY <1>1, <2>1
<1>2. k \in Keys
  BY DEF Candidates
<1>3. CASE onComplete /\ k = setup.key
  BY <1>3, ConfirmedIsBackedUp
<1>4. CASE ~(onComplete /\ k = setup.key)
  <2>1. BackedUp(k)
    BY <1>4, CandidatesKept, RegistryIsCandidates
  <2>2. confirmed_with'[k] = confirmed_with[k]
    BY <1>2, <1>4, DeliveredGrows
  <2> QED BY <2>1, <2>2, DeliveredGrows, StaysBackedUp
<1> QED BY <1>3, <1>4

-----------------------------------------------------------------------------
(* The claim page *)

\* A proof is under way, and a payment on its way back, only after a payment.
CallsInv == \A c \in Calls : calls[c].kind \in {"paid", "proof"} => wallet # {}

ClaimInv == FinishedClaim /\ CallsInv

LEMMA ClaimKept ==
    ASSUME ClaimTypeOK, ClaimInv, NEW backups, ClaimNext(backups) PROVE ClaimInv'
<1> USE DEF ClaimInv, FinishedClaim, CallsInv, ClaimTypeOK
<1>1. ASSUME NEW c \in Calls, NEW b \in backups, handleImportFromBackup(c, Decrypt(b))
      PROVE  ClaimInv'
  BY <1>1 DEF handleImportFromBackup, Begins
<1>2. ASSUME NEW c \in Calls, NEW k \in Keys, handleImportManual(c, k) PROVE ClaimInv'
  BY <1>2 DEF handleImportManual, Scan
<1>3. ASSUME NEW c \in Calls, handleWithdraw(c) PROVE ClaimInv'
  BY <1>3 DEF handleWithdraw, Begins
<1>4. ASSUME NEW c \in Calls, fullWithdraw(c) PROVE ClaimInv'
  BY <1>4 DEF fullWithdraw
<1>5. ASSUME NEW c \in Calls, handleGenerateProof(c) PROVE ClaimInv'
  BY <1>5 DEF handleGenerateProof, Begins
<1>6. ASSUME NEW c \in Calls, Settles(c) PROVE ClaimInv'
  <2>1. CASE Imported(c)
    BY <2>1 DEF Imported, Scan
  <2>2. CASE ImportFails(c) \/ ScanFails(c) \/ Scanned(c)
    BY <2>2 DEF ImportFails, ScanFails, Scanned, Ends, Idle
  <2>3. CASE WithdrawSucceeds(c) \/ WithdrawFails(c)
    BY <2>3 DEF WithdrawSucceeds, WithdrawFails, Ends, Idle, Under
  <2>4. CASE ProofDone(c) \/ ProofFails(c)
    BY <2>4 DEF ProofDone, ProofFails, clearIdentity, Ends, Idle, Under
  <2> QED BY <1>6, <2>1, <2>2, <2>3, <2>4 DEF Settles
<1>7. CASE BackToImport
  BY <1>7 DEF BackToImport
<1>8. CASE handleSkipProof
  BY <1>8 DEF handleSkipProof, clearIdentity
<1> QED BY <1>1, <1>2, <1>3, <1>4, <1>5, <1>6, <1>7, <1>8 DEF ClaimNext

-----------------------------------------------------------------------------
(* The theorems *)

LEMMA InitInv == ASSUME Init PROVE IInv /\ ClaimInv
<1>1. TypeOK
  <2>1. 0 \in Indices
    BY SetupAssumption DEF Indices
  <2>2. SetupTypeOK
    BY <2>1, FreshType DEF Init, SetupInit, SetupTypeOK
  <2>3. ClaimTypeOK
    BY DEF Init, ClaimInit, ClaimTypeOK, Idle, CallRecord, Steps
  <2> QED BY <2>2, <2>3 DEF TypeOK
<1>2. FlowInv /\ HollowInv
  BY DEF Init, SetupInit, FlowInv, HollowInv, Fresh
<1>3. RegistryInv
  BY DEF Init, SetupInit, RegistryInv
<1>4. ClaimInv
  BY DEF Init, ClaimInit, ClaimInv, FinishedClaim, CallsInv, Idle
<1> QED BY <1>1, <1>2, <1>3, <1>4 DEF IInv

LEMMA NextInv == ASSUME IInv, ClaimInv, [Next]_vars PROVE IInv' /\ ClaimInv'
<1>1. CASE UNCHANGED vars
  <2> USE <1>1 DEF vars, setup_vars, claim_vars
  <2>1. TypeOK'
    BY DEF IInv, TypeOK, SetupTypeOK, ClaimTypeOK
  <2>2. FlowInv' /\ HollowInv'
    BY DEF IInv, FlowInv, HollowInv
  <2>3. RegistryInv'
    BY DEF IInv, RegistryInv, BackedUp, Good
  <2>4. ClaimInv'
    BY DEF ClaimInv, FinishedClaim, CallsInv
  <2> QED BY <2>1, <2>2, <2>3, <2>4 DEF IInv
<1>2. CASE SetupStep
  <2>1. SetupTypeOK' /\ FlowInv' /\ HollowInv' /\ RegistryInv'
    BY <1>2, SetupType, FlowKept, RegistryKept DEF SetupStep, IInv, TypeOK
  <2>2. ClaimTypeOK'
    BY <1>2 DEF SetupStep, IInv, TypeOK, ClaimTypeOK, claim_vars
  <2>3. ClaimInv'
    BY <1>2 DEF SetupStep, ClaimInv, FinishedClaim, CallsInv, claim_vars
  <2> QED BY <2>1, <2>2, <2>3 DEF IInv, TypeOK
<1>3. ASSUME UNCHANGED setup_vars, ClaimTypeOK', ClaimInv' PROVE IInv' /\ ClaimInv'
  <2>1. SetupTypeOK'
    BY <1>3 DEF IInv, TypeOK, SetupTypeOK, setup_vars
  <2>2. FlowInv' /\ HollowInv'
    BY <1>3 DEF IInv, FlowInv, HollowInv, setup_vars
  <2>3. RegistryInv'
    BY <1>3 DEF IInv, RegistryInv, BackedUp, Good, setup_vars
  <2> QED BY <1>3, <2>1, <2>2, <2>3 DEF IInv, TypeOK
<1>4. ASSUME NEW k \in Keys, Inherit(k) PROVE IInv' /\ ClaimInv'
  BY <1>3, <1>4 DEF Inherit, IInv, TypeOK, ClaimTypeOK, ClaimInv, FinishedClaim, CallsInv
<1>5. CASE ClaimStep
  <2>1. delivered \in SUBSET Backup
    BY DEF IInv, TypeOK, SetupTypeOK
  <2> QED BY <1>3, <1>5, <2>1, ClaimType, ClaimKept DEF ClaimStep, IInv, TypeOK
<1> QED BY <1>1, <1>2, <1>4, <1>5 DEF Next

(* The inductive invariant holds. *)
LEMMA Invariant == Spec => [](IInv /\ ClaimInv)
BY InitInv, NextInv, PTL DEF Spec

(* Every variable of the form and of the page keeps its type: the records of a
   flow, of backups, calls and vaults stay what the code makes them. *)
THEOREM TypeCorrect == Spec => []TypeOK
<1>1. IInv => TypeOK
  BY DEF IInv
<1> QED BY <1>1, Invariant, PTL

(* No vault is registered for a key that cannot be brought back, whatever the user
   does while an export is under way, and whatever the browser refuses. *)
THEOREM RegisteredIsBackedUp == Spec => []RegisteredKeyIsBackedUp
<1>1. IInv => RegisteredKeyIsBackedUp
  BY DEF IInv, RegistryInv, RegisteredKeyIsBackedUp, Registered, BackedUp, Good
<1> QED BY <1>1, Invariant, PTL

(* The claim page says that it is done only after a payment, and keeps no key. *)
THEOREM ClaimFinishes == Spec => []FinishedClaim
<1>1. ClaimInv => FinishedClaim
  BY DEF ClaimInv
<1> QED BY <1>1, Invariant, PTL
=============================================================================
