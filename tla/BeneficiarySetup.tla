--------------------------- MODULE BeneficiarySetup ---------------------------
(***************************************************************************)
(* Creating a vault in the web app: CreateVaultModal and the flow it       *)
(* mounts, BeneficiarySetupFlow, which generates the beneficiary's key,    *)
(* has it backed up and hands its public half to the vault.                *)
(*                                                                         *)
(* An action is one event handler up to its next await, or what follows    *)
(* an await.  A handler goes on after its component is gone; the key is    *)
(* zeroed when the flow unmounts, so an export that has not read it by     *)
(* then encrypts zeroes ("hollow").                                        *)
(***************************************************************************)
EXTENDS BeneficiaryIdentity, Integers, FiniteSets

CONSTANTS
    Short,              \* the passwords of fewer than 8 characters
    Browsers,           \* "restricted", "share" (can share files), "plain"
    MaxIndex            \* bound on vault indices

ASSUME SetupAssumption ==
    /\ Short \subseteq Passwords
    /\ Browsers \subseteq {"restricted", "share", "plain"}
    /\ MaxIndex \in Nat
    /\ "address" \notin Keys \cup {None}

VARIABLES
    browser,
    open, flowStep, shielded, beneficiaryHex, plainBeneficiary, vaultIndex,
    setup,              \* the mounted BeneficiarySetupFlow
    late,               \* exports still under way in flows that were unmounted
    creating,           \* calls of handleCreate that wait for their transaction
    generated,          \* the keys generated so far
    delivered,          \* the backups the beneficiary has been given
    vaults,             \* the chain: the vault at each index, or None
    confirmed_with      \* history: the password on the form when a key was confirmed

setup_vars ==
    <<browser, open, flowStep, shielded, beneficiaryHex, plainBeneficiary, vaultIndex,
      setup, late, creating, generated, delivered, vaults, confirmed_with>>

Indices == 0 .. MaxIndex
\* The heir a vault was created for, and what its owner had asked for.
Vault   == [heir : Keys \cup {"address"}, wanted : Keys \cup {"address"}]
Call    == [index : Indices, vault : Vault, shielded : BOOLEAN]

\* busy: the await the flow is suspended at; held: the backup an export is making
\* or the pasted text a verification is reading.
Setup ==
    [ step : {"generate", "backup", "confirm"},
      key : Keys \cup {None},
      password : Passwords \cup {None},
      same : BOOLEAN,                       \* both password fields agree
      clipboardPath : BOOLEAN,
      pasted : Backup \cup {None},
      verifyPassed : BOOLEAN,
      confirmed : BOOLEAN,
      busy : {"no", "generating", "deriving", "delivering", "verifying"},
      held : Backup \cup {None} ]

\* The flow as it is mounted, with every useState at its initial value.
Fresh ==
    [step |-> "generate", key |-> None, password |-> None, same |-> TRUE,
     clipboardPath |-> FALSE, pasted |-> None, verifyPassed |-> FALSE,
     confirmed |-> FALSE, busy |-> "no", held |-> None]

SetupTypeOK ==
    /\ browser \in Browsers
    /\ open \in BOOLEAN /\ shielded \in BOOLEAN
    /\ flowStep \in {"configure", "beneficiary-setup", "creating"}
    /\ beneficiaryHex \in Keys \cup {None}
    /\ plainBeneficiary \in {"address", None}
    /\ vaultIndex \in Indices
    /\ setup \in Setup
    /\ late \subseteq Backup
    /\ creating \subseteq Call
    /\ generated \subseteq Keys
    /\ delivered \subseteq Backup
    /\ vaults \in [Indices -> Vault \cup {None}]
    /\ confirmed_with \in [Keys -> Passwords \cup {None}]

SetupInit ==
    /\ browser \in Browsers
    /\ open = FALSE /\ flowStep = "configure" /\ shielded = TRUE
    /\ beneficiaryHex = None /\ plainBeneficiary = None /\ vaultIndex = 0
    /\ setup = Fresh
    /\ late = {} /\ creating = {} /\ generated = {} /\ delivered = {}
    /\ vaults = [i \in Indices |-> None]
    /\ confirmed_with = [k \in Keys |-> None]

-----------------------------------------------------------------------------
(* Mounting and unmounting.  Outside flowStep "beneficiary-setup" the flow  *)
(* does not exist; setup is kept Fresh then.                               *)

Mounted == open /\ flowStep = "beneficiary-setup"

\* An export that has passed the key derivation has read the key; one that has
\* not will find the zeroes the unmount effect leaves.
Abandoned ==
    CASE setup.busy = "deriving"   -> {Encrypt(Zeroed(setup.key), setup.held.password)}
      [] setup.busy = "delivering" -> {setup.held}
      [] OTHER                     -> {}

Unmount ==
    /\ setup' = Fresh
    /\ late' = late \cup Abandoned

\* The modal goes to step s, which mounts or unmounts the flow.
GoTo(s) ==
    /\ flowStep' = s
    /\ IF Mounted /\ ~(open' /\ s = "beneficiary-setup")
       THEN Unmount
       ELSE UNCHANGED <<setup, late>>

-----------------------------------------------------------------------------
(* CreateVaultModal *)

\* flowStep is left as it is: a creation that failed after the modal was closed
\* may have moved it.
Open ==
    /\ ~open
    /\ open' = TRUE
    /\ UNCHANGED <<browser, flowStep, shielded, beneficiaryHex, plainBeneficiary,
                   vaultIndex, setup, late, creating, generated, delivered, vaults,
                   confirmed_with>>

\* The effect of open turning false; the mode is not reset.  A modal that is
\* closed already has no such effect.
Reset ==
    /\ open' = FALSE
    /\ GoTo(IF open THEN "configure" ELSE flowStep)
    /\ beneficiaryHex' = None
    /\ plainBeneficiary' = None

\* Cancel, the cross, the backdrop, or Escape, which works at every step.
Close ==
    /\ open
    /\ Reset
    /\ UNCHANGED <<browser, shielded, vaultIndex, creating, generated, delivered,
                   vaults, confirmed_with>>

\* The owner's accounts are counted (0 when that fails), or an index is typed in.
DetectIndex(i) ==
    /\ open
    /\ i \in Indices
    /\ \/ i = Cardinality({j \in Indices : vaults[j] # None})
       \/ i = 0
       \/ flowStep = "configure"
    /\ vaultIndex' = i
    /\ UNCHANGED <<browser, open, flowStep, shielded, beneficiaryHex, plainBeneficiary,
                   setup, late, creating, generated, delivered, vaults, confirmed_with>>

ChooseMode(s) ==
    /\ open /\ flowStep = "configure"
    /\ shielded' = s
    /\ UNCHANGED <<browser, open, flowStep, beneficiaryHex, plainBeneficiary, vaultIndex,
                   setup, late, creating, generated, delivered, vaults, confirmed_with>>

TypeAddress(a) ==
    /\ open /\ flowStep = "configure" /\ ~shielded
    /\ plainBeneficiary' = a
    /\ UNCHANGED <<browser, open, flowStep, shielded, beneficiaryHex, vaultIndex, setup,
                   late, creating, generated, delivered, vaults, confirmed_with>>

Back ==
    /\ Mounted
    /\ open' = open
    /\ GoTo("configure")
    /\ UNCHANGED <<browser, shielded, beneficiaryHex, plainBeneficiary, vaultIndex,
                   creating, generated, delivered, vaults, confirmed_with>>

\* A key confirmed earlier goes before the address that was typed in.
resolvedHex(override) ==
    LET hex == IF override # None THEN override ELSE beneficiaryHex
    IN  IF hex # None THEN hex ELSE plainBeneficiary

\* handleCreate up to sendAndConfirmLegacyTx; override is the key just confirmed,
\* or None in standard mode, where the address is what was asked for.
handleCreate(override) ==
    /\ resolvedHex(override) # None
    /\ open' = open
    /\ GoTo("creating")
    /\ creating' = creating \cup
         {[index |-> vaultIndex, shielded |-> shielded,
           vault |-> [heir |-> resolvedHex(override),
                      wanted |-> IF override # None THEN override ELSE "address"]]}

handleContinueToBeneficiary ==
    /\ open /\ flowStep = "configure"
    /\ \/ /\ shielded
          /\ flowStep' = "beneficiary-setup"
          /\ UNCHANGED <<open, setup, late, creating>>
       \/ /\ ~shielded /\ plainBeneficiary # None
          /\ handleCreate(None)
    /\ UNCHANGED <<browser, shielded, beneficiaryHex, plainBeneficiary, vaultIndex,
                   generated, delivered, vaults, confirmed_with>>

\* initialize_vault refuses an index that is taken.
Lands(c) == vaults' = [vaults EXCEPT ![c.index] = c.vault]

CreateSucceeds(c) ==
    /\ c \in creating
    /\ vaults[c.index] = None
    /\ Lands(c)
    /\ creating' = creating \ {c}
    /\ Reset
    /\ UNCHANGED <<browser, shielded, vaultIndex, generated, delivered, confirmed_with>>

\* The transaction may have landed all the same.  flowStep is set whether or not
\* the modal is still open, or has meanwhile gone on to something else.
CreateFails(c) ==
    /\ c \in creating
    /\ \/ UNCHANGED vaults
       \/ vaults[c.index] = None /\ Lands(c)
    /\ creating' = creating \ {c}
    /\ open' = open
    /\ GoTo(IF c.shielded THEN "beneficiary-setup" ELSE "configure")
    /\ UNCHANGED <<browser, shielded, beneficiaryHex, plainBeneficiary, vaultIndex,
                   generated, delivered, confirmed_with>>

-----------------------------------------------------------------------------
(* BeneficiarySetupFlow *)

\* What the flow's own handlers leave alone.
FlowOnly ==
    /\ Mounted
    /\ UNCHANGED <<browser, open, flowStep, shielded, beneficiaryHex, plainBeneficiary,
                   vaultIndex, late, creating, vaults, confirmed_with>>

handleGenerate ==
    /\ FlowOnly
    /\ setup.step = "generate" /\ setup.busy = "no"
    /\ setup' = [setup EXCEPT !.busy = "generating"]
    /\ UNCHANGED <<generated, delivered>>

Generated ==
    /\ FlowOnly
    /\ setup.busy = "generating"
    /\ \/ \E k \in Keys \ generated :
            /\ setup' = [setup EXCEPT !.key = k, !.step = "backup", !.busy = "no"]
            /\ generated' = generated \cup {k}
       \/ /\ setup' = [setup EXCEPT !.busy = "no"]
          /\ UNCHANGED generated
    /\ UNCHANGED delivered

\* The clipboard panel takes the place of the password form.
PasswordForm == setup.step = "backup" /\ ~setup.clipboardPath

\* The fields stay editable while an export is under way.
TypePassword(p, same) ==
    /\ FlowOnly
    /\ PasswordForm
    /\ setup' = [setup EXCEPT !.password = p, !.same = same]
    /\ UNCHANGED <<generated, delivered>>

handleSaveBackup ==
    /\ FlowOnly
    /\ PasswordForm /\ setup.busy = "no"
    /\ setup.key # None
    /\ setup.password \notin Short \cup {None} /\ setup.same
    /\ setup' = [setup EXCEPT !.busy = "deriving",
                   !.held = Encrypt(Read(setup.key), setup.password)]
    /\ UNCHANGED <<generated, delivered>>

\* exportBeneficiaryIdentity reads the key once the AES key has been derived.
exportBeneficiaryIdentity ==
    /\ FlowOnly
    /\ setup.busy = "deriving"
    /\ setup' = [setup EXCEPT !.busy = "delivering"]
    /\ UNCHANGED <<generated, delivered>>

Saved(s) ==
    /\ setup' = s
    /\ delivered' = delivered \cup {setup.held}

SaveFails ==
    /\ setup' = [setup EXCEPT !.busy = "no", !.held = None]
    /\ UNCHANGED delivered

\* Slip: a clipboard that refused the text counts as a backup.
DeliverUnchecked ==
    \/ /\ browser = "restricted"
       /\ setup' = [setup EXCEPT !.clipboardPath = TRUE, !.busy = "no", !.held = None]
       /\ UNCHANGED delivered
    \/ /\ browser # "restricted"
       /\ setup' = [setup EXCEPT !.step = "confirm", !.busy = "no", !.held = None]
       /\ UNCHANGED delivered

\* Restricted browsers: clipboard.  Then the share sheet, and when that fails for
\* any reason but the user's, a download.
Deliver ==
    \/ /\ browser = "restricted"
       /\ Saved([setup EXCEPT !.clipboardPath = TRUE, !.busy = "no", !.held = None])
    \/ /\ browser # "restricted"
       /\ Saved([setup EXCEPT !.step = "confirm", !.busy = "no", !.held = None])
    \/ /\ browser \in {"restricted", "share"}
       /\ SaveFails

DeliverBackup ==
    /\ FlowOnly
    /\ setup.busy = "delivering"
    /\ Deliver
    /\ UNCHANGED generated

\* An export of a flow that is gone still opens its share sheet or downloads.
DeliverLate(b) ==
    /\ b \in late
    /\ late' = late \ {b}
    /\ delivered' \in {delivered, delivered \cup {b}}
    /\ UNCHANGED <<browser, open, flowStep, shielded, beneficiaryHex, plainBeneficiary,
                   vaultIndex, setup, creating, generated, vaults, confirmed_with>>

ExportFails ==
    /\ FlowOnly
    /\ setup.busy = "deriving"
    /\ SaveFails
    /\ UNCHANGED generated

ContinueToConfirm ==
    /\ FlowOnly
    /\ setup.step = "backup" /\ setup.clipboardPath
    /\ setup' = [setup EXCEPT !.step = "confirm"]
    /\ UNCHANGED <<generated, delivered>>

Tick ==
    /\ FlowOnly
    /\ setup.step = "confirm"
    /\ setup' = [setup EXCEPT !.confirmed = ~setup.confirmed]
    /\ UNCHANGED <<generated, delivered>>

Paste(b) ==
    /\ FlowOnly
    /\ setup.step = "confirm" /\ setup.clipboardPath
    /\ setup' = [setup EXCEPT !.pasted = b, !.verifyPassed = FALSE]
    /\ UNCHANGED <<generated, delivered>>

handleVerify ==
    /\ FlowOnly
    /\ setup.step = "confirm" /\ setup.clipboardPath
    /\ setup.busy = "no" /\ setup.pasted # None /\ ~setup.verifyPassed
    /\ setup' = [setup EXCEPT !.busy = "verifying", !.held = setup.pasted]
    /\ UNCHANGED <<generated, delivered>>

\* What verification asks of the text: it opens, and to this key.
Verifies ==
    /\ Opens(setup.held, setup.password)
    /\ setup.held.key = setup.key

Verified ==
    /\ FlowOnly
    /\ setup.busy = "verifying"
    /\ setup' = [setup EXCEPT !.busy = "no", !.held = None,
                   !.verifyPassed = setup.verifyPassed \/ Verifies]
    /\ UNCHANGED <<generated, delivered>>

MayConfirm ==
    /\ setup.step = "confirm"
    /\ setup.confirmed
    /\ setup.key # None
    /\ setup.clipboardPath => setup.verifyPassed

\* onComplete, in the modal: the key is remembered and the vault created, unless
\* the wallet has gone.
onComplete ==
    /\ Mounted
    /\ MayConfirm
    /\ beneficiaryHex' = setup.key
    /\ confirmed_with' = [confirmed_with EXCEPT ![setup.key] = setup.password]
    /\ \/ handleCreate(setup.key)
       \/ UNCHANGED <<open, flowStep, setup, late, creating>>
    /\ UNCHANGED <<browser, shielded, plainBeneficiary, vaultIndex, generated, delivered,
                   vaults>>

-----------------------------------------------------------------------------

SetupNext ==
    \/ Open \/ Close \/ Back
    \/ \E i \in Indices : DetectIndex(i)
    \/ \E s \in BOOLEAN : ChooseMode(s)
    \/ \E a \in {"address", None} : TypeAddress(a)
    \/ handleContinueToBeneficiary
    \/ \E c \in creating : CreateSucceeds(c) \/ CreateFails(c)
    \/ handleGenerate \/ Generated
    \/ \E p \in Passwords, same \in BOOLEAN : TypePassword(p, same)
    \/ handleSaveBackup \/ exportBeneficiaryIdentity \/ ExportFails \/ DeliverBackup
    \/ \E b \in late : DeliverLate(b)
    \/ ContinueToConfirm \/ Tick
    \/ \E b \in delivered \cup {None} : Paste(b)
    \/ handleVerify \/ Verified
    \/ onComplete
=============================================================================
