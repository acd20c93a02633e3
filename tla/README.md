# Legacy Protocol: formal models

A dead man's switch on Solana. An owner keeps an inheritance in a vault and
checks in from time to time. When she has been silent for a configured number
of slots anybody may trigger the vault, and her beneficiary claims it. A council
of guardians can, with M of N signatures and a timelock, replace the
beneficiary, remove one of its own or sweep the vault to the beneficiary. A
watcher follows every vault off chain, and a relayer sends the trigger
transaction when a vault is due. Funds may also be kept in a shielded pool
(Cloak); the vault then holds only a record of them.

This directory holds TLA+ models of that code, the TLC configurations that check
them and TLAPS proofs about them. `PROJECT.json` lists every run, the source
lines of every definition (`map`), the hazards the properties are aimed at, and
for each property a mutant of the code under which TLC finds it violated.

Run a model with `tlc -config council.cfg MCLegacyVault.tla`, a proof with
`tlapm LegacyVault_proofs.tla`.

## Inventory

| Component | Source | State | Operations | Correct when |
|---|---|---|---|---|
| On-chain program | `programs/legacy_vault/src/instructions`, `lib.rs`, `state`, `constants.rs` | vault, activity, guardian and covenant accounts, all derived from owner and vault_index; lamports | 17 instructions | the trigger needs the full silence; the heir and the council change with quorum and notice; a triggered vault is frozen; payments go to the heir; counters agree with accounts |
| Slot arithmetic | `programs/legacy_vault/src/math` | none | score, zone, milestones, crossed, anomalous | the formulas agree with each other at the boundaries; overflow is an error |
| Watcher | `watcher/src` | SQLite row per vault (copy of the chain, warning flags, `trigger_signalled`, `is_active`), current slot, `isPolling` | account stream, snapshot, poll cycle, pings, warnings, anomaly flags, signal | every due vault is signalled, once; alerts are not repeated; rows follow the chain |
| Relayer | `relayer/src` | map of jobs in memory | signal or poll, pre-flight, broadcast with retries, escalation | one broadcast per vault; never on stale grounds; ends; a due vault is triggered |
| SDK | `sdk/src` | the attempt under way | build, send, retry, offline bundle, decode | success means executed; a retry does not repeat what was done |
| Shamir | `crates/shamir`, `sdk/src/shamir.ts` | none | split, reconstruct, verify | any M shares give the secret, fewer nothing |
| Cloak integration | `cloak-integration/src` | keys and notes of owner and beneficiary | generate, back up, import, shield, scan, transfer, withdraw | what is settled on chain was transferred; a key in use can be restored |
| Web app | `app/src` | React state and refs of a page, the handlers suspended at an await | vault creation, share distribution, recovery, shielded deposit, inheritance execution, claim; dashboards, covenants, Blink actions | a late answer does not overwrite a newer one; a registered key is backed up; a secret is in one place; a failure leaves the flow where it can go on |
| Guardian app | `guardian-app` | phase of the screen, what the scan found, shares in the form | scan, confirm, transfer through the signing service; risk brief | "executed" means that what was found was transferred |
| Signing service | `signing-service` | none between requests | scan, transfer, test reconstruction | an answer of success stands on a transfer in the pool |
| QVAC sidecar | `qvac-sidecar` | queue of one, loaded model | complete, embed, search | requests are answered in turn |

How they interact: owner, guardians, beneficiary and relayer send instructions
to the program (atomic transactions, ordered by the chain). The watcher reads
accounts by RPC and by an account stream, writes its rows, and hands a due vault
to the relayer either through an event in the same process or through its HTTP
endpoint, which a separate relayer polls. The relayer reads the chain again and
sends `trigger_inheritance`. Watcher and relayer are single Node.js threads: a
callback runs to its next `await`, and everything may happen between two awaits.
So is a browser page, with two more actors: the user, who clicks what is shown,
and the render, which mounts and unmounts components and runs their effects. The
pages send instructions through `sendAndConfirmLegacyTx` of the SDK and call the
shielded pool through the Cloak integration; the vault account and the pool know
nothing of each other.

What is hard: owner and callers race for the same slots; two removal paths for
one guardian; a timelock that starts at the right signature; addresses that are
used again; two reads that are not one snapshot; confirmations that get lost;
restarts that lose memory but not the database; alerts computed on a snapshot
that several awaits have made old; a handler that goes on after its form is gone; state
of a page that outlives what it described; a key that is zeroed in place while
somebody still holds the array; two halves of one settlement in two systems; a
transaction that is executed after its sender gave up on it and sent another.

## Modules

| Module | Models |
|---|---|
| `VaultMath` | `math/threshold_calc.rs`, `math/activity_score.rs`: every step a checked u64 operation, `Overflow` for `MathOverflow` |
| `LegacyVault` | all accounts of one vault address and all instructions on them; the clock |
| `VaultLifecycle` | abstract: what an observer of one address may rely on (absent, open, triggered, absent) |
| `Relayer` | the relayer's handlers and job map, the watcher's finding and signal, the network, restarts; the chain is `VaultLifecycle` |
| `Watcher` | one row of the watcher: snapshot and stream, poll cycle, pings, warnings, signal, failing calls, restarts; the chain is `VaultLifecycle` |
| `BeneficiaryIdentity` | the beneficiary's key and its encrypted backup, for the two modules that use it |
| `BeneficiarySetup` | `CreateVaultModal` and `BeneficiarySetupFlow`: the key is generated, backed up, verified and registered with a new vault |
| `BeneficiaryClaim` | the claim page: import, scan, withdrawal, compliance proof |
| `BeneficiaryKey` | the two composed: from the form to the payment |
| `Shamir` | GF(256), split and reconstruction as the SDK and the crate compute them |
| `ShareTools` | `ShamirDistributor` and the recovery page |
| `ShareCustody` | the owner's key on the vault page and in `GuardianShareDistribution`, the guardians' cards |
| `Sending` | `sendAndConfirmLegacyTx` under `withRetry`, transactions nobody awaits |
| `Settlement` | shielded deposit, inheritance execution in the web app and in the guardians' desktop app, and the heir's page, over `Sending`, the vault's ledger and the pool |
| `VaultMath_proofs`, `LegacyVault_proofs`, `Relayer_proofs`, `Watcher_proofs`, `BeneficiaryKey_proofs`, `ShareTools_proofs`, `ShareCustody_proofs`, `Settlement_proofs` | theorems about the eight |
| `MCVaultMath`, `MCLegacyVault` | what TLC needs: a timeline over the arithmetic, the symmetry of guardians and heirs |

`LegacyVault` EXTENDS `VaultMath`. `LegacyVault!ImplementsLifecycle` is the
refinement (`INSTANCE VaultLifecycle WITH status <- vault.status, ...`), and
`Relayer` and `Watcher` use `VaultLifecycle` as their environment, so what is
shown for the services holds over the real program as far as the refinement
carries it. `BeneficiaryKey` EXTENDS `BeneficiarySetup` and `BeneficiaryClaim`,
which EXTEND `BeneficiaryIdentity`; `ShareTools` EXTENDS `Shamir`, `Settlement`
EXTENDS `Sending`. `ShareCustody` does not compute shares: it takes from `Shamir`
that a threshold of shares of one split restores what was split and fewer do not,
which is what `ShareTools_proofs` proves of the arithmetic.

### LegacyVault and the code

One action per instruction handler, under the names of the code
(`RemoveGuardian` has two disjuncts because the handler has two phases). A
Solana transaction is atomic, so the guard of an action collects the account
constraints (`has_one`, seeds, `init`, `close`) and the `require!` checks, and
its effect is the whole handler. Accounts are records with the fields some guard
or property reads. An account that does not exist is a normal form (`NoVault`,
`NoCovenant`, a guardian outside `registered`). `is_claimed`,
`is_emergency_swept`, `is_executed` and `is_active = false` are only written by
the instruction that closes the account in the same transaction, so no stored
account shows them. The warning flags of the vault are false in every stored
account, because no instruction sets them.

`received`, `quorum_slot` and `inits` are history: who was paid how much, the
slot at which enough distinct guardians had signed (counted by the model, not
copied from the account), and how often the address was initialised.

Left out of it: rent and lamports sent to the address without an instruction;
`last_interval`, `added_slot`, `created_slot` of a covenant and other fields that
are only reported; events; other vaults (addresses are derived from owner and
index, no instruction touches two of them).

### Relayer and the code

An action is what runs between two awaits. A handler is one call of
`handleTriggerSignal`; its `pc` is the await it is suspended at: `slot` and
`account` are the two reads of `verifyTriggerPreflight`, `submit` has the
transaction still to simulate and send, `sent` waits for the confirmation,
`landed` is the same wait after the transaction was executed, `backoff` is the
sleep of `withRetry`. `mode` is `RELAYER_MODE`. `stray` counts transactions
nobody waits for any more but which may still be executed. A restart empties
`job`, `handlers` and `answered`, not the watcher's row.

Of the watcher the module has two columns of the row (`is_active`,
`trigger_signalled`) and how far a poll cycle is with the vault (`cycle`):
`ListVaults` fixes the cycle's slot and takes the vault up only if its row is
active (`getAllActiveVaults`), `Classify` finds it Red or not, `Signal` sets the flag
and emits; the owner may have checked in between. `due` is a cycle that will find
the vault Red if nothing happens to it meanwhile (`CycleKeepsUp`). `UpdateRow` puts
the row on the list and takes it off at any time: when the real rows are on it is the
subject of `Watcher`. `AskWatcher` and `PollWatcher` are the two ends of a poll of
`/vaults`, whose answer names active, signalled rows only. `WatcherFault` is a
cycle or a poll that fails.

Left out: escalation messages, the PDA check on event data, health endpoints,
the fields of the event other than its signature (valid, invalid or unchecked),
vaults other than one (the job map is keyed by vault and handlers of different
vaults share nothing).

### Watcher and the code

An action is what runs between two awaits. The stream's callbacks and the poll
cycle share one thread and interleave; `isPolling` keeps the cycle from being
entered twice, so it has one `pc`: `fetch` (the two account reads of
`reconcileVault` are under way), `fetched` (answered), `gone` (found triggered or
closed, the rest of the batch still awaited), then the three alert stages. A
stage is one action although a ping awaits the guardian addresses in it, because
what it decides from (`record`, `cycleSlot`) cannot change meanwhile. `stream` is
where `startGeyserClient` is, from `boot` (before the first poll cycle) to `live`;
`inbox` is the snapshot's answer or the updates of the vault's account under way,
`activity` an update of its activity account, whose handler writes the stored row
back and so puts a known vault on the list again, a closed one too. `row` is what
SQLite keeps, so `Restart` leaves it alone, or dies between the flag and the event
(`DieBeforeEmit`). The slot of a cycle may be ahead of the accounts by
`SlotLead`, because slot notifications are not filtered by commitment and
accounts are read when confirmed.

`read_slot` and `signals` are history.

Left out: the anomaly stage (it changes `anomaly_flagged`, which no alert reads,
and takes time, which the stages do anyway), the heartbeat's pacing (a cycle may
start whenever the stream is live), maintenance, metrics, vaults other than one.

### BeneficiarySetup, BeneficiaryClaim and the code

The variables are the React state and refs of the two components under their
names (`flowStep`, `shielded`, `beneficiaryHex`, `step`, `identity`, `utxos`);
`setup` is the mounted `BeneficiarySetupFlow`, `calls` the handlers of the claim
page that are suspended at an await. A handler goes on after its component is
unmounted: `late` are the exports still under way in forms that are gone. The key
is zeroed in place when the form unmounts, so an export that reads it later
encrypts zeroes (`whole = FALSE`). `browser` says which of the three ways
`browser-env.ts` offers for handing over a backup.

An identity is the name of its key and whether its bytes are still there; a
backup is that with the password it was made with. Encryption is modelled by what
decryption gives back and when it refuses. `vaults` is the chain: creating at a
taken index fails, other failures are free. `wanted` and `confirmed_with` are
history.

A scan shows what the key has in the pool or nothing (`Scanned`): it has a limit, and
the viewing key of a backup comes as beneficiary-setup.ts:41 stored it, while
claim.ts:118 converts the one it derives, so that the scan of an imported backup may
be one for another key. Nothing in the repository decides which of the two the pool
reads.

Taken as given: a download, a share sheet or a clipboard write that the browser
accepted delivers the backup. The claim page is used after the form has been
closed (months lie between). Left out: the detection of a free index beyond "some
index is in the field", the range checks of the threshold field, copying the same
backup again, unmounting the claim page.

### Shamir, ShareTools and the code

The field is the code's own GF(256): `Product` is the doubling loop with the
reduction by 0x11b, `Inverses` the square-and-multiply loop for `a^254` (both are
tabulated once, which is what `gfMul` and `gfInv` look up), `splitSecret` Horner's
rule over the coefficient bytes and `reconstructSecret` the Lagrange sum, with the
checks in the code's order (`ShamirError` is the refusal). `FieldSum` and
`FieldProduct` are its two loops, `Lagrange` the coefficient of one share. The random
coefficients are an argument. `TablesAssumption` states of the three tables what the
proofs start from; it has no parameter, and TLC evaluates it for all bytes in every run
of `ShareTools`. The tools are one action per handler, over the components' state.
`made` is history.
`ShamirDistributor` is imported by the dashboard and mounted by no page at this
commit; it is modelled as written.

### ShareCustody and the code

`page` is what the vault page last read by polling `chain`, so that it may be old;
`key` is the array in `ownerIdentityRef` (none, live, zeroes), `panel` the import
panel. A component's mount effect and cleanup are not actions of their own: the
operator `Render` follows every change of the state that decides what is mounted,
as React does in the same turn. `dist` is the mounted `GuardianShareDistribution`
(its effect splits, then zeroes); `splits` and `held` are the shares made and the
cards handed over, `relabelled` is history.

Left out: the contents of the import (any import that succeeds brings the vault's
key), fees and the deposit's own steps (they are in `Settlement`).

### Sending, Settlement and the code

`call[c]` is the await the one call of page `c` is suspended at: `build` (blockhash
and wallet), `send`, `confirm`, then `landed` or `failed` (executed, not yet seen),
and `returned` or `threw`. `adrift[i]` counts the transactions with instruction `i`
that nobody awaits: an attempt whose timer fired, a submission whose answer was
lost, a closed page. Each may still be executed or dropped. `Settlement` says what
executing an instruction does: the part of `LegacyVault` about the shielded ledger
and the status, with a deposit counted as 1.

`deposit` is `ShieldedDepositFlow`, `exec[g]` the `InheritanceExecutor` of guardian
`g`; `found` is what the scan returned, which the transfer then goes through. The
shares typed into a page are not part of the state: a scan with the right ones
returns any part of what the owner has unspent (`Scans`; `scanTransactions` stops at
250 entries and what it shows is filtered, inherit.ts:105-114), one with wrong ones
nothing, and either may fail. Only an empty scan is refused by `handleExecute`: the
claim is recorded behind a partial one as well. A handler survives the unmounting of
its component (`Unmount`) and dies with its page (`GuardianCloses`).

The pages decide on their copy of the vault, read by polling. For the guardian's page
`ShownClaimable` is what an old copy may still say: triggered, of a vault that is
closed by now. The heir's page awaits its call only to report it and its copy is no
state: of what an old copy offers, the program executes only what a copy loaded now
would offer, so its action is the execution.

`recorded` and `missed` are history: the UTXOs whose deposit was recorded, and those of
them that the scan behind a claim left out.

`desk[g]` is the `SignCovenant` screen of the guardian's desktop app, whose requests
`/scan` and `/execute` go to the signing service on the same machine
(`cloak-bridge.ts`, `signing-service/index.js`). It has no guard on the vault's
status, confirms an empty scan as well, and sends no instruction: after its transfer
the guardian sees "done" and the vault is what it was. `ServiceFails` and
`DeskCloses` end a request whose transfer may have landed. A guardian works in one
of the two apps at a time (`MayOpen`, `OpenSignCovenant`); two guardians may work in
different ones over the same UTXOs, and the pool takes each UTXO once. The risk brief
on the way to the screen is left out: it only shows text.

Left out: amounts and fees, the wallet's connection, toasts, the test
reconstruction, the deadline (the trigger may come at any time); of the SDK the
versioned sender, `simulateTx` and the offline bundle, which no code of the app
uses; in `send.ts`, the same without retries.

## Runs

| Run | Module | Checks |
|---|---|---|
| `vault_math` | `MCVaultMath` | the arithmetic's three computations of the deadline agree; the anomaly test is exact |
| `council` | `MCLegacyVault` | quorum, notice, removal, trigger, check-in; refinement of `VaultLifecycle` |
| `lifecycle` | `MCLegacyVault` | two lives of an address, deposits, shielding, settlement |
| `relayer` | `Relayer` | mutual exclusion, sound pre-flight, bounded retries, eventual trigger of a vault the watcher keeps on its list |
| `watcher` | `Watcher` | one signal per row across restarts; alerts stand on what was read; gone vaults leave the list, due ones on it are signalled |
| `keys` | `BeneficiaryKey` | a registered key is in a backup that opens; a finished claim has paid and holds no key; the waiting screens are left |
| `shamir` | `ShareTools` | any threshold of cards restores the secret; fewer are compatible with another one; a revealed secret is on a timer |
| `custody` | `ShareCustody` | one live copy of the owner's key; a quorum of the council restores it, fewer do not |
| `settlement` | `Settlement` | success shown means executed; a closed vault's UTXOs were moved, whichever app moved them, save what the scan behind a claim did not show |
| `stale_key`, `zero_split`, `double_record` | `BeneficiaryKey`, `ShareCustody`, `Settlement` | each one statement of a doc, comment or screen that the code does not keep (see Findings) |

### Bounds, and why they are enough

* `vault_math`: last check-in 0..3, threshold 1..14, count 0..4, sum 0..9, clock
  0..20, `MaxU64 = 1250`. Every threshold up to 14 gives all remainders of the
  75 and 90 per cent offsets that occur below a hundred in steps of the
  threshold; the clock passes every deadline; scores overflow above a silence of
  12 and milestone products above a threshold of 13, so both sides of every
  overflow check occur.
* `council`: three guardians (quorums 1, 2, 3, a removal with a quorum left), two
  heirs, one covenant at a time that can be closed and is not reused, threshold 2
  slots, timelocks 1 and 0, four slots. Four slots hold: check-in, quorum, a
  timelock, and a trigger or an execution after it. The timelocks of 0 and 1 lie
  on both sides of "same slot".
* `lifecycle`: two guardians, two lives of the address (the second one sees what
  the first left), deposits of one lamport up to two, so a plain and a shielded
  deposit can meet; three slots.
* `keys`: two keys, so that a late save of the first meets the second; a short and
  a good password; every kind of browser; one vault index (a second creation at it
  fails, which is what leaves a key behind in the form); two handlers of the claim
  page at once, so that scans and withdrawals overlap.
* `shamir`: one secret of two bytes, one value of the random bytes, one split,
  fields set to 0 or 3 (with the initial 3 and 2 this gives the thresholds 2 and 3
  and a refused 0), up to three cards in any order, repeated cards included. One
  other byte is what the secret's bytes might have been (`Candidates`), for hands of
  none, one and two cards. The coefficients that explain a hand are searched among
  all 65 536 pairs of bytes, in the order of their values, so the run's bytes are ones
  whose explanation comes early; the theorems hold for all.
* `custody`: two guardians, two splits, one change of the council. A third split or
  change repeats what the second can do; the second split is what meets a zeroed
  key and cards of the first. `StillSplitting` ends the run where the panel of the
  last split has gone: what the page does then it also did after the first.
* `settlement`: two guardians, two UTXOs (one moved, one not), two attempts, one
  transaction adrift for each instruction: the second attempt is the one that can
  meet the first, executed late. Two UTXOs are what a partial scan needs. Guardians
  are symmetric; with symmetry there is no liveness to check here. This is the
  largest run, about 2.3 million states in three minutes.
* `relayer`: two handlers (a third would need a second `Accepts` while one is at
  work, which `OneBroadcast` excludes), two attempts, two faults (of the relayer's
  calls or of the watcher's), one restart, both modes, all three outcomes of the signature
  check, four slots and two lives of the vault.

* `watcher`: two lives of the vault in three slots, threshold 2, so that a
  silence can become due, end in a trigger or a check-in, and the address be used
  again; warning levels of 50 and 90 per cent, so that a ping comes one slot
  before Red; one update of each account under way, one fault (a failing call or a broken
  stream), one restart, slot notifications up to one slot ahead.

The program's real constants (slots by the million, ten guardians) are not
needed for these questions: guards compare differences of slots with a constant,
and the proofs hold for all values.

`CHECK_DEADLOCK FALSE` in the cfgs of the vault, the services and the keys: the
models have a bounded clock and bounded counters and really stop when these are
used up; an owner may also just stop using the program, and a beneficiary who has
been paid is done. `shamir`, `custody` and `settlement` are checked for
deadlock.

### Fairness

`Relayer` assumes weak fairness of what runs by itself: the watcher's cycle
(`ListVaults`, `Classify`, `Signal`: a stream heartbeat starts the next cycle, and
every promise in it settles), the relayer's poll timer and its request
(`AskWatcher`, `PollWatcher`), and for each handler the promise it awaits,
which always settles (RPC calls and the confirmation wait have timeouts, the
back-off is a timer), together with the validators that execute or refuse a
transaction that is waited for. Nothing is assumed of the owner, the council,
other callers, faults, restarts, transactions nobody waits for, or of the row being
on the list: a late deactivation (activity.ts:253) or the gap before the subscription
(geyser_client.ts:69) may keep a due vault off it, and then nobody asks for it. This
is why `EventuallyTriggered` and `DueVaultSignalled` are about a vault that is on the
list and stays there. The number of
faults and restarts is bounded: without that no service of this kind makes
progress.

`Watcher` assumes weak fairness of the stream (the reconnect loop of
`startGeyserClient` never gives up, and delivers what it receives) and of the
poll cycle (slot notifications keep coming on a live stream, and every promise it
awaits settles). Breaking a stream is a fault, and faults are bounded.

`BeneficiaryKey` assumes weak fairness of `Settles`, for each call of the claim
page: a promise it awaits is fulfilled or rejected. It does not assume that a call
ever succeeds, nor that anybody clicks.

## What is proved

`VaultMath_proofs` proves the three properties of the arithmetic for any silence,
threshold, history and width of the integers. They rest on one fact about truncating
division, `Quotient` (`a \div b` is the one `q` with `q*b <= a < (q+1)*b`), from
which `QuotientAtLeast` follows: `a \div b >= k` exactly when `a >= k*b`. With the
divisor as a variable the solver does not find this by itself, so every use is
through these lemmas. `ScoreReaches` is then the statement about the score: where it
does not overflow, it is at least `p` exactly when a hundred times the silence is at
least `p` times the threshold (`CrossedIffRed` is its case 100), and
`MilestoneWithinSlot` bounds what the rounding of a milestone loses by one slot.
`AnomalyIsExact` is `QuotientAtLeast` twice.

`LegacyVault_proofs` proves, for any finite set of guardians, any heirs, and any
limits, thresholds and timelocks within `KeysAssumption` and `LimitsAssumption`,
everything the two runs check:

* `TypeInv` is `TypeOK` with the typing of covenant targets by covenant type
  (`CovenantTargets`): a removal covenant names a guardian or nobody, a
  beneficiary covenant an heir or nobody.
* `VaultInv` collects the invariants about the vault that are only inductive
  together: absent accounts are empty (`AbsentIsEmpty`), slots lie in order
  (`Chronology`: created, last check-in, now), `QuorumWithinCouncil`,
  `TriggeredMeansSilent`, `ActivityDescribesOwner`, `DepositsAccounted`. The
  chronology is what makes the interval sum telescope and what keeps a trigger
  from being undone by arithmetic.
* `CountWithinRegistry` needs the cardinality of `registered`: it grows and
  shrinks by one with the counter, and when the address starts a new life the
  counter restarts at 0 below whatever is left.
* `CovenantInv` is `QuorumIsGenuine` with "no observed quorum where there is no
  covenant" (`EmptyUnobserved`).
* `FirstLife` is what `CountIsRegistry` and `OwnerCloseStrandsNothing` need. While
  the address has its first vault, guardian accounts and `guardian_count` move
  together and every covenant account belongs to that vault, so that counters of
  zero, which is what `close_vault` looks at, mean that nothing is left. `inits <= 1`
  is the premise of both: in a second life neither holds (see Findings).
* the action properties and the refinement of `VaultLifecycle` follow from these
  invariants action by action.

`Relayer_proofs` proves for any number of handlers, attempts, faults and
restarts: types, `OneBroadcast`, `ConfirmedIsTriggered`, `PreflightIsSound`. The
invariant `AtWork` says which handler belongs to the job, that the slot it read
is not ahead of the clock, and that a landed transaction has left its trace in
`triggered_once`. The two reads of the pre-flight are sound because the slot is
read first: the clock only moves on, so what was past the deadline then is past
it when the account is read.

`Watcher_proofs` proves for any thresholds, warning levels, lead and number of
faults and restarts: types, `SignalledOnce`, `AlertsAreGrounded`. `CopiesSound`
strengthens the types: every copy of an account in the stream or the cycle that
is not absent has a threshold other than 0. `FlagRemembers` is what a signal
leaves behind: whoever emitted one has set the flag, no upsert lists it among its
columns, and nothing else writes it. `SlotBeforeRead` keeps the cycle's slot at
most the lead ahead of its read; `ScoreMonotonic` says that a later slot does not
lower a score, truncating division included, and the two together ground an
alert.

`BeneficiaryKey_proofs` proves for any keys, passwords, browsers and number of
calls: types, `RegisteredKeyIsBackedUp`, `FinishedClaim`. The first needs what is
on its way as well: `FlowInv` (which step of the form may hold which await, and
that the backup being verified was delivered), `HollowInv` (a backup of zeroes is
never one of the key the form shows now, because keys are not generated twice) and
`RegistryInv` (whatever key the modal keeps, a creation under way carries or a
vault names is backed up). For the claim, whoever is past the payment has paid
(`CallsInv`).

`ShareCustody_proofs` proves for any guardians, splits and changes: types,
`OneCopyOfTheKey`, `CouncilRestores`. The first is inductive with `PanelNeedsKey`:
the import panel is open only while the page holds no key. The second needs
`CustodyInv`: a card is in the hands of the guardian at its place in the list its
split was made for, unless that split has been relabelled (`CardsNamed`); lists name
nobody twice and a split has the degree the page asked for (`SplitsAsShown`); the
list on the page is the one of the split on the screen (`ListShown`). From it
`OneCardEach`: once a split in force is dealt, the cards of a group are as many as
the group, so a group of `m` has `m` different shares and a smaller one has fewer.
That `m` shares restore and fewer do not is the operator `Restore`; that the arithmetic
does this is what `ShareTools_proofs` proves.

`Settlement_proofs` proves for any number of guardians, UTXOs, attempts and
transactions adrift: types, `SuccessMeansLanded`, `ClosedMeansMoved`. `AllMoved` is what
must hold before a claim is sent: every recorded UTXO outside `missed` is moved, and if
any is recorded something is. `ExecutorInv` follows a guardian's page: it sends the
record only when `AllMoved` holds, and only on a triggered vault; `ClaimAdriftInv` says
the same of a record nobody awaits. `TransferMoves` is the step that brings it about.
Since no deposit is recorded after the trigger, it stays true once it is, whoever
closes the vault in the end. `ClosedMeansMoved` does not say that nothing is left: what
no scan showed is left (see Findings), and so is a UTXO whose record was never
executed. `DeskInv` is the desktop screen's part of `SuccessMeansLanded`. It
rests on `MovedStays`, an invariant of every step: what left the owner's UTXOs does
not come back. The desktop app changes only the pool, and only in that direction, so
`DeskKeeps` carries the other parts over all of its steps at once.

`ShareTools_proofs` proves everything the run of `ShareTools` checks, for any
secrets, coefficients, thresholds and numbers of shares, cards and splits.

* `RevealedIsTimed`: only `handleVerify` puts a secret on the screen and it starts the
  timer in the same turn; the timer and the reset take the secret away with it, and no
  other step touches either. `Written` is what this needs of the types: the fields an
  `EXCEPT` updates exist.
* `DealInv` says what a deal leaves in circulation. `ScreenInv`: the shares shown are
  those of the last split, numbered from 1, a byte for each byte of the secret.
  `CardsInv` carries this to the cards, and `IndexTellsCards` follows: two cards of a
  split that have the same index are the same card. `PolynomialInv`: behind each split
  there is one list of polynomials with the secret's bytes as constants and as many
  coefficients as its threshold, and everything on the screen and on cards are values
  of these, at the index.
* `RefusedOnlyIfRepeated`: a hand of cards of one split is refused exactly when a card
  is in it twice, so the checks of `reconstructSecret` never refuse cards that belong
  together.
* `SplitReconstructs` (the functions alone) and `AnyThresholdRestores` (the pages, with
  `RecoveryInv`: the result is what the pasted cards combine to).
* `FewerTellNothing`, and `EveryByteAlike`, which no run can afford to check: whoever
  holds one card fewer than the threshold finds for every byte exactly one choice of the
  coefficients. Drawn uniformly, as the code draws them, they make every byte equally
  likely.

The arithmetic behind the last two starts from `TablesAssumption`: tables of bytes, both
operations commutative, 0 and 1 neutral, inverses, and associativity and distributivity
where one argument is a power of two. TLC evaluates all of it for every byte, so nothing
about the field is taken on trust; it is written with one-bit arguments because for all
triples of bytes TLC would need 2^24 cases of each law. `BitInduction` extends
the laws to all bytes (every byte is a sum of powers of two) as `AddAssoc`,
`Distributive` and `MulAssoc`.

Induction is over sets. `Induction` (a set with 0 that is closed under successor contains
`Nat`) follows from the library's well-foundedness of `<` on `Nat`, and takes no operator
as a parameter. With it the loops of the model, which are recursive functions, are shown
to exist and to satisfy their recursion (`LoopExists`, `SumStep`, `ProductStep`,
`EvaluationExists`, `HornerCons`), sums are linear (`SumLinear`), and `Interpolation` is
proved: for different points x[1..n], a polynomial P of at most n coefficients and any
other point y,

    P(y) / ((y + x[1]) ... (y + x[n]))  =  sum of  P(x[i]) / (w[i] (y + x[i])),

where w[i] is the product of the other x[i] + x[j]. The step to one point more writes
P(y) = c + y * Q(y) (`HornerSplit`), uses the hypothesis for 1 and for Q at y and at the
new point, and `PartialFractions`, 1/((x+z)(y+x)) = (1/(x+z) + 1/(y+x)) / (y+z). At y = 0
this is the Lagrange sum of the code (`ValueAtZero`). For the secrecy, `PolynomialThrough`
gives a polynomial through the hand and the byte in question (by Newton's form,
`FactorExists`), and `PolynomialUnique` says that there is no second one.

Only model-checked: liveness (`JobsEnd`, `EventuallyTriggered`, `GoneIsForgotten`,
`DueVaultSignalled`, `BusyEnds`), which needs fairness and
ENABLED. Every other property of a passing run is a theorem.

## Findings

Each is a run that ends in a counterexample.

1. `stale_key`: after the creation of a shielded vault failed, its key stays in
   `beneficiaryHex`. In Standard mode the form then shows the field for an address,
   and `handleCreate` (CreateVaultModal.tsx:175) still prefers the key. The vault
   names a beneficiary that is no wallet, and nobody can claim it.
2. `zero_split`: `showShareDist` and `hasOwnerIdentity` outlive the split
   (page.tsx:593). When the owner panel is unmounted before the last screen and
   mounted again, because the wallet disconnected or changed accounts, the panel
   splits the zeroed bytes and deals shares of the all-zero key, which verify. The
   comment at page.tsx:600-602 sees the danger and covers the way out over
   `onComplete` only.
3. `double_record`: a confirmation that times out is retried with a new blockhash
   (transactions.ts:139) while the first transaction may still be executed, and a
   failing `getSignatureStatus` (171) repeats one that was. The ledger counts the
   deposit twice. The plain `deposit` is sent the same way, and there the lamports
   move twice.

What the code does otherwise than a doc or comment says, found with the same
models and visible in them, but not kept as runs:

* Phase 1 of `remove_guardian` (remove_guardian.rs:68) is meant to block a removal
  that cannot be finalised (comment at 63-67, PROGRAM.md:209). It compares the
  count at that moment: two guardians may both have a removal pending, and after
  one is finalised the other is stuck until a guardian is added.
* Settlement leaves guardian accounts. A new vault at the address has
  `guardian_count` 0 beside active guardian accounts, whose holders can sign and
  flag (state/vault.rs:46 says the two agree): `CountIsRegistry` is false without its
  premise `inits <= 1`, and `CountWithinRegistry`, which holds in both lives, is only the bound.
* `record_cloak_deposit` accepts a vault that holds plain lamports.
  `record_cloak_claim` then pays them to its caller (deposit.rs:5-14 calls this
  impossible, SECURITY.md:29 says funds go to the beneficiary). This is why
  `PaidToHeirUnlessShielded` has its exception.
* A pre-flight that fails because of the RPC node ends the job as Skipped; in one
  process the signal never comes again (verify_threshold.ts:42, RELAYER.md:45 say
  it is retried).
* The pattern for `ThresholdNotReached` in retry.ts:208 is not the program's message
  (errors.rs:52-53), so a permanent error is retried to the last attempt. The SDK
  has the same list (sdk/src/transactions.ts:67-77), whose "already triggered for
  inheritance" is not the program's wording either.
* Each reconciliation overwrites the warning flags of the row with those of the
  account (activity.ts:202, and the upsert lists them), which no instruction sets;
  guardians are pinged and the beneficiary is warned in every cycle of a silence,
  whether an earlier alert was delivered or not. guardian_ping.ts:131-133 and 168-171,
  and WATCHER.md:249, say that the flags prevent it. No property is stated of it:
  none that the code keeps would be worth having.
* The snapshot is taken before the subscription is asked for
  (geyser_client.ts:69), so a vault initialised between the two is in neither,
  and the poll cycle reads only vaults it has a row for. geyser_client.ts:67-68
  says that the snapshot closes the gap. In `Watcher` the vault is then not on the
  list, which `DueVaultSignalled` excuses; it also excuses a vault that a reconciliation
  takes off the list after a newer account has come (activity.ts:253).
* An update of the activity account that comes after the vault was closed puts the row
  back on the list (index.ts:318-336; geyser_client.ts delivers the two accounts
  independently). `GoneIsForgotten` shows that the next cycle takes it off again.
* A scan that shows only part of the owner's UTXOs is settled like a whole one:
  inherit.ts:105-114 stops at 250 entries and InheritanceExecutor.tsx:176 refuses only
  an empty result. The vault is then closed over a UTXO that stays the owner's, while
  the page says "Assets delivered privately to the beneficiary"
  (InheritanceExecutor.tsx:270). This is the exception `missed` of `ClosedMeansMoved`.
* beneficiary-setup.ts:41 keeps the viewing key as the library returns it; claim.ts:118,
  shield.ts:78, inherit.ts:103 and BeneficiaryClaim.tsx:132 convert what they take for
  a number. Both cannot be right of one library function, whatever it returns.
* The desktop app's transfer is not followed by `record_cloak_claim`, at any time or
  on any vault (SignCovenant.tsx:154-184). inherit.ts:134-135 says that the caller
  "must immediately call record_cloak_claim", and inherit.ts:3-4 that guardians do all
  this when the covenant is signed and the threshold crossed. The vault stays
  triggered, or open, and until something is deposited again no execution in the web
  app can close it, because its scan finds nothing.
* "Executed" on the desktop screen may mean that nothing was there: an empty scan is
  confirmed and passed to the transfer like any other.

Smaller divergences, not checked by a run: ERRORS.md:38 and OWNER_GUIDE.md:92 tell
the owner to remove all guardians and close, but the last one cannot be removed;
lib.rs:42 says a threshold of 0 becomes the protocol minimum, the code takes the
default; the milestone slot may come one slot before the score reads 75
(`MilestonesAgreeWithScore` states the exact relation); RELAYER.md "FAILED: all
retries exhausted" also covers an "already triggered" answer on the second
attempt, when the first had landed; retry.ts:13 says verify_threshold.ts uses
`withRetry`, it does not; RELAYER.md documents a status PENDING that is never
used; watcher `isShielded` (activity.ts:97-102) looks at `depositedLamports == 0`,
which `record_cloak_deposit` makes non-zero; `ShamirDistributor` shows "secret matches"
(468) without comparing anything, and `InheritanceExecutor`'s "Shares reconstruct
correctly" holds of any distinct well-formed shares.

Behaviour the models contain and no document excludes: a transfer whose record
failed leaves the vault triggered, and a retry finds no UTXO and never sends the
record; a UTXO shielded just before the trigger stays unrecorded; deposits can
still be shielded after it; cards are named by the guardian list of the moment
(GuardianShareDistribution.tsx:255), so a change of the council between split and
download hands shares to other people than the list at the split; a removal may
lower `m_of_n_threshold` while the shares keep their degree; the password fields
stay editable while a backup is being saved.

## Plan

Done: everything in the table of modules, with the proofs above.

What would come next, most important first:

1. `TriggerPipeline`: watcher and relayer composed, from silence to trigger,
   refining `VaultLifecycle`. `Relayer` has the watcher's finding and flag in short;
   the rows of `Watcher` are not under it.
2. The covenant, check-in and guardian panels of the web app over `Sending`, with
   the guards of `LegacyVault` in place of those of `Settlement`.
3. `Watcher`, what is left of it: the anomaly stage with its retries, the
   heartbeat's pacing, the sidecar's queue.

## Not modelled

Encoding and decoding, address derivation (no protocol state); dashboards,
landing pages, styling, Blink actions (views of one instruction each); the guardian
app's risk brief, its shell and the start of its local processes; escalation,
metrics, logging, configuration; the language model and similarity search (their
answers are free inputs); generated bindings. The Cloak pool, RPC
nodes, wallets and the account stream service are external and modelled by how
the code uses them where a module needs them.
