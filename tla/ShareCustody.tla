----------------------------- MODULE ShareCustody -----------------------------
(***************************************************************************)
(* The owner's vault key in the browser: the vault page imports it from    *)
(* its backup into a ref, lends the ref to the deposit flow and to         *)
(* GuardianShareDistribution, which splits the key as it mounts, zeroes    *)
(* the bytes in place and has the cards handed to the guardians, while     *)
(* wallet, council and page change underneath.                             *)
(*                                                                         *)
(* A card names a split and a share of it; cards restore the key when they *)
(* are enough shares of one split of it (module Shamir).  An action is an  *)
(* event handler up to its next await, and the render it causes.           *)
(***************************************************************************)
EXTENDS Integers, Sequences, FiniteSets, SequencesExt

CONSTANTS
    Guardians,
    None,
    MaxSplits,          \* bound on the number of splits
    MaxChanges          \* bound on the changes of the council

ASSUME CustodyAssumption ==
    /\ IsFiniteSet(Guardians)
    /\ MaxSplits \in Nat
    /\ MaxChanges \in Nat

VARIABLES
    chain,              \* the vault account and its guardians
    page,               \* what the page last read of them, and the wallet
    key,                \* ownerIdentityRef: none, its live bytes, or zeroes
    panel,              \* the import panel: the mode it is open in, and that of the
                        \* import under way, or "no"
    showDeposit, showShares,
    dist,               \* the mounted GuardianShareDistribution, or None
    splits,             \* the splits made; asked: the threshold the page showed
    held,               \* the cards each guardian was given
    relabelled,         \* history: splits whose cards were shown by another list
    changes

vars == <<chain, page, key, panel, showDeposit, showShares, dist, splits, held,
          relabelled, changes>>

ui == <<panel, showDeposit, showShares>>

Card == (1 .. MaxSplits) \X (1 .. Cardinality(Guardians))

NoDist == None

Init ==
    /\ \E council \in SUBSET Guardians : \E m \in 1 .. Cardinality(council) :
          chain = [council |-> council, m |-> m, triggered |-> FALSE]
    /\ page = [loaded |-> FALSE, owner |-> FALSE, guardians |-> <<>>, m |-> 0,
               triggered |-> FALSE]
    /\ key = "none"
    /\ panel = [open |-> "no", busy |-> "no"]
    /\ showDeposit = FALSE
    /\ showShares = FALSE
    /\ dist = NoDist
    /\ splits = <<>>
    /\ held = [g \in Guardians |-> {}]
    /\ relabelled = {}
    /\ changes = 0

-----------------------------------------------------------------------------
(* Rendering: which flows the page shows, and what mounting one does.      *)

DepositShown == page.owner /\ showDeposit /\ key # "none"

(* The threshold passed to the split; every guardian's share, a slip.      *)
EveryShare == Len(page'.guardians)
Degree == page'.m

splitOwnerKey(bytes) ==
    IF page'.m \in 1 .. Len(page'.guardians)
    THEN /\ Len(splits) < MaxSplits
         /\ splits' = Append(splits, [whole |-> bytes = "live", degree |-> Degree,
                                      to |-> page'.guardians, asked |-> page'.m])
         /\ dist' = [step |-> "distribute", split |-> Len(splits) + 1,
                     need |-> 0, verified |-> FALSE]
    ELSE /\ dist' = [step |-> "split", split |-> 0, need |-> 0, verified |-> FALSE]
         /\ UNCHANGED splits

(* A flow that leaves the bytes to its unmounting, a slip.                 *)
MountKeepingBytes(bytes) == splitOwnerKey(bytes) /\ key' = bytes

(* The mount effect zeroes the bytes whether or not the split succeeds.    *)
Mount(bytes) == splitOwnerKey(bytes) /\ key' = "zero"

(* The page after a handler that left these bytes in the ref.              *)
Render(bytes) ==
    IF page'.owner /\ showShares' /\ bytes # "none" /\ page'.guardians # <<>>
    THEN IF dist = NoDist
         THEN Mount(bytes)
         ELSE key' = bytes /\ UNCHANGED <<dist, splits>>
    ELSE key' = bytes /\ dist' = NoDist /\ UNCHANGED splits

-----------------------------------------------------------------------------
(* The wallet and the page's reads; those that bring nothing new are left  *)
(* out.                                                                    *)

Outside == UNCHANGED <<chain, held, changes>>

SetOwner(b) ==
    /\ page.loaded /\ page.owner # b
    /\ page' = [page EXCEPT !.owner = b]
    /\ UNCHANGED ui
    /\ Render(key)
    /\ Outside /\ UNCHANGED relabelled

PollVault ==
    /\ page' = [page EXCEPT !.loaded = TRUE, !.m = chain.m, !.triggered = chain.triggered]
    /\ page' # page
    /\ UNCHANGED ui
    /\ Render(key)
    /\ Outside /\ UNCHANGED relabelled

PollGuardians ==
    \E list \in SetToSeqs(chain.council) \ {page.guardians} :
      /\ page' = [page EXCEPT !.guardians = list]
      /\ relabelled' = IF dist # NoDist /\ dist.split # 0 /\ list # page.guardians
                       THEN relabelled \cup {dist.split} ELSE relabelled
      /\ UNCHANGED ui
      /\ Render(key)
      /\ Outside

Reload ==
    /\ page.loaded \/ page.guardians # <<>>
    /\ page' = [loaded |-> FALSE, owner |-> FALSE, guardians |-> <<>>, m |-> 0,
                triggered |-> FALSE]
    /\ panel' = [open |-> "no", busy |-> "no"]
    /\ showDeposit' = FALSE
    /\ showShares' = FALSE
    /\ Render("none")
    /\ Outside /\ UNCHANGED relabelled

-----------------------------------------------------------------------------
(* The import panel.                                                       *)

openOwnerImport(mode) ==
    /\ panel' = [panel EXCEPT !.open = mode]
    /\ UNCHANGED <<showDeposit, showShares>>

ShieldMore ==
    /\ page.owner /\ ~page.triggered
    /\ IF key # "none"
       THEN showDeposit' = TRUE /\ UNCHANGED <<panel, showShares>>
       ELSE openOwnerImport("deposit")
    /\ UNCHANGED page
    /\ Render(key)
    /\ Outside /\ UNCHANGED relabelled

Redistribute ==
    /\ page.owner /\ ~page.triggered /\ page.guardians # <<>>
    /\ ~showShares /\ panel.open = "no"
    /\ IF key # "none"
       THEN showShares' = TRUE /\ UNCHANGED <<panel, showDeposit>>
       ELSE openOwnerImport("shares")
    /\ UNCHANGED page
    /\ Render(key)
    /\ Outside /\ UNCHANGED relabelled

MayImport == page.owner /\ panel.open # "no" /\ panel.busy = "no"

(* Buttons left enabled while an import is under way, a slip.              *)
MayImportAgain == page.owner /\ panel.open # "no"

Import ==
    /\ MayImport
    /\ panel' = [panel EXCEPT !.busy = panel.open]
    /\ UNCHANGED <<page, showDeposit, showShares>>
    /\ Render(key)
    /\ Outside /\ UNCHANGED relabelled

Cancel ==
    /\ page.owner /\ panel.open # "no"
    /\ panel' = [panel EXCEPT !.open = "no"]
    /\ UNCHANGED <<page, showDeposit, showShares>>
    /\ Render(key)
    /\ Outside /\ UNCHANGED relabelled

(* The import's continuation runs whether or not the panel is still there. *)
Imported ==
    /\ panel.busy # "no"
    /\ panel' = [open |-> "no", busy |-> "no"]
    /\ showDeposit' = (showDeposit \/ panel.busy = "deposit")
    /\ showShares' = (showShares \/ panel.busy = "shares")
    /\ UNCHANGED page
    /\ Render("live")
    /\ Outside /\ UNCHANGED relabelled

ImportFails ==
    /\ panel.busy # "no"
    /\ panel' = [panel EXCEPT !.busy = "no"]
    /\ UNCHANGED <<page, showDeposit, showShares>>
    /\ Render(key)
    /\ Outside /\ UNCHANGED relabelled

DepositDone ==
    /\ DepositShown
    /\ showDeposit' = FALSE
    /\ UNCHANGED <<page, panel, showShares>>
    /\ Render("none")
    /\ Outside /\ UNCHANGED relabelled

-----------------------------------------------------------------------------
(* GuardianShareDistribution.                                              *)

At(step) == dist # NoDist /\ dist.step = step

(* The cards shown: one per share, under the name at its place in the list *)
(* the page holds now; a card under no guardian's name goes to nobody.     *)
Named(i) == i \in DOMAIN page.guardians

Cards == IF At("distribute") THEN DOMAIN splits[dist.split].to ELSE {}

Dealt(indexes) ==
    [g \in Guardians |-> held[g] \cup
        { <<dist.split, i>> : i \in {j \in indexes : Named(j) /\ page.guardians[j] = g} }]

DistOnly ==
    UNCHANGED <<chain, page, key, ui, splits, relabelled, changes>>

DownloadShare ==
    \E i \in Cards :
      /\ held' = Dealt({i})
      /\ UNCHANGED dist /\ DistOnly

DownloadAll ==
    /\ At("distribute")
    /\ held' = Dealt(Cards)
    /\ UNCHANGED dist /\ DistOnly

StartVerify ==
    /\ At("distribute")
    /\ dist' = [dist EXCEPT !.step = "verify", !.need = page.m, !.verified = FALSE]
    /\ UNCHANGED held /\ DistOnly

(* Any shares that decode and have different numbers combine.              *)
Verify ==
    /\ At("verify")
    /\ \E ok \in BOOLEAN :
          /\ ok => dist.need \in 1 .. Cardinality(UNION {DOMAIN splits[s].to : s \in DOMAIN splits})
          /\ dist' = [dist EXCEPT !.verified = ok]
    /\ UNCHANGED held /\ DistOnly

BackToCards ==
    /\ At("verify")
    /\ dist' = [dist EXCEPT !.step = "distribute", !.need = 0, !.verified = FALSE]
    /\ UNCHANGED held /\ DistOnly

Finish ==
    /\ At("distribute") \/ (At("verify") /\ dist.verified)
    /\ dist' = [dist EXCEPT !.step = "done", !.need = 0, !.verified = FALSE]
    /\ UNCHANGED held /\ DistOnly

Done ==
    /\ At("done")
    /\ showShares' = FALSE
    /\ UNCHANGED <<page, panel, showDeposit>>
    /\ Render("none")
    /\ Outside /\ UNCHANGED relabelled

-----------------------------------------------------------------------------
(* The council on the chain.                                               *)

Changes ==
    /\ changes < MaxChanges
    /\ changes' = changes + 1
    /\ ~chain.triggered
    /\ UNCHANGED <<page, key, ui, dist, splits, held, relabelled>>

AddGuardian ==
    \E g \in Guardians \ chain.council, m \in 1 .. Cardinality(Guardians) :
      /\ m <= Cardinality(chain.council) + 1
      /\ chain' = [chain EXCEPT !.council = @ \cup {g}, !.m = m]
      /\ Changes

RemoveGuardian ==
    \E g \in chain.council :
      LET left == Cardinality(chain.council) - 1
      IN  /\ chain' = [chain EXCEPT !.council = @ \ {g}, !.m = IF @ > left THEN left ELSE @]
          /\ Changes

Trigger ==
    /\ chain' = [chain EXCEPT !.triggered = TRUE]
    /\ Changes

-----------------------------------------------------------------------------
PageNext ==
    \/ \E b \in BOOLEAN : SetOwner(b)
    \/ PollVault \/ PollGuardians \/ Reload
    \/ ShieldMore \/ Redistribute \/ Import \/ Cancel \/ Imported \/ ImportFails
    \/ DepositDone

DistNext ==
    \/ DownloadShare \/ DownloadAll
    \/ StartVerify \/ Verify \/ BackToCards \/ Finish \/ Done

ChainNext == AddGuardian \/ RemoveGuardian \/ Trigger

Next == PageNext \/ DistNext \/ ChainNext

Spec == Init /\ [][Next]_vars

Symmetry == Permutations(Guardians)

(* A bound of the runs: the page is followed until the flow of the last    *)
(* split has gone.                                                         *)
StillSplitting == Len(splits) < MaxSplits \/ dist # NoDist

-----------------------------------------------------------------------------
Dist == [step : {"split", "distribute", "verify", "done"}, split : Nat, need : Int,
         verified : BOOLEAN]
Split == [whole : BOOLEAN, degree : Int, to : Seq(Guardians), asked : Int]

Modes == {"no", "deposit", "shares"}

(* The state of page and chain has its type. *)
TypeOK ==
    /\ chain \in [council : SUBSET Guardians, m : Int, triggered : BOOLEAN]
    /\ page \in [loaded : BOOLEAN, owner : BOOLEAN, guardians : Seq(Guardians), m : Int,
                 triggered : BOOLEAN]
    /\ key \in {"none", "live", "zero"}
    /\ panel \in [open : Modes, busy : Modes]
    /\ showDeposit \in BOOLEAN
    /\ showShares \in BOOLEAN
    /\ dist \in Dist \cup {NoDist}
    /\ splits \in Seq(Split)

(***************************************************************************)
(* The key's bytes are in the page in one place at most.  While shares of  *)
(* it are on the screen the ref holds zeroes, and an import under way has  *)
(* no bytes to replace, which setOwnerIdentity would drop without zeroing  *)
(* them (page.tsx:113-124).                                                *)
(***************************************************************************)
OneCopyOfTheKey ==
    /\ dist # NoDist => key = "zero"
    /\ panel.busy # "no" => key = "none"

(* The cards restore the key: enough of them are shares of one split of it. *)
Restore(cards) ==
    \E s \in DOMAIN splits :
      /\ splits[s].whole
      /\ Cardinality({c \in cards : c[1] = s}) >= splits[s].degree

(* A split that still matches the council and the threshold on the chain,  *)
(* and whose cards were all dealt under the list it was made for.          *)
InForce(s) ==
    /\ splits[s].whole
    /\ s \notin relabelled
    /\ Range(splits[s].to) = chain.council
    /\ splits[s].asked = chain.m
    /\ \A i \in DOMAIN splits[s].to : \E g \in Guardians : <<s, i>> \in held[g]

(***************************************************************************)
(* What the last view of the flow tells the owner, under the conditions it *)
(* needs: once a split in force has been dealt out, any m guardians of the *)
(* council restore the key with the cards they hold, and fewer do not with *)
(* the cards of that split.                                                *)
(***************************************************************************)
CouncilRestores ==
    \A s \in DOMAIN splits : InForce(s) =>
        \A group \in SUBSET chain.council :
          LET cards == UNION {held[g] : g \in group}
          IN  /\ Cardinality(group) >= chain.m => Restore(cards)
              /\ Cardinality(group) < chain.m => ~Restore({c \in cards : c[1] = s})

(***************************************************************************)
(* "Any {mOfNThreshold} guardians can reconstruct it"                      *)
(* (GuardianShareDistribution.tsx:217-218): what the flow splits is the    *)
(* vault's key.                                                            *)
(***************************************************************************)
SharesAreOfTheKey == \A s \in DOMAIN splits : splits[s].whole
=============================================================================
