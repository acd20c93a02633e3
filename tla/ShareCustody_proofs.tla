-------------------------- MODULE ShareCustody_proofs --------------------------
(***************************************************************************)
(* Proofs about ShareCustody: types, that the key's bytes are in one place *)
(* at most, and that a split in force gives the council the key at its     *)
(* threshold and nobody below it; for any guardians, any number of splits. *)
(***************************************************************************)
EXTENDS ShareCustody, FiniteSetTheorems, TLAPS

(* While the import panel is open the ref is empty: what the panel offers  *)
(* is decided when it opens, and only an import can fill the ref.          *)
PanelNeedsKey == panel.open # "no" => key = "none"

IInv == PanelNeedsKey /\ OneCopyOfTheKey

-----------------------------------------------------------------------------
(* What a render that leaves these bytes in the ref may do.                *)
LEMMA Rendered ==
    ASSUME NEW bytes, Render(bytes)
    PROVE  /\ key' = bytes \/ key' = "zero"
           /\ bytes = "none" => key' = "none"
           /\ dist' # NoDist => key' = "zero" \/ (dist' = dist /\ dist # NoDist /\ key' = bytes)
  BY DEF Render, Mount, splitOwnerKey

(* A handler that keeps the bytes and opens nothing keeps the invariant.   *)
LEMMA Keeps ==
    ASSUME IInv, Render(key),
           panel' = panel
             \/ (panel'.busy = panel.busy /\ panel'.open = "no")
             \/ (panel'.open = panel.open /\ panel'.busy = "no")
             \/ key = "none"
    PROVE  IInv'
<1>1. /\ key' = key \/ key' = "zero"
      /\ key = "none" => key' = "none"
      /\ dist' # NoDist => key' = "zero" \/ (dist' = dist /\ dist # NoDist /\ key' = key)
  BY Rendered
<1>2. panel'.open # "no" => key' = "none"
  BY <1>1 DEF IInv, PanelNeedsKey
<1>3. panel'.busy # "no" => key' = "none"
  BY <1>1 DEF IInv, OneCopyOfTheKey
<1>4. dist' # NoDist => key' = "zero"
  BY <1>1 DEF IInv, OneCopyOfTheKey
<1>5. QED
  BY <1>2, <1>3, <1>4 DEF IInv, PanelNeedsKey, OneCopyOfTheKey

(* A handler that empties the ref keeps the invariant.                     *)
LEMMA Empties ==
    ASSUME Render("none")
    PROVE  IInv'
<1>1. key' = "none" /\ dist' = NoDist
  BY DEF Render
<1>2. QED
  BY <1>1 DEF IInv, PanelNeedsKey, OneCopyOfTheKey

LEMMA ImportedKeeps ==
    ASSUME TypeOK, IInv, Imported
    PROVE  IInv'
<1>1. /\ panel'.open = "no" /\ panel'.busy = "no"
      /\ key = "none"
      /\ Render("live")
  BY DEF Imported, IInv, OneCopyOfTheKey
<1>2. dist = NoDist
  BY <1>1 DEF IInv, OneCopyOfTheKey
<1>3. dist' # NoDist => key' = "zero"
  BY <1>1, <1>2, Rendered
<1>4. QED
  BY <1>1, <1>3 DEF IInv, PanelNeedsKey, OneCopyOfTheKey

(* The steps of the mounted flow leave the ref and the panel alone.        *)
LEMMA DistKeeps ==
    ASSUME IInv, key' = key, panel' = panel, dist # NoDist \/ dist' = dist
    PROVE  IInv'
  BY DEF IInv, PanelNeedsKey, OneCopyOfTheKey

THEOREM CustodyInvariant ==
    ASSUME TypeOK, IInv, [Next]_vars
    PROVE  IInv'
<1>1. CASE PageNext
  <2>1. ASSUME NEW b \in BOOLEAN, SetOwner(b) PROVE IInv'
    BY <2>1, Keeps DEF SetOwner, ui
  <2>2. CASE PollVault
    BY <2>2, Keeps DEF PollVault, ui
  <2>3. CASE PollGuardians
    BY <2>3, Keeps DEF PollGuardians, ui
  <2>4. CASE Reload
    BY <2>4, Empties DEF Reload
  <2>5. CASE ShieldMore
    <3>1. Render(key) /\ (panel' = panel \/ key = "none")
      BY <2>5 DEF ShieldMore, openOwnerImport
    <3>2. QED
      BY <3>1, Keeps
  <2>6. CASE Redistribute
    <3>1. Render(key) /\ (panel' = panel \/ key = "none")
      BY <2>6 DEF Redistribute, openOwnerImport
    <3>2. QED
      BY <3>1, Keeps
  <2>7. CASE Import
    <3>1. Render(key) /\ key = "none"
      BY <2>7 DEF Import, MayImport, IInv, PanelNeedsKey
    <3>2. QED
      BY <3>1, Keeps
  <2>8. CASE Cancel
    <3>1. Render(key) /\ panel'.busy = panel.busy /\ panel'.open = "no"
      BY <2>8 DEF Cancel, TypeOK
    <3>2. QED
      BY <3>1, Keeps
  <2>9. CASE Imported
    BY <2>9, ImportedKeeps
  <2>10. CASE ImportFails
    <3>1. Render(key) /\ panel'.open = panel.open /\ panel'.busy = "no"
      BY <2>10 DEF ImportFails, TypeOK
    <3>2. QED
      BY <3>1, Keeps
  <2>11. CASE DepositDone
    BY <2>11, Empties DEF DepositDone
  <2>12. QED
    BY <1>1, <2>1, <2>2, <2>3, <2>4, <2>5, <2>6, <2>7, <2>8, <2>9, <2>10, <2>11
    DEF PageNext
<1>2. CASE DistNext
  <2>1. CASE Done
    BY <2>1, Empties DEF Done
  <2>2. CASE DownloadShare \/ DownloadAll
    BY <2>2, DistKeeps DEF DownloadShare, DownloadAll, DistOnly, ui
  <2>3. CASE StartVerify \/ Verify \/ BackToCards \/ Finish
    BY <2>3, DistKeeps DEF StartVerify, Verify, BackToCards, Finish, DistOnly, ui, At
  <2>4. QED
    BY <1>2, <2>1, <2>2, <2>3 DEF DistNext
<1>3. CASE ChainNext
  BY <1>3, DistKeeps DEF ChainNext, AddGuardian, RemoveGuardian, Trigger, Changes, ui
<1>4. CASE UNCHANGED vars
  BY <1>4, DistKeeps DEF vars
<1>5. QED
  BY <1>1, <1>2, <1>3, <1>4 DEF Next

-----------------------------------------------------------------------------
PageType == [loaded : BOOLEAN, owner : BOOLEAN, guardians : Seq(Guardians), m : Int,
             triggered : BOOLEAN]

(* A render keeps the types of the ref, the flow and the splits.           *)
LEMMA RenderedType ==
    ASSUME TypeOK, NEW bytes \in {"none", "live", "zero"}, page' \in PageType, Render(bytes)
    PROVE  /\ key' \in {"none", "live", "zero"}
           /\ dist' \in Dist \cup {NoDist}
           /\ splits' \in Seq(Split)
<1>1. CASE page'.owner /\ showShares' /\ bytes # "none" /\ page'.guardians # <<>> /\ dist = NoDist
  <2>1. key' = "zero" /\ splitOwnerKey(bytes)
    BY <1>1 DEF Render, Mount
  <2>2. CASE page'.m \in 1 .. Len(page'.guardians)
    <3>1. [whole |-> bytes = "live", degree |-> Degree, to |-> page'.guardians,
           asked |-> page'.m] \in Split
      <4>1. (bytes = "live") \in BOOLEAN
        OBVIOUS
      <4>2. page'.m \in Int /\ page'.guardians \in Seq(Guardians)
        BY DEF PageType
      <4>3. QED
        BY <4>1, <4>2 DEF Split, Degree
    <3>2. splits \in Seq(Split) /\ Len(splits) \in Nat
      BY DEF TypeOK
    <3>3. splits' \in Seq(Split)
      BY <2>1, <2>2, <3>1, <3>2 DEF splitOwnerKey
    <3>4. dist' \in Dist
      <4>1. dist' = [step |-> "distribute", split |-> Len(splits) + 1, need |-> 0,
                     verified |-> FALSE]
        BY <2>1, <2>2 DEF splitOwnerKey
      <4>2. Len(splits) + 1 \in Nat
        BY <3>2
      <4>3. QED
        BY <4>1, <4>2 DEF Dist
    <3>5. QED
      BY <2>1, <3>3, <3>4
  <2>3. CASE page'.m \notin 1 .. Len(page'.guardians)
    <3>1. /\ dist' = [step |-> "split", split |-> 0, need |-> 0, verified |-> FALSE]
          /\ splits' = splits
      BY <2>1, <2>3 DEF splitOwnerKey
    <3>2. dist' \in Dist
      BY <3>1 DEF Dist
    <3>3. QED
      BY <2>1, <3>1, <3>2 DEF TypeOK
  <2>4. QED
    BY <2>2, <2>3
<1>2. CASE ~(page'.owner /\ showShares' /\ bytes # "none" /\ page'.guardians # <<>> /\ dist = NoDist)
  BY <1>2 DEF Render, TypeOK
<1>3. QED
  BY <1>1, <1>2

(* An enumeration of a council is a sequence of guardians.                 *)
LEMMA Enumerated ==
    ASSUME NEW council \in SUBSET Guardians, NEW list \in SetToSeqs(council)
    PROVE  list \in Seq(Guardians)
<1>1. IsFiniteSet(council)
  BY CustodyAssumption, FS_Subset
<1>2. Cardinality(council) \in Nat
  BY <1>1, FS_CardinalityType
<1>3. list \in [1 .. Cardinality(council) -> Guardians]
  BY DEF SetToSeqs
<1>4. QED
  BY <1>2, <1>3

THEOREM CustodyTypes ==
    ASSUME TypeOK, [Next]_vars
    PROVE  TypeOK'
<1>1. ASSUME NEW bytes \in {"none", "live", "zero"}, page' \in PageType, Render(bytes),
             chain' = chain, panel' \in [open : Modes, busy : Modes],
             showDeposit' \in BOOLEAN, showShares' \in BOOLEAN
      PROVE  TypeOK'
  <2>1. /\ key' \in {"none", "live", "zero"}
        /\ dist' \in Dist \cup {NoDist}
        /\ splits' \in Seq(Split)
    BY <1>1, RenderedType
  <2>2. chain' \in [council : SUBSET Guardians, m : Int, triggered : BOOLEAN]
    BY <1>1 DEF TypeOK
  <2>3. QED
    BY <1>1, <2>1, <2>2 DEF TypeOK, PageType
<1>2. key \in {"none", "live", "zero"} /\ page \in PageType
      /\ panel \in [open : Modes, busy : Modes]
      /\ showDeposit \in BOOLEAN /\ showShares \in BOOLEAN
      /\ chain \in [council : SUBSET Guardians, m : Int, triggered : BOOLEAN]
      /\ dist \in Dist \cup {NoDist} /\ splits \in Seq(Split)
  BY DEF TypeOK, PageType
<1>3. CASE PageNext
  <2>1. ASSUME NEW b \in BOOLEAN, SetOwner(b) PROVE TypeOK'
    <3>1. page' \in PageType
      BY <1>2, <2>1 DEF SetOwner, PageType
    <3>2. QED
      BY <1>1, <1>2, <2>1, <3>1 DEF SetOwner, ui, Outside
  <2>2. CASE PollVault
    <3>1. page' \in PageType
      BY <1>2, <2>2 DEF PollVault, PageType
    <3>2. QED
      BY <1>1, <1>2, <2>2, <3>1 DEF PollVault, ui, Outside
  <2>3. CASE PollGuardians
    <3>1. PICK list \in SetToSeqs(chain.council) :
             /\ page' = [page EXCEPT !.guardians = list]
             /\ UNCHANGED ui /\ Render(key) /\ Outside
      BY <2>3 DEF PollGuardians
    <3>2. page' \in PageType
      BY <1>2, <3>1, Enumerated DEF PageType
    <3>3. QED
      BY <1>1, <1>2, <3>1, <3>2 DEF ui, Outside
  <2>4. CASE Reload
    <3>1. page' \in PageType /\ panel' \in [open : Modes, busy : Modes]
      BY <2>4 DEF Reload, PageType, Modes
    <3>2. QED
      BY <1>1, <2>4, <3>1 DEF Reload, Outside
  <2>5. CASE ShieldMore
    <3>1. /\ panel' \in [open : Modes, busy : Modes]
          /\ showDeposit' \in BOOLEAN /\ showShares' \in BOOLEAN
          /\ page' = page /\ chain' = chain /\ Render(key)
      BY <1>2, <2>5 DEF ShieldMore, openOwnerImport, Outside, Modes
    <3>2. QED
      BY <1>1, <1>2, <3>1
  <2>6. CASE Redistribute
    <3>1. /\ panel' \in [open : Modes, busy : Modes]
          /\ showDeposit' \in BOOLEAN /\ showShares' \in BOOLEAN
          /\ page' = page /\ chain' = chain /\ Render(key)
      BY <1>2, <2>6 DEF Redistribute, openOwnerImport, Outside, Modes
    <3>2. QED
      BY <1>1, <1>2, <3>1
  <2>7. CASE Import \/ Cancel \/ ImportFails
    <3>1. /\ panel' \in [open : Modes, busy : Modes]
          /\ showDeposit' \in BOOLEAN /\ showShares' \in BOOLEAN
          /\ page' = page /\ chain' = chain /\ Render(key)
      BY <1>2, <2>7 DEF Import, Cancel, ImportFails, Outside, Modes
    <3>2. QED
      BY <1>1, <1>2, <3>1
  <2>8. CASE Imported
    <3>1. /\ panel' \in [open : Modes, busy : Modes]
          /\ showDeposit' \in BOOLEAN /\ showShares' \in BOOLEAN
          /\ page' = page /\ chain' = chain /\ Render("live")
      BY <1>2, <2>8 DEF Imported, Outside, Modes
    <3>2. QED
      BY <1>1, <1>2, <3>1
  <2>9. CASE DepositDone
    BY <1>1, <1>2, <2>9 DEF DepositDone, Outside
  <2>10. QED
    BY <1>3, <2>1, <2>2, <2>3, <2>4, <2>5, <2>6, <2>7, <2>8, <2>9 DEF PageNext
<1>4. CASE DistNext
  <2>1. CASE Done
    BY <1>1, <1>2, <2>1 DEF Done, Outside
  <2>2. CASE DownloadShare \/ DownloadAll
    BY <1>2, <2>2 DEF DownloadShare, DownloadAll, DistOnly, ui, TypeOK
  <2>3. ASSUME StartVerify \/ Verify \/ BackToCards \/ Finish PROVE TypeOK'
    <3>1. dist \in Dist
      BY <1>2, <2>3 DEF StartVerify, Verify, BackToCards, Finish, At
    <3>2. page.m \in Int
      BY <1>2 DEF PageType
    <3>3. CASE StartVerify
      BY <3>1, <3>2, <3>3, <1>2 DEF StartVerify, Dist, DistOnly, ui, TypeOK
    <3>4. CASE Verify
      <4>1. PICK ok \in BOOLEAN : dist' = [dist EXCEPT !.verified = ok]
        BY <3>4 DEF Verify
      <4>2. dist' \in Dist
        BY <3>1, <4>1 DEF Dist
      <4>3. QED
        BY <3>4, <4>2, <1>2 DEF Verify, DistOnly, ui, TypeOK
    <3>5. CASE BackToCards \/ Finish
      <4>1. PICK step \in {"distribute", "done"} :
               dist' = [dist EXCEPT !.step = step, !.need = 0, !.verified = FALSE]
        BY <3>5 DEF BackToCards, Finish
      <4>2. dist' = [step |-> step, split |-> dist.split, need |-> 0, verified |-> FALSE]
        BY <3>1, <4>1 DEF Dist
      <4>3. dist.split \in Nat
        BY <3>1 DEF Dist
      <4>4. dist' \in Dist
        BY <4>2, <4>3 DEF Dist
      <4>5. QED
        BY <3>5, <4>4, <1>2 DEF BackToCards, Finish, DistOnly, ui, TypeOK
    <3>6. QED
      BY <2>3, <3>3, <3>4, <3>5
  <2>4. QED
    BY <1>4, <2>1, <2>2, <2>3 DEF DistNext
<1>5. CASE ChainNext
  <2>1. Changes /\ chain' \in [council : SUBSET Guardians, m : Int, triggered : BOOLEAN]
    <3>1. CASE AddGuardian
      <4>0. Cardinality(Guardians) \in Nat
        BY CustodyAssumption, FS_CardinalityType
      <4>1. PICK g \in Guardians \ chain.council, m \in 1 .. Cardinality(Guardians) :
               chain' = [chain EXCEPT !.council = @ \cup {g}, !.m = m] /\ Changes
        BY <3>1 DEF AddGuardian
      <4>2. chain.council \cup {g} \in SUBSET Guardians
        BY <1>2
      <4>3. m \in Int
        BY <4>0, <4>1
      <4>4. QED
        BY <1>2, <4>1, <4>2, <4>3
    <3>2. CASE RemoveGuardian
      <4>1. PICK g \in chain.council :
               /\ chain' = [chain EXCEPT !.council = @ \ {g},
                               !.m = IF @ > Cardinality(chain.council) - 1
                                     THEN Cardinality(chain.council) - 1 ELSE @]
               /\ Changes
        BY <3>2 DEF RemoveGuardian
      <4>2. IsFiniteSet(chain.council)
        BY <1>2, CustodyAssumption, FS_Subset
      <4>3. Cardinality(chain.council) \in Nat
        BY <4>2, FS_CardinalityType
      <4>4. PICK m \in Int : chain' = [chain EXCEPT !.council = @ \ {g}, !.m = m]
        <5>1. (IF chain.m > Cardinality(chain.council) - 1
               THEN Cardinality(chain.council) - 1 ELSE chain.m) \in Int
          BY <1>2, <4>3
        <5>2. QED
          BY <4>1, <5>1
      <4>5. chain.council \ {g} \in SUBSET Guardians
        BY <1>2
      <4>6. QED
        BY <1>2, <4>1, <4>4, <4>5
    <3>3. CASE Trigger
      BY <1>2, <3>3 DEF Trigger
    <3>4. QED
      BY <1>5, <3>1, <3>2, <3>3 DEF ChainNext
  <2>2. QED
    BY <1>2, <2>1 DEF Changes, ui, TypeOK
<1>6. CASE UNCHANGED vars
  BY <1>6 DEF vars, TypeOK
<1>7. QED
  BY <1>3, <1>4, <1>5, <1>6 DEF Next

LEMMA InitTypes ==
    ASSUME Init
    PROVE  TypeOK /\ IInv
<1>1. \A council \in SUBSET Guardians : Cardinality(council) \in Nat
  BY CustodyAssumption, FS_Subset, FS_CardinalityType
<1>2. PICK council \in SUBSET Guardians :
         \E m \in 1 .. Cardinality(council) :
            chain = [council |-> council, m |-> m, triggered |-> FALSE]
  BY DEF Init
<1>3. chain \in [council : SUBSET Guardians, m : Int, triggered : BOOLEAN]
  BY <1>1, <1>2
<1>4. page \in PageType /\ panel \in [open : Modes, busy : Modes]
  BY DEF Init, PageType, Modes
<1>5. splits \in Seq(Split) /\ dist = NoDist /\ key = "none"
      /\ showDeposit = FALSE /\ showShares = FALSE
  BY DEF Init
<1>6. TypeOK
  BY <1>3, <1>4, <1>5 DEF TypeOK, PageType
<1>7. IInv
  BY DEF Init, IInv, PanelNeedsKey, OneCopyOfTheKey
<1>8. QED
  BY <1>6, <1>7

(* The state of page, flow, splits and chain keeps its type. *)
THEOREM CustodyTypeCorrect == Spec => []TypeOK
<1>1. Init => TypeOK
  BY InitTypes
<1>2. TypeOK /\ [Next]_vars => TypeOK'
  BY CustodyTypes
<1>3. QED
  BY <1>1, <1>2, PTL DEF Spec

(***************************************************************************)
(* Shares are never on the screen beside the live key, and no import       *)
(* overtakes another, whatever wallet, council and page do.                *)
(***************************************************************************)
THEOREM OneCopyCorrect == Spec => []OneCopyOfTheKey
<1>1. Init => IInv
  BY InitTypes
<1>2. TypeOK /\ IInv /\ [Next]_vars => IInv'
  BY CustodyInvariant
<1>3. IInv => OneCopyOfTheKey
  BY DEF IInv
<1>4. QED
  BY <1>1, <1>2, <1>3, CustodyTypeCorrect, PTL DEF Spec

-----------------------------------------------------------------------------
(* The cards.  A card dealt under the list its split was made for is in    *)
(* the hands of the guardian at its place in that list, and of nobody else; *)
(* every split has the degree the page showed.                             *)

NoRepeats(list) == \A i, j \in DOMAIN list : list[i] = list[j] => i = j

CardsNamed ==
    /\ held \in [Guardians -> SUBSET (Nat \X Nat)]
    /\ \A g \in Guardians : \A c \in held[g] :
          /\ c[1] \in DOMAIN splits
          /\ c[2] \in DOMAIN splits[c[1]].to
          /\ c[1] \notin relabelled => splits[c[1]].to[c[2]] = g

SplitsAsShown ==
    \A s \in DOMAIN splits :
        /\ NoRepeats(splits[s].to)
        /\ splits[s].degree = splits[s].asked
        /\ splits[s].degree >= 1

(* The list on the page while a split is on the screen.                    *)
ListShown ==
    /\ NoRepeats(page.guardians)
    /\ dist # NoDist /\ dist.step # "split" =>
          /\ dist.split \in DOMAIN splits
          /\ dist.split \notin relabelled => page.guardians = splits[dist.split].to

CustodyInv == CardsNamed /\ SplitsAsShown /\ ListShown

(* A render keeps the splits made, and mounts the flow on a new one only.  *)
LEMMA RenderedSplits ==
    ASSUME TypeOK, CustodyInv, NEW bytes, page' \in PageType, NoRepeats(page'.guardians),
           Render(bytes)
    PROVE  /\ DOMAIN splits \subseteq DOMAIN splits'
           /\ \A s \in DOMAIN splits : splits'[s] = splits[s]
           /\ SplitsAsShown'
           /\ dist' # NoDist /\ dist' # dist /\ dist'.step # "split" =>
                 /\ dist'.split \in DOMAIN splits'
                 /\ page'.guardians = splits'[dist'.split].to
<1>1. splits \in Seq(Split) /\ Len(splits) \in Nat
  BY DEF TypeOK
<1>2. CASE splits' = splits /\ (dist' = dist \/ dist' = NoDist \/ dist'.step = "split")
  BY <1>2 DEF CustodyInv, SplitsAsShown
<1>3. CASE splitOwnerKey(bytes) /\ page'.m \in 1 .. Len(page'.guardians)
  <2> DEFINE new == [whole |-> bytes = "live", degree |-> Degree,
                     to |-> page'.guardians, asked |-> page'.m]
             n == Len(splits) + 1
  <2>1. splits' = Append(splits, new) /\ dist'.split = n
    BY <1>3 DEF splitOwnerKey
  <2>2. DOMAIN splits = 1 .. Len(splits) /\ DOMAIN splits' = 1 .. n
    BY <1>1, <2>1
  <2>3. \A s \in DOMAIN splits : splits'[s] = splits[s]
    BY <1>1, <2>1, <2>2
  <2>4. splits'[n] = new
    BY <1>1, <2>1
  <2>5. page'.m \in Int /\ Len(page'.guardians) \in Nat
    BY DEF PageType
  <2>6. new.degree = new.asked /\ new.degree >= 1 /\ NoRepeats(new.to)
    BY <1>3, <2>5 DEF Degree
  <2>7. \A s \in DOMAIN splits' :
           NoRepeats(splits'[s].to) /\ splits'[s].degree = splits'[s].asked
           /\ splits'[s].degree >= 1
    <3> SUFFICES ASSUME NEW s \in DOMAIN splits'
                 PROVE  NoRepeats(splits'[s].to) /\ splits'[s].degree = splits'[s].asked
                        /\ splits'[s].degree >= 1
      OBVIOUS
    <3>1. CASE s = n
      BY <2>4, <2>6, <3>1
    <3>2. CASE s # n
      <4>1. s \in DOMAIN splits /\ splits'[s] = splits[s]
        BY <1>1, <2>2, <2>3, <3>2
      <4>2. QED
        BY <4>1 DEF CustodyInv, SplitsAsShown
    <3>3. QED
      BY <3>1, <3>2
  <2>8. QED
    BY <1>1, <2>1, <2>2, <2>3, <2>4, <2>7 DEF SplitsAsShown
<1>4. QED
  BY <1>2, <1>3 DEF Render, Mount, splitOwnerKey

(* A handler of the page: no card moves, and a new list under a split that *)
(* is on the screen is noted.                                              *)
LEMMA PageKeepsCards ==
    ASSUME TypeOK, CustodyInv, NEW bytes, page' \in PageType, NoRepeats(page'.guardians),
           Render(bytes), held' = held, relabelled \subseteq relabelled',
           dist # NoDist /\ dist.step # "split" /\ dist' = dist /\ page'.guardians # page.guardians
              => dist.split \in relabelled'
    PROVE  CustodyInv'
<1>1. /\ DOMAIN splits \subseteq DOMAIN splits'
      /\ \A s \in DOMAIN splits : splits'[s] = splits[s]
      /\ SplitsAsShown'
      /\ dist' # NoDist /\ dist' # dist /\ dist'.step # "split" =>
            /\ dist'.split \in DOMAIN splits'
            /\ page'.guardians = splits'[dist'.split].to
  BY RenderedSplits
<1>2. CardsNamed'
  BY <1>1 DEF CustodyInv, CardsNamed
<1>3. dist' = dist /\ dist # NoDist /\ dist.step # "split" =>
         /\ dist.split \in DOMAIN splits'
         /\ dist.split \notin relabelled' => page'.guardians = splits'[dist.split].to
  BY <1>1 DEF CustodyInv, ListShown
<1>4. ListShown'
  BY <1>1, <1>3 DEF ListShown
<1>5. QED
  BY <1>1, <1>2, <1>4 DEF CustodyInv

(* An enumeration of a council names nobody twice.                         *)
LEMMA EnumeratedOnce ==
    ASSUME NEW council \in SUBSET Guardians, NEW list \in SetToSeqs(council)
    PROVE  NoRepeats(list)
  BY DEF SetToSeqs, NoRepeats

LEMMA PollGuardiansKeepsCards ==
    ASSUME TypeOK, CustodyInv, PollGuardians
    PROVE  CustodyInv'
<1>1. PICK list \in SetToSeqs(chain.council) :
         /\ page' = [page EXCEPT !.guardians = list]
         /\ relabelled' = IF dist # NoDist /\ dist.split # 0 /\ list # page.guardians
                          THEN relabelled \cup {dist.split} ELSE relabelled
         /\ Render(key) /\ held' = held
  BY DEF PollGuardians, Outside
<1>2. chain.council \in SUBSET Guardians /\ page \in PageType
  BY DEF TypeOK, PageType
<1>3. page' \in PageType /\ page'.guardians = list
  BY <1>1, <1>2, Enumerated DEF PageType
<1>4. NoRepeats(page'.guardians)
  BY <1>2, <1>3, EnumeratedOnce
<1>5. dist # NoDist /\ dist.step # "split" => dist.split # 0
  <2>1. DOMAIN splits = 1 .. Len(splits) /\ Len(splits) \in Nat
    BY DEF TypeOK
  <2>2. QED
    BY <2>1 DEF CustodyInv, ListShown
<1>6. QED
  BY <1>1, <1>3, <1>4, <1>5, PageKeepsCards

(* Dealing cards: each goes to the guardian whose name the page shows.     *)
LEMMA DealingKeepsCards ==
    ASSUME TypeOK, CustodyInv, At("distribute"), NEW indexes,
           indexes \subseteq DOMAIN splits[dist.split].to,
           held' = Dealt(indexes), UNCHANGED <<page, dist, splits, relabelled>>
    PROVE  CustodyInv'
<1> DEFINE s == dist.split
<1>1. /\ s \in DOMAIN splits
      /\ s \notin relabelled => page.guardians = splits[s].to
  BY DEF At, CustodyInv, ListShown
<1>2. s \in Nat /\ DOMAIN splits[s].to \subseteq Nat
  <2>1. splits \in Seq(Split)
    BY DEF TypeOK
  <2>2. splits[s] \in Split /\ s \in Nat
    BY <1>1, <2>1
  <2>3. splits[s].to \in Seq(Guardians)
    BY <2>2 DEF Split
  <2>4. QED
    BY <2>2, <2>3
<1>3. ASSUME NEW g \in Guardians, NEW c \in held'[g], c \notin held[g]
      PROVE  /\ c \in Nat \X Nat
             /\ c[1] = s /\ c[2] \in DOMAIN splits[s].to
             /\ s \notin relabelled => splits[s].to[c[2]] = g
  <2>1. PICK i \in indexes : c = <<s, i>> /\ Named(i) /\ page.guardians[i] = g
    BY <1>3 DEF Dealt
  <2>2. QED
    BY <1>1, <1>2, <2>1
<1>4. held' \in [Guardians -> SUBSET (Nat \X Nat)]
  <2>1. \A g \in Guardians : held'[g] \subseteq Nat \X Nat
    BY <1>3 DEF CustodyInv, CardsNamed
  <2>2. held' = [g \in Guardians |-> held'[g]]
    BY DEF Dealt
  <2>3. QED
    BY <2>1, <2>2
<1>5. CardsNamed'
  BY <1>1, <1>3, <1>4 DEF CustodyInv, CardsNamed
<1>6. QED
  BY <1>5 DEF CustodyInv, SplitsAsShown, ListShown

(* The other steps of the flow move no card and stay on their split.       *)
LEMMA FlowKeepsCards ==
    ASSUME CustodyInv, UNCHANGED <<page, splits, held, relabelled>>,
           dist' = dist \/ (dist.step # "split" /\ dist # NoDist /\ dist'.split = dist.split)
    PROVE  CustodyInv'
  BY DEF CustodyInv, CardsNamed, SplitsAsShown, ListShown

LEMMA DistKeepsCards ==
    ASSUME TypeOK, CustodyInv, DistNext
    PROVE  CustodyInv'
<1>1. CASE DownloadShare
  <2>1. PICK i \in Cards : held' = Dealt({i})
    BY <1>1 DEF DownloadShare
  <2>2. At("distribute") /\ {i} \subseteq DOMAIN splits[dist.split].to
    BY <2>1 DEF Cards
  <2>3. QED
    BY <1>1, <2>1, <2>2, DealingKeepsCards DEF DownloadShare, DistOnly
<1>2. CASE DownloadAll
  <2>1. At("distribute") /\ Cards \subseteq DOMAIN splits[dist.split].to
    BY <1>2 DEF DownloadAll, Cards
  <2>2. QED
    BY <1>2, <2>1, DealingKeepsCards DEF DownloadAll, DistOnly
<1>3. CASE StartVerify \/ Verify \/ BackToCards \/ Finish
  <2>1. dist # NoDist /\ dist.step # "split"
    BY <1>3 DEF StartVerify, Verify, BackToCards, Finish, At
  <2>2. dist \in Dist
    BY <2>1 DEF TypeOK
  <2>3. dist'.split = dist.split
    BY <1>3, <2>2 DEF StartVerify, Verify, BackToCards, Finish, Dist
  <2>4. QED
    BY <1>3, <2>1, <2>3, FlowKeepsCards DEF StartVerify, Verify, BackToCards, Finish, DistOnly
<1>4. CASE Done
  <2>1. page' = page /\ page \in PageType /\ NoRepeats(page'.guardians)
    BY <1>4 DEF Done, TypeOK, PageType, CustodyInv, ListShown
  <2>2. QED
    BY <1>4, <2>1, PageKeepsCards DEF Done, Outside
<1>5. QED
  BY <1>1, <1>2, <1>3, <1>4 DEF DistNext

THEOREM CustodyCards ==
    ASSUME TypeOK, CustodyInv, [Next]_vars
    PROVE  CustodyInv'
<1>0. page \in PageType /\ NoRepeats(page.guardians)
  BY DEF TypeOK, PageType, CustodyInv, ListShown
<1>1. ASSUME NEW bytes, Render(bytes), page' \in PageType, held' = held,
             relabelled' = relabelled, page'.guardians = page.guardians
      PROVE  CustodyInv'
  BY <1>0, <1>1, PageKeepsCards
<1>2. CASE PageNext
  <2>1. ASSUME NEW b \in BOOLEAN, SetOwner(b) PROVE CustodyInv'
    <3>1. page' \in PageType /\ page'.guardians = page.guardians
      BY <1>0, <2>1 DEF SetOwner, PageType
    <3>2. QED
      BY <1>1, <2>1, <3>1 DEF SetOwner, Outside
  <2>2. CASE PollVault
    <3>1. page' \in PageType /\ page'.guardians = page.guardians
      BY <1>0, <2>2 DEF PollVault, PageType, TypeOK
    <3>2. QED
      BY <1>1, <2>2, <3>1 DEF PollVault, Outside
  <2>3. CASE PollGuardians
    BY <2>3, PollGuardiansKeepsCards
  <2>4. CASE Reload
    <3>1. page' \in PageType /\ NoRepeats(page'.guardians)
      BY <2>4 DEF Reload, PageType, NoRepeats
    <3>2. dist' = NoDist
      BY <2>4 DEF Reload, Render
    <3>3. QED
      BY <2>4, <3>1, <3>2, PageKeepsCards DEF Reload, Outside
  <2>5. CASE ShieldMore \/ Redistribute \/ Import \/ Cancel \/ ImportFails
    <3>1. page' = page /\ Render(key) /\ held' = held /\ relabelled' = relabelled
      BY <2>5 DEF ShieldMore, Redistribute, Import, Cancel, ImportFails, Outside
    <3>2. QED
      BY <1>0, <1>1, <3>1
  <2>6. CASE Imported
    BY <1>0, <1>1, <2>6 DEF Imported, Outside
  <2>7. CASE DepositDone
    BY <1>0, <1>1, <2>7 DEF DepositDone, Outside
  <2>8. QED
    BY <1>2, <2>1, <2>2, <2>3, <2>4, <2>5, <2>6, <2>7 DEF PageNext
<1>3. CASE DistNext
  BY <1>3, DistKeepsCards
<1>4. CASE ChainNext
  BY <1>4, FlowKeepsCards DEF ChainNext, AddGuardian, RemoveGuardian, Trigger, Changes
<1>5. CASE UNCHANGED vars
  BY <1>5, FlowKeepsCards DEF vars
<1>6. QED
  BY <1>2, <1>3, <1>4, <1>5 DEF Next

-----------------------------------------------------------------------------
(* The cards of a split in force that a group of the council holds are as  *)
(* many as the group has members.                                          *)
LEMMA OneCardEach ==
    ASSUME TypeOK, CustodyInv, NEW s \in DOMAIN splits, InForce(s),
           NEW group \in SUBSET chain.council
    PROVE  LET cards == {c \in UNION {held[g] : g \in group} : c[1] = s}
           IN  IsFiniteSet(cards) /\ Cardinality(cards) = Cardinality(group)
<1> DEFINE cards == {c \in UNION {held[g] : g \in group} : c[1] = s}
           to == splits[s].to
           Place(g) == CHOOSE i \in DOMAIN to : to[i] = g
           card == [g \in group |-> <<s, Place(g)>>]
<1>1. group \subseteq Guardians /\ IsFiniteSet(group)
  BY CustodyAssumption, FS_Subset DEF TypeOK
<1>2. \A g \in group : Place(g) \in DOMAIN to /\ to[Place(g)] = g
  <2>1. \A g \in group : \E i \in DOMAIN to : to[i] = g
    BY DEF InForce, Range
  <2>2. QED
    BY <2>1
<1>3. NoRepeats(to)
  BY DEF CustodyInv, SplitsAsShown
<1>4. \A g \in group : \A c \in held[g] : c[1] = s => c = <<s, Place(g)>>
  <2> SUFFICES ASSUME NEW g \in group, NEW c \in held[g], c[1] = s
               PROVE  c = <<s, Place(g)>>
    OBVIOUS
  <2>1. c \in Nat \X Nat /\ c[2] \in DOMAIN to /\ to[c[2]] = g
    BY <1>1 DEF CustodyInv, CardsNamed, InForce
  <2>2. c[2] = Place(g)
    BY <1>2, <1>3, <2>1 DEF NoRepeats
  <2>3. QED
    BY <2>1, <2>2
<1>5. \A g \in group : <<s, Place(g)>> \in held[g]
  <2> SUFFICES ASSUME NEW g \in group
               PROVE  <<s, Place(g)>> \in held[g]
    OBVIOUS
  <2>1. PICK h \in Guardians : <<s, Place(g)>> \in held[h]
    BY <1>2 DEF InForce
  <2>2. to[Place(g)] = h
    <3> DEFINE c == <<s, Place(g)>>
    <3>1. c[1] = s /\ c[2] = Place(g) /\ c \in held[h]
      BY <2>1
    <3>2. QED
      BY <3>1 DEF CustodyInv, CardsNamed, InForce
  <2>3. QED
    BY <1>2, <2>1, <2>2
<1>6. card \in Bijection(group, cards)
  <2>1. \A g \in group : card[g] \in cards
    BY <1>5
  <2>2. card \in [group -> cards]
    BY <2>1
  <2>3. \A g, h \in group : card[g] = card[h] => g = h
    BY <1>2
  <2>4. \A c \in cards : \E g \in group : card[g] = c
    BY <1>4
  <2>5. QED
    BY <2>2, <2>3, <2>4 DEF Bijection, Injection, Surjection, IsInjective
<1>7. QED
  BY <1>1, <1>6, FS_Bijection DEF ExistsBijection

LEMMA CardsRestore ==
    ASSUME TypeOK, CustodyInv
    PROVE  CouncilRestores
<1> SUFFICES ASSUME NEW s \in DOMAIN splits, InForce(s),
                    NEW group \in SUBSET chain.council
             PROVE  LET cards == UNION {held[g] : g \in group}
                    IN  /\ Cardinality(group) >= chain.m => Restore(cards)
                        /\ Cardinality(group) < chain.m => ~Restore({c \in cards : c[1] = s})
  BY DEF CouncilRestores
<1> DEFINE cards == UNION {held[g] : g \in group}
           ofSplit == {c \in cards : c[1] = s}
<1>1. Cardinality(ofSplit) = Cardinality(group)
  BY OneCardEach
<1>2. splits[s].degree = chain.m /\ splits[s].whole
  BY DEF CustodyInv, SplitsAsShown, InForce
<1>3. Cardinality(group) >= chain.m => Restore(cards)
  BY <1>1, <1>2 DEF Restore
<1>4. ASSUME Cardinality(group) < chain.m, NEW t \in DOMAIN splits
      PROVE  ~(Cardinality({c \in ofSplit : c[1] = t}) >= splits[t].degree)
  <2>0. Cardinality(group) \in Nat /\ chain.m \in Int
    BY CustodyAssumption, FS_Subset, FS_CardinalityType DEF TypeOK
  <2>1. CASE t = s
    <3>1. {c \in ofSplit : c[1] = t} = ofSplit
      BY <2>1
    <3>2. Cardinality({c \in ofSplit : c[1] = t}) = Cardinality(group)
      BY <1>1, <3>1
    <3>3. splits[t].degree = chain.m
      BY <1>2, <2>1
    <3> HIDE DEF ofSplit
    <3>4. QED
      BY <1>4, <2>0, <3>2, <3>3
  <2>2. CASE t # s
    <3>1. {c \in ofSplit : c[1] = t} = {}
      BY <2>2
    <3>2. splits[t] \in Split
      BY DEF TypeOK
    <3>3. splits[t].degree >= 1 /\ splits[t].degree \in Int
      <4>1. splits[t].degree >= 1
        BY DEF CustodyInv, SplitsAsShown
      <4>2. splits[t].degree \in Int
        BY <3>2 DEF Split
      <4>3. QED
        BY <4>1, <4>2
    <3>4. QED
      BY <3>1, <3>3, FS_EmptySet
  <2>3. QED
    BY <2>1, <2>2
<1>5. Cardinality(group) < chain.m => ~Restore(ofSplit)
  BY <1>4 DEF Restore
<1>6. QED
  BY <1>3, <1>5

(***************************************************************************)
(* Once a split in force has been dealt out, any threshold of the council  *)
(* restores the owner's key and no smaller group does, for any council.    *)
(***************************************************************************)
THEOREM CouncilRestoresCorrect == Spec => []CouncilRestores
<1>1. Init => CustodyInv
  BY DEF Init, CustodyInv, CardsNamed, SplitsAsShown, ListShown, NoRepeats
<1>2. TypeOK /\ CustodyInv /\ [Next]_vars => CustodyInv'
  BY CustodyCards
<1>3. TypeOK /\ CustodyInv => CouncilRestores
  BY CardsRestore
<1>4. QED
  BY <1>1, <1>2, <1>3, CustodyTypeCorrect, PTL DEF Spec
=============================================================================
