-------------------------- MODULE ShareTools_proofs --------------------------
(***************************************************************************)
(* The two tools, for any secrets, coefficients, numbers and bounds.       *)
(* The distributor's timer: a secret is on the screen only by the step     *)
(* that starts the timer, and no step stops the timer and leaves it there. *)
(* The cards: which hands are combined at all.  The arithmetic: the tables *)
(* are a field, as many shares as the threshold interpolate to the secret, *)
(* and fewer lie on polynomials with any constant whatever.                *)
(***************************************************************************)
EXTENDS ShareTools, TLAPS, WellFoundedInduction, FiniteSetTheorems

(* The fields a step writes are fields of the distributor's state, so that *)
(* writing them takes effect.                                              *)
Written == {"phase", "numShares", "threshold", "typed", "shares",
            "result", "revealed", "timer"} \subseteq DOMAIN tool

IInv == Written /\ RevealedIsTimed

(* Nothing is on the screen before the first split is tried out. *)
LEMMA InitWritten == Init => IInv
BY DEF Init, IInv, Written, RevealedIsTimed, Tool, Nothing

(* The steps that leave the secret and its timer as they are. *)
LEMMA FormKeeps ==
    ASSUME IInv,
           SetNumShares \/ SetThreshold \/ Continue \/ BackToConfigure \/ TypeSecret
              \/ handleGenerate \/ downloadShare \/ downloadAllShares \/ BackToShares
    PROVE  IInv'
<1> USE DEF IInv, Written, RevealedIsTimed, ToolStep
<1>1. CASE SetNumShares BY <1>1 DEF SetNumShares
<1>2. CASE SetThreshold BY <1>2 DEF SetThreshold
<1>3. CASE Continue BY <1>3 DEF Continue
<1>4. CASE BackToConfigure BY <1>4 DEF BackToConfigure
<1>5. CASE TypeSecret BY <1>5 DEF TypeSecret
<1>6. CASE handleGenerate BY <1>6 DEF handleGenerate
<1>7. CASE downloadShare \/ downloadAllShares
  BY <1>7 DEF downloadShare, downloadAllShares
<1>8. CASE BackToShares BY <1>8 DEF BackToShares
<1>9. QED BY <1>1, <1>2, <1>3, <1>4, <1>5, <1>6, <1>7, <1>8

(* The steps that show the secret, wipe it, or start over. *)
LEMMA TimerKeeps ==
    ASSUME IInv, handleVerify \/ startVerify \/ reset \/ TimerFires
    PROVE  IInv'
<1> USE DEF IInv, Written, RevealedIsTimed, ToolStep
<1>1. CASE handleVerify
  <2>1. PICK hand \in [1 .. tool.threshold -> cards] :
          LET secret == reconstructSecret(SharesOf(hand))
              ok     == secret # ShamirError
          IN  tool' = [tool EXCEPT !.result = IF ok THEN "ok" ELSE "fail",
                          !.revealed = IF ok THEN secret ELSE Nothing, !.timer = ok]
    BY <1>1 DEF handleVerify
  <2> DEFINE restored == reconstructSecret(SharesOf(hand))
  <2>2. tool'.revealed = (IF restored # ShamirError THEN restored ELSE Nothing)
    BY <2>1
  <2>3. tool'.timer = (restored # ShamirError)
    BY <2>1
  <2>4. Written'
    BY <2>1
  <2>5. QED
    BY <2>2, <2>3, <2>4
<1>2. CASE startVerify BY <1>2 DEF startVerify
<1>3. CASE reset BY <1>3 DEF reset, Tool, Nothing
<1>4. CASE TimerFires BY <1>4 DEF TimerFires
<1>5. QED BY <1>1, <1>2, <1>3, <1>4

(* The recovery page has no part in the distributor's state. *)
LEMMA RecoveryKeeps ==
    ASSUME handleShareCountChange \/ EnterShares \/ handleShareInput
              \/ handleReconstruct \/ handleReset
    PROVE  UNCHANGED tool
BY DEF handleShareCountChange, EnterShares, handleShareInput, handleReconstruct,
       handleReset, RecoveryStep

LEMMA StepInv == IInv /\ [Next]_vars => IInv'
<1> SUFFICES ASSUME IInv, [Next]_vars PROVE IInv'
  OBVIOUS
<1>1. CASE UNCHANGED tool
  BY <1>1 DEF IInv, Written, RevealedIsTimed
<1>2. CASE UNCHANGED vars
  BY <1>1, <1>2 DEF vars
<1>3. CASE Next
  BY <1>1, <1>3, FormKeeps, TimerKeeps, RecoveryKeeps DEF Next
<1>4. QED
  BY <1>2, <1>3

(***************************************************************************)
(* A secret the distributor shows is being timed, however the user goes    *)
(* back and forth, and whatever is split (ShamirDistributor.tsx:474).      *)
(***************************************************************************)
THEOREM RevealedCorrect == Spec => []RevealedIsTimed
<1>1. Init => IInv
  BY InitWritten
<1>2. IInv /\ [Next]_vars => IInv'
  BY StepInv
<1>3. IInv => RevealedIsTimed
  BY DEF IInv
<1>4. QED
  BY <1>1, <1>2, <1>3, PTL DEF Spec
-----------------------------------------------------------------------------
(***************************************************************************)
(* The cards: what a deal leaves in circulation, and which hands are       *)
(* combined at all.                                                        *)
(***************************************************************************)

(* A share of a secret: one byte for each of its bytes, under an index.    *)
Shaped(share, secret) ==
    /\ share.index \in 1..255
    /\ DOMAIN share.data = 1..Len(secret)
    /\ Len(share.data) = Len(secret)

(* The polynomials of a split, one for each byte of its secret, which is   *)
(* the constant coefficient.  A share holds their values at its index.     *)
Polynomials(P, split) ==
    /\ DOMAIN P = 1..Len(split.secret)
    /\ \A k \in DOMAIN P :
          P[k] \in Seq(Byte) /\ Len(P[k]) = split.threshold /\ P[k][1] = split.secret[k]

LiesOn(share, P) == \A k \in DOMAIN P : share.data[k] = Horner(P[k], share.index)

(* The forms, and the splits made in them.                                 *)
FormInv ==
    /\ Written
    /\ tool.typed \in Secrets \cup {Nothing}
    /\ made \in Seq([secret : Secrets, threshold : Nat \ {0}])

OnScreen == tool.phase \in {"generated", "verify"}

(* The shares on the screen are those of the last split.                   *)
ScreenInv ==
    OnScreen =>
       /\ Len(made) > 0
       /\ \A i \in DOMAIN tool.shares :
             /\ tool.shares[i].index = i
             /\ Shaped(tool.shares[i], made[Len(made)].secret)

CardsInv ==
    \A c \in cards :
       /\ c = [split |-> c.split, share |-> c.share]
       /\ c.split \in 1..Len(made)
       /\ Shaped(c.share, made[c.split].secret)
       /\ OnScreen /\ c.split = Len(made) => c.share = tool.shares[c.share.index]

(* One share has one index: two cards of a split are the same, or differ in it. *)
IndexTellsCards ==
    \A c, d \in cards : c.split = d.split /\ c.share.index = d.share.index => c = d

(* All that is left of a split, on the screen and on cards, is values of   *)
(* one choice of polynomials.                                              *)
Behind(P, s) ==
    /\ Polynomials(P, made[s])
    /\ \A c \in cards : c.split = s => LiesOn(c.share, P)
    /\ OnScreen /\ s = Len(made) => \A i \in DOMAIN tool.shares : LiesOn(tool.shares[i], P)

PolynomialInv == \A s \in 1..Len(made) : \E P : Behind(P, s)

DealInv == FormInv /\ ScreenInv /\ CardsInv /\ IndexTellsCards /\ PolynomialInv

(* A function on 1..k has length k. *)
LEMMA LenIsDomain ==
    ASSUME NEW k \in Nat, NEW f, f = [x \in 1..k |-> f[x]]
    PROVE  Len(f) = k
<1> DEFINE S == {f[x] : x \in 1..k}
<1>1. f \in [1..k -> S]
  OBVIOUS
<1>2. f \in Seq(S)
  BY <1>1
<1>3. QED
  BY <1>1, <1>2

(* A split that is not refused numbers its shares from 1 and gives each a  *)
(* byte for each byte of the secret.                                       *)
LEMMA SplitShape ==
    ASSUME NEW secret \in Seq(Byte), NEW m, NEW n, NEW rng,
           splitSecret(secret, m, n, rng) # ShamirError
    PROVE  LET shares == splitSecret(secret, m, n, rng)
           IN  /\ n \in 1..255 /\ m \in 1..n
               /\ DOMAIN shares = 1..n
               /\ \A i \in 1..n : shares[i].index = i /\ Shaped(shares[i], secret)
<1> DEFINE shares == splitSecret(secret, m, n, rng)
           bytes(i) == [k \in DOMAIN secret |-> Horner(<<secret[k]>> \o rng[k], i)]
<1>1. /\ n \in 1..255 /\ m \in 1..n
      /\ shares = [i \in 1..n |-> [index |-> i, data |-> bytes(i)]]
  BY DEF splitSecret
<1>2. ASSUME NEW i \in 1..n
      PROVE  shares[i].index = i /\ Shaped(shares[i], secret)
  <2>1. shares[i] = [index |-> i, data |-> bytes(i)]
    BY <1>1
  <2>2. DOMAIN bytes(i) = 1..Len(secret) /\ Len(secret) \in Nat
    OBVIOUS
  <2>3. bytes(i) = [k \in 1..Len(secret) |-> bytes(i)[k]]
    BY <2>2
  <2> HIDE DEF bytes
  <2>4. Len(bytes(i)) = Len(secret)
    BY <2>2, <2>3, LenIsDomain
  <2>5. i \in 1..255
    BY <1>1
  <2>6. QED
    BY <2>1, <2>2, <2>4, <2>5 DEF Shaped
<1>3. DOMAIN shares = 1..n
  BY <1>1
<1> HIDE DEF shares
<1>4. QED
  BY <1>1, <1>2, <1>3 DEF shares

(* And they lie on the polynomials of the random coefficients.             *)
LEMMA SplitLiesOn ==
    ASSUME NEW secret \in Seq(Byte), NEW m, NEW n,
           NEW rng \in [DOMAIN secret -> [1..(m - 1) -> Byte]],
           splitSecret(secret, m, n, rng) # ShamirError
    PROVE  LET shares == splitSecret(secret, m, n, rng)
               split  == [secret |-> secret, threshold |-> m]
           IN  \E P : /\ Polynomials(P, split)
                      /\ \A i \in DOMAIN shares : LiesOn(shares[i], P)
<1> DEFINE shares == splitSecret(secret, m, n, rng)
           split == [secret |-> secret, threshold |-> m]
           P == [k \in DOMAIN secret |-> <<secret[k]>> \o rng[k]]
<1>1. /\ n \in 1..255 /\ m \in 1..n
      /\ shares = [i \in 1..n |->
                     [index |-> i,
                      data |-> [k \in DOMAIN secret |-> Horner(<<secret[k]>> \o rng[k], i)]]]
  BY DEF splitSecret
<1>2. DOMAIN P = 1..Len(secret)
  OBVIOUS
<1>3. ASSUME NEW k \in DOMAIN P
      PROVE  P[k] \in Seq(Byte) /\ Len(P[k]) = m /\ P[k][1] = secret[k]
  <2> DEFINE c == secret[k]
             r == rng[k]
             l == m - 1
  <2>0. k \in DOMAIN secret /\ P[k] = <<c>> \o r
    OBVIOUS
  <2>1. c \in Byte /\ r \in [1..l -> Byte]
    BY <2>0
  <2>2. l \in Nat /\ m = l + 1
    BY <1>1
  <2> HIDE DEF c, r, P, l
  <2>3. r \in Seq(Byte) /\ Len(r) = l
    BY <2>1, <2>2
  <2>4. <<c>> \o r \in Seq(Byte) /\ Len(<<c>> \o r) = l + 1 /\ (<<c>> \o r)[1] = c
    BY <2>1, <2>2, <2>3
  <2> QED
    BY <2>0, <2>2, <2>4 DEF c
<1>4. Polynomials(P, split)
  <2> HIDE DEF P
  <2> QED
    BY <1>2, <1>3 DEF Polynomials
<1>5. \A i \in DOMAIN shares : LiesOn(shares[i], P)
  BY <1>1 DEF LiesOn
<1> QED
  BY <1>4, <1>5

LEMMA InitDeal == Init => DealInv
BY DEF Init, DealInv, FormInv, ScreenInv, CardsInv, IndexTellsCards, PolynomialInv,
       OnScreen, Written, Tool, Nothing

(* What leaves splits and cards alone keeps them true, when it shows no    *)
(* other shares.                                                           *)
LEMMA DealKept ==
    ASSUME DealInv, FormInv', UNCHANGED <<made, cards>>,
           OnScreen' => OnScreen /\ tool'.shares = tool.shares
    PROVE  DealInv'
<1> USE DEF DealInv
<1>1. ScreenInv'
  BY DEF ScreenInv
<1>2. CardsInv'
  BY DEF CardsInv
<1>3. IndexTellsCards'
  BY DEF IndexTellsCards
<1>4. PolynomialInv'
  <2>1. ASSUME NEW s, NEW P, Behind(P, s)
        PROVE  Behind(P, s)'
    BY <2>1 DEF Behind
  <2> QED
    BY <2>1 DEF PolynomialInv
<1> QED
  BY <1>1, <1>2, <1>3, <1>4

LEMMA FormStepsDeal ==
    ASSUME DealInv,
           SetNumShares \/ SetThreshold \/ Continue \/ BackToConfigure \/ TypeSecret \/ reset
    PROVE  DealInv'
<1> SUFFICES /\ UNCHANGED <<made, cards>> /\ ~OnScreen'
             /\ Written' /\ tool'.typed \in Secrets \cup {Nothing}
  BY DealKept DEF DealInv, FormInv
<1> USE DEF DealInv, FormInv, Written, OnScreen, ToolStep, Quiet
<1>1. CASE SetNumShares
  BY <1>1 DEF SetNumShares
<1>2. CASE SetThreshold
  BY <1>2 DEF SetThreshold
<1>3. CASE Continue
  BY <1>3 DEF Continue
<1>4. CASE BackToConfigure
  BY <1>4 DEF BackToConfigure
<1>5. CASE TypeSecret
  BY <1>5 DEF TypeSecret
<1>6. CASE reset
  BY <1>6 DEF reset, Tool
<1>7. QED
  BY <1>1, <1>2, <1>3, <1>4, <1>5, <1>6

LEMMA ScreenStepsDeal ==
    ASSUME DealInv, startVerify \/ handleVerify \/ BackToShares \/ TimerFires
    PROVE  DealInv'
<1> USE DEF DealInv, FormInv, Written, ToolStep, Quiet
<1>1. CASE startVerify
  BY <1>1, DealKept DEF startVerify, OnScreen
<1>2. CASE handleVerify
  <2>1. PICK r, v, b : tool' = [tool EXCEPT !.result = r, !.revealed = v, !.timer = b]
    BY <1>2 DEF handleVerify
  <2>2. UNCHANGED <<made, cards>>
    BY <1>2 DEF handleVerify
  <2>3. QED
    BY <2>1, <2>2, DealKept DEF OnScreen
<1>3. CASE BackToShares
  BY <1>3, DealKept DEF BackToShares, OnScreen
<1>4. CASE TimerFires
  BY <1>4, DealKept DEF TimerFires, OnScreen
<1>5. QED
  BY <1>1, <1>2, <1>3, <1>4

(* A new split: no card is of it yet. *)
LEMMA GenerateDeal ==
    ASSUME DealInv, handleGenerate
    PROVE  DealInv'
<1> USE ToolsAssumption DEF DealInv
<1>1. PICK rng \in [DOMAIN tool.typed -> [1..(tool.threshold - 1) -> Coefficients]] :
         LET shares == splitSecret(tool.typed, tool.threshold, tool.numShares, rng)
         IN  /\ shares # ShamirError
             /\ tool' = [tool EXCEPT !.shares = shares, !.typed = Nothing,
                                     !.phase = "generated"]
             /\ made' = Append(made, [secret |-> tool.typed, threshold |-> tool.threshold])
             /\ cards' = cards
  BY DEF handleGenerate, ToolStep
<1> DEFINE shares == splitSecret(tool.typed, tool.threshold, tool.numShares, rng)
<1>2. tool.typed \in Secrets /\ tool.typed \in Seq(Byte)
  BY DEF handleGenerate, FormInv
<1>3. /\ tool.threshold \in Nat \ {0}
      /\ \A i \in DOMAIN shares : shares[i].index = i /\ Shaped(shares[i], tool.typed)
  <2>1. shares # ShamirError
    BY <1>1
  <2>2. /\ tool.numShares \in 1..255 /\ tool.threshold \in 1..tool.numShares
        /\ DOMAIN shares = 1..tool.numShares
        /\ \A i \in 1..tool.numShares : shares[i].index = i /\ Shaped(shares[i], tool.typed)
    BY <1>2, <2>1, SplitShape
  <2>3. tool.threshold \in Nat \ {0}
    BY <2>2
  <2> QED
    BY <2>2, <2>3
<1> DEFINE split == [secret |-> tool.typed, threshold |-> tool.threshold]
<1>poly. PICK P : Polynomials(P, split) /\ \A i \in DOMAIN shares : LiesOn(shares[i], P)
  <2>1. shares # ShamirError
    BY <1>1
  <2>2. rng \in [DOMAIN tool.typed -> [1..(tool.threshold - 1) -> Byte]]
    OBVIOUS
  <2> QED
    BY <1>2, <2>1, <2>2, SplitLiesOn
<1> HIDE DEF shares
<1>4. /\ tool'.shares = shares /\ tool'.typed = Nothing /\ tool'.phase = "generated"
      /\ Written'
  BY <1>1 DEF FormInv, Written, shares
<1>5. /\ made' \in Seq([secret : Secrets, threshold : Nat \ {0}])
      /\ Len(made') = Len(made) + 1 /\ Len(made) \in Nat
      /\ made'[Len(made')] = split
      /\ \A s \in 1..Len(made) : made'[s] = made[s]
  BY <1>1, <1>2, <1>3 DEF FormInv
<1>6. FormInv'
  BY <1>4, <1>5 DEF FormInv
<1>7. ScreenInv'
  BY <1>3, <1>4, <1>5 DEF ScreenInv
<1>8. CardsInv'
  BY <1>1, <1>5 DEF CardsInv
<1>9. IndexTellsCards'
  BY <1>1 DEF IndexTellsCards
<1>10. PolynomialInv'
  <2> SUFFICES ASSUME NEW s \in 1..Len(made') PROVE \E Q : Behind(Q, s)'
    BY DEF PolynomialInv
  <2>1. CASE s = Len(made')
    <3>1. \A c \in cards : c.split # s
      BY <1>5, <2>1 DEF CardsInv
    <3>2. Behind(P, s)'
      BY <1>1, <1>4, <1>5, <1>poly, <2>1, <3>1 DEF Behind
    <3> QED
      BY <3>2
  <2>2. CASE s # Len(made')
    <3>1. s \in 1..Len(made)
      BY <1>5, <2>2
    <3>2. PICK Q : Behind(Q, s)
      BY <3>1 DEF PolynomialInv
    <3>3. Behind(Q, s)'
      BY <1>1, <1>5, <2>2, <3>1, <3>2 DEF Behind
    <3> QED
      BY <3>3
  <2> QED
    BY <2>1, <2>2
<1>11. QED
  BY <1>6, <1>7, <1>8, <1>9, <1>10

(* A card of the split on the screen.  A card with its index is the same. *)
LEMMA DownloadDeal ==
    ASSUME DealInv, downloadShare \/ downloadAllShares
    PROVE  DealInv'
<1> USE DEF DealInv
<1>1. /\ tool' = tool /\ made' = made
      /\ tool.phase = "generated"
      /\ \A c \in cards' : c \in cards \/ \E i \in DOMAIN tool.shares : c = CardOf(i)
  BY DEF downloadShare, downloadAllShares, ToolStep
<1>2. OnScreen /\ OnScreen'
  BY <1>1 DEF OnScreen
<1>3. Len(made) \in Nat /\ Len(made) > 0
  BY <1>2 DEF FormInv, ScreenInv
<1>4. ASSUME NEW i \in DOMAIN tool.shares
      PROVE  /\ CardOf(i) = [split |-> Len(made), share |-> tool.shares[i]]
             /\ tool.shares[i].index = i
             /\ Shaped(tool.shares[i], made[Len(made)].secret)
  BY <1>2 DEF CardOf, ScreenInv
<1>5. FormInv' /\ ScreenInv'
  BY <1>1 DEF FormInv, Written, ScreenInv, OnScreen
<1>6. ASSUME NEW c \in cards'
      PROVE  /\ c = [split |-> c.split, share |-> c.share]
             /\ c.split \in 1..Len(made)
             /\ Shaped(c.share, made[c.split].secret)
             /\ c.split = Len(made) => c.share = tool.shares[c.share.index]
  <2>1. CASE c \in cards
    BY <2>1, <1>2 DEF CardsInv
  <2>2. CASE \E i \in DOMAIN tool.shares : c = CardOf(i)
    BY <2>2, <1>3, <1>4
  <2>3. QED
    BY <2>1, <2>2, <1>1
<1>7. CardsInv'
  BY <1>1, <1>6 DEF CardsInv
<1>8. ASSUME NEW c \in cards', NEW d \in cards',
             c.split = d.split, c.share.index = d.share.index
      PROVE  c = d
  <2>1. CASE c \in cards /\ d \in cards
    BY <2>1, <1>8 DEF IndexTellsCards
  <2>2. CASE c.split = Len(made)
    BY <2>2, <1>6, <1>8
  <2>3. CASE c.split # Len(made)
    BY <2>1, <2>3, <1>1, <1>4, <1>8
  <2>4. QED
    BY <2>2, <2>3
<1>9. IndexTellsCards'
  BY <1>8 DEF IndexTellsCards
<1>10. PolynomialInv'
  <2> SUFFICES ASSUME NEW s \in 1..Len(made) PROVE \E P : Behind(P, s)'
    BY <1>1 DEF PolynomialInv
  <2>1. PICK P : Behind(P, s)
    BY DEF PolynomialInv
  <2>2. ASSUME NEW c \in cards', c.split = s
        PROVE  LiesOn(c.share, P)
    <3>1. CASE c \in cards
      BY <2>1, <2>2, <3>1 DEF Behind
    <3>2. CASE \E i \in DOMAIN tool.shares : c = CardOf(i)
      BY <1>2, <1>4, <2>1, <2>2, <3>2 DEF Behind
    <3> QED
      BY <1>1, <3>1, <3>2
  <2>3. Behind(P, s)'
    BY <1>1, <1>2, <2>1, <2>2 DEF Behind
  <2> QED
    BY <2>3
<1>11. QED
  BY <1>5, <1>7, <1>9, <1>10

LEMMA DealStep == DealInv /\ [Next]_vars => DealInv'
<1> SUFFICES ASSUME DealInv, [Next]_vars PROVE DealInv'
  OBVIOUS
<1>1. CASE UNCHANGED <<tool, made, cards>>
  BY <1>1, DealKept DEF DealInv, FormInv, Written, OnScreen
<1>2. CASE handleShareCountChange \/ EnterShares \/ handleShareInput
             \/ handleReconstruct \/ handleReset
  BY <1>1, <1>2 DEF handleShareCountChange, EnterShares, handleShareInput,
                    handleReconstruct, handleReset, RecoveryStep, Quiet
<1>3. CASE UNCHANGED vars
  BY <1>1, <1>3 DEF vars
<1>4. CASE Next
  BY <1>2, <1>4, FormStepsDeal, ScreenStepsDeal, GenerateDeal, DownloadDeal DEF Next
<1>5. QED
  BY <1>3, <1>4

(***************************************************************************)
(* Cards of one split are refused exactly when one of them is there twice: *)
(* the checks of reconstructSecret (shamir.ts:123-135) refuse no cards     *)
(* that belong together, and a card pasted twice is not taken for two.     *)
(***************************************************************************)
RefusedOnlyIfRepeated ==
    \A s \in DOMAIN made, n \in Nat \ {0} : \A hand \in [1..n -> cards] :
       FromOne(hand, s) =>
          (reconstructSecret(SharesOf(hand)) = ShamirError
             <=> \E i, j \in 1..n : i # j /\ hand[i] = hand[j])

LEMMA DealRefuses == DealInv => RefusedOnlyIfRepeated
<1> SUFFICES ASSUME DealInv, NEW s \in DOMAIN made, NEW n \in Nat \ {0},
                    NEW hand \in [1..n -> cards], FromOne(hand, s)
             PROVE  reconstructSecret(SharesOf(hand)) = ShamirError
                      <=> \E i, j \in 1..n : i # j /\ hand[i] = hand[j]
  BY DEF RefusedOnlyIfRepeated
<1> DEFINE shares == SharesOf(hand)
<1>1. /\ DOMAIN shares = 1..n /\ 1 \in 1..n /\ DOMAIN hand = 1..n
      /\ \A i \in 1..n : shares[i] = hand[i].share /\ hand[i] \in cards /\ hand[i].split = s
  BY DEF SharesOf, FromOne
<1>2. \A i \in 1..n : Shaped(shares[i], made[s].secret)
  BY <1>1 DEF DealInv, CardsInv
<1>3. Len(made[s].secret) \in Nat \ {0}
  <2> DEFINE Splits == [secret : Secrets, threshold : Nat \ {0}]
  <2>1. made[s].secret \in Secrets
    <3>1. made \in Seq(Splits)
      BY DEF DealInv, FormInv
    <3> HIDE DEF Splits
    <3>2. made[s] \in Splits
      BY <3>1
    <3> QED
      BY <3>2 DEF Splits
  <2>2. made[s].secret \in Seq(Byte) /\ made[s].secret # <<>>
    BY <2>1, ToolsAssumption
  <2> QED
    BY <2>2
<1>4. \A i, j \in 1..n : shares[i].index = shares[j].index => hand[i] = hand[j]
  BY <1>1 DEF DealInv, IndexTellsCards
<1> HIDE DEF shares
<1>5. Combinable(shares) <=> \A i, j \in 1..n : i # j => hand[i] # hand[j]
  <2>1. shares # <<>>
    BY <1>1
  <2>2. \A i, j \in 1..n : Len(shares[i].data) = Len(shares[j].data)
    BY <1>2 DEF Shaped
  <2>3. \A i \in 1..n : shares[i].index # 0
    <3> SUFFICES ASSUME NEW i \in 1..n PROVE shares[i].index # 0
      OBVIOUS
    <3>1. shares[i].index \in 1..255
      BY <1>2 DEF Shaped
    <3>2. \A x \in 1..255 : x # 0
      OBVIOUS
    <3> QED
      BY <3>1, <3>2
  <2>4. \A i, j \in 1..n : hand[i] = hand[j] => shares[i].index = shares[j].index
    BY <1>1
  <2>5. QED
    BY <2>1, <2>2, <2>3, <2>4, <1>1, <1>4 DEF Combinable
<1>6. Combinable(shares) => reconstructSecret(shares) # ShamirError
  <2> SUFFICES ASSUME Combinable(shares) PROVE reconstructSecret(shares) # <<>>
    BY DEF ShamirError
  <2>1. DOMAIN reconstructSecret(shares) = DOMAIN shares[1].data
    BY DEF reconstructSecret
  <2>2. 1 \in DOMAIN shares[1].data
    BY <1>1, <1>2, <1>3 DEF Shaped
  <2>3. QED
    BY <2>1, <2>2
<1>7. ~Combinable(shares) => reconstructSecret(shares) = ShamirError
  BY DEF reconstructSecret
<1>8. QED
  BY <1>5, <1>6, <1>7 DEF shares

(***************************************************************************)
(* In every reachable state cards of one split are refused exactly when    *)
(* one of them is there twice (reconstructSecret, shamir.ts:123-135).      *)
(***************************************************************************)
THEOREM RefusalCorrect == Spec => []RefusedOnlyIfRepeated
<1>1. Init => DealInv
  BY InitDeal
<1>2. DealInv /\ [Next]_vars => DealInv'
  BY DealStep
<1>3. DealInv => RefusedOnlyIfRepeated
  BY DealRefuses
<1>4. QED
  BY <1>1, <1>2, <1>3, PTL DEF Spec
-----------------------------------------------------------------------------
(***************************************************************************)
(* Induction, over sets: the natural numbers are well founded.             *)
(***************************************************************************)
LEMMA Induction ==
    ASSUME NEW S, 0 \in S, \A n \in Nat : n \in S => n + 1 \in S
    PROVE  Nat \subseteq S
<1> DEFINE less == {p \in Nat \X Nat : p[1] < p[2]}
<1> SUFFICES ASSUME Nat \ S # {} PROVE FALSE
  OBVIOUS
<1>1. IsWellFoundedOn(less, Nat)
  BY NatLessThanWellFounded DEF OpToRel
<1>2. \E n \in Nat \ S : \A m \in Nat \ S : <<m, n>> \notin less
  <2> HIDE DEF less
  <2>1. Nat \ S \subseteq Nat
    OBVIOUS
  <2> QED
    BY <1>1, <2>1, WFMin
<1>3. PICK n \in Nat \ S : \A m \in Nat \ S : ~(m < n)
  BY <1>2
<1>4. n - 1 \in Nat /\ n - 1 < n
  BY <1>3
<1>5. n - 1 \in S
  BY <1>3, <1>4
<1> QED
  BY <1>4, <1>5

(***************************************************************************)
(* The laws of the field, from what TLC has checked of its tables.         *)
(***************************************************************************)
LEMMA AddType == \A a, b \in Byte : gfAdd(a, b) \in Byte
BY TablesAssumption

LEMMA MulType == \A a, b \in Byte : gfMul(a, b) \in Byte
BY TablesAssumption

LEMMA InvLaw == \A a \in Byte : a # 0 => gfInv(a) \in Byte /\ gfMul(a, gfInv(a)) = 1
BY TablesAssumption

LEMMA AddComm == \A a, b \in Byte : gfAdd(a, b) = gfAdd(b, a)
BY TablesAssumption

LEMMA MulComm == \A a, b \in Byte : gfMul(a, b) = gfMul(b, a)
BY TablesAssumption

(* Zero and one. *)
LEMMA Units ==
    /\ 0 \in Byte /\ 1 \in Byte
    /\ \A a \in Byte : /\ gfAdd(a, 0) = a /\ gfAdd(0, a) = a /\ gfAdd(a, a) = 0
                       /\ gfMul(a, 1) = a /\ gfMul(1, a) = a
                       /\ gfMul(a, 0) = 0 /\ gfMul(0, a) = 0
<1>1. 0 \in Byte /\ 1 \in Byte
  BY DEF Byte
<1> QED
  BY <1>1, TablesAssumption

(* Every byte is reached from 0 by adding numbers with one bit set. *)
LEMMA BitInduction ==
    ASSUME NEW S, 0 \in S,
           \A b \in Byte, p \in OneBit : b \in S => gfAdd(b, p) \in S
    PROVE  Byte \subseteq S
<1> DEFINE T == {n \in Nat : \A b \in Byte : b <= n => b \in S}
<1>1. 0 \in T
  BY DEF Byte
<1>2. ASSUME NEW n \in Nat, n \in T
      PROVE  n + 1 \in T
  <2> SUFFICES ASSUME n + 1 \in Byte PROVE n + 1 \in S
    BY <1>2 DEF Byte
  <2>1. n + 1 \in 1..255
    BY DEF Byte
  <2>2. PICK p \in OneBit : gfAdd(n + 1, p) < n + 1
    BY <2>1, TablesAssumption
  <2> DEFINE b == gfAdd(n + 1, p)
  <2>3. p \in Byte
    BY DEF OneBit, Byte
  <2>4. b \in Byte
    BY <2>3, AddType
  <2>5. b \in S
    BY <2>2, <2>4, <1>2 DEF Byte
  <2>6. gfAdd(b, p) = n + 1
    BY <2>3, Units, TablesAssumption
  <2> QED
    BY <2>4, <2>5, <2>6
<1>3. Nat \subseteq T
  <2> HIDE DEF T
  <2> QED
    BY <1>1, <1>2, Induction
<1> QED
  BY <1>3 DEF Byte

(* Sums and products associate: by adding up the third, second or last byte. *)
LEMMA AddAssoc ==
    \A a, b, c \in Byte : gfAdd(gfAdd(a, b), c) = gfAdd(a, gfAdd(b, c))
<1> SUFFICES ASSUME NEW a \in Byte, NEW b \in Byte
             PROVE  \A c \in Byte : gfAdd(gfAdd(a, b), c) = gfAdd(a, gfAdd(b, c))
  OBVIOUS
<1> DEFINE S == {c \in Byte : gfAdd(gfAdd(a, b), c) = gfAdd(a, gfAdd(b, c))}
<1>1. 0 \in S
  BY AddType, Units
<1>2. ASSUME NEW c \in Byte, NEW p \in OneBit, c \in S
      PROVE  gfAdd(c, p) \in S
  <2>1. p \in Byte
    BY DEF OneBit, Byte
  <2>2. gfAdd(gfAdd(a, b), gfAdd(c, p)) = gfAdd(gfAdd(gfAdd(a, b), c), p)
    <3>1. gfAdd(a, b) \in Byte
      BY AddType
    <3> QED
      BY <3>1, TablesAssumption
  <2>3. @ = gfAdd(gfAdd(a, gfAdd(b, c)), p)
    BY <1>2
  <2>4. @ = gfAdd(a, gfAdd(gfAdd(b, c), p))
    BY AddType, TablesAssumption
  <2>5. @ = gfAdd(a, gfAdd(b, gfAdd(c, p)))
    BY AddType, TablesAssumption
  <2> QED
    BY <2>1, <2>2, <2>3, <2>4, <2>5, AddType
<1>3. Byte \subseteq S
  <2> HIDE DEF S
  <2> QED
    BY <1>1, <1>2, BitInduction
<1> QED
  BY <1>3

LEMMA Distributive ==
    \A a, b, c \in Byte : gfMul(a, gfAdd(b, c)) = gfAdd(gfMul(a, b), gfMul(a, c))
<1> SUFFICES ASSUME NEW a \in Byte, NEW b \in Byte
             PROVE  \A c \in Byte : gfMul(a, gfAdd(b, c)) = gfAdd(gfMul(a, b), gfMul(a, c))
  OBVIOUS
<1> DEFINE S == {c \in Byte : gfMul(a, gfAdd(b, c)) = gfAdd(gfMul(a, b), gfMul(a, c))}
<1>1. 0 \in S
  BY MulType, Units
<1>2. ASSUME NEW c \in Byte, NEW p \in OneBit, c \in S
      PROVE  gfAdd(c, p) \in S
  <2>1. p \in Byte
    BY DEF OneBit, Byte
  <2>2. gfMul(a, gfAdd(b, gfAdd(c, p))) = gfMul(a, gfAdd(gfAdd(b, c), p))
    BY <2>1, AddAssoc
  <2>3. @ = gfAdd(gfMul(a, gfAdd(b, c)), gfMul(a, p))
    BY AddType, TablesAssumption
  <2>4. @ = gfAdd(gfAdd(gfMul(a, b), gfMul(a, c)), gfMul(a, p))
    BY <1>2
  <2>5. @ = gfAdd(gfMul(a, b), gfAdd(gfMul(a, c), gfMul(a, p)))
    BY <2>1, MulType, AddAssoc
  <2>6. @ = gfAdd(gfMul(a, b), gfMul(a, gfAdd(c, p)))
    BY TablesAssumption
  <2> QED
    BY <2>1, <2>2, <2>3, <2>4, <2>5, <2>6, AddType
<1>3. Byte \subseteq S
  <2> HIDE DEF S
  <2> QED
    BY <1>1, <1>2, BitInduction
<1> QED
  BY <1>3

LEMMA MulAssoc ==
    \A a, b, c \in Byte : gfMul(gfMul(a, b), c) = gfMul(a, gfMul(b, c))
<1> SUFFICES ASSUME NEW a \in Byte, NEW b \in Byte
             PROVE  \A c \in Byte : gfMul(gfMul(a, b), c) = gfMul(a, gfMul(b, c))
  OBVIOUS
<1> DEFINE S == {c \in Byte : gfMul(gfMul(a, b), c) = gfMul(a, gfMul(b, c))}
<1>1. 0 \in S
  BY MulType, Units
<1>2. ASSUME NEW c \in Byte, NEW p \in OneBit, c \in S
      PROVE  gfAdd(c, p) \in S
  <2>1. p \in Byte
    BY DEF OneBit, Byte
  <2>2. gfMul(gfMul(a, b), gfAdd(c, p)) = gfAdd(gfMul(gfMul(a, b), c), gfMul(gfMul(a, b), p))
    BY <2>1, MulType, Distributive
  <2>3. @ = gfAdd(gfMul(a, gfMul(b, c)), gfMul(a, gfMul(b, p)))
    BY <1>2, TablesAssumption
  <2>4. @ = gfMul(a, gfAdd(gfMul(b, c), gfMul(b, p)))
    BY <2>1, MulType, Distributive
  <2>5. @ = gfMul(a, gfMul(b, gfAdd(c, p)))
    BY <2>1, Distributive
  <2> QED
    BY <2>1, <2>2, <2>3, <2>4, <2>5, AddType
<1>3. Byte \subseteq S
  <2> HIDE DEF S
  <2> QED
    BY <1>1, <1>2, BitInduction
<1> QED
  BY <1>3

(* Sums and products of nonzero bytes, and division. *)
LEMMA Regroup ==
    \A a, b, c, d \in Byte :
       /\ gfAdd(gfAdd(a, b), gfAdd(c, d)) = gfAdd(gfAdd(a, c), gfAdd(b, d))
       /\ gfMul(gfMul(a, b), gfMul(c, d)) = gfMul(gfMul(a, c), gfMul(b, d))
<1> SUFFICES ASSUME NEW a \in Byte, NEW b \in Byte, NEW c \in Byte, NEW d \in Byte
             PROVE  /\ gfAdd(gfAdd(a, b), gfAdd(c, d)) = gfAdd(gfAdd(a, c), gfAdd(b, d))
                    /\ gfMul(gfMul(a, b), gfMul(c, d)) = gfMul(gfMul(a, c), gfMul(b, d))
  OBVIOUS
<1>1. gfAdd(gfAdd(a, b), gfAdd(c, d)) = gfAdd(a, gfAdd(gfAdd(b, c), d))
  BY AddType, AddAssoc
<1>2. @ = gfAdd(a, gfAdd(gfAdd(c, b), d))
  BY AddComm
<1>3. @ = gfAdd(gfAdd(a, c), gfAdd(b, d))
  BY AddType, AddAssoc
<1>4. gfMul(gfMul(a, b), gfMul(c, d)) = gfMul(a, gfMul(gfMul(b, c), d))
  BY MulType, MulAssoc
<1>5. @ = gfMul(a, gfMul(gfMul(c, b), d))
  BY MulComm
<1>6. @ = gfMul(gfMul(a, c), gfMul(b, d))
  BY MulType, MulAssoc
<1> QED
  BY <1>1, <1>2, <1>3, <1>4, <1>5, <1>6

(* Different bytes have a sum other than 0; a byte added twice is gone. *)
LEMMA SumNotZero == \A a, b \in Byte : a # b => gfAdd(a, b) # 0
<1> SUFFICES ASSUME NEW a \in Byte, NEW b \in Byte, gfAdd(a, b) = 0 PROVE a = b
  OBVIOUS
<1>1. a = gfAdd(a, gfAdd(b, b))
  BY Units
<1>2. @ = gfAdd(gfAdd(a, b), b)
  BY AddAssoc
<1>3. @ = b
  BY Units
<1> QED
  BY <1>1, <1>2, <1>3

(* What is added twice is gone. *)
LEMMA AddCancels == \A a, b \in Byte : gfAdd(gfAdd(a, b), b) = a
BY AddAssoc, Units

(* A product is 0 only through a factor, so quotients multiply. *)
LEMMA ProductNotZero == \A a, b \in Byte : a # 0 /\ b # 0 => gfMul(a, b) # 0
<1> SUFFICES ASSUME NEW a \in Byte, NEW b \in Byte, a # 0, gfMul(a, b) = 0 PROVE b = 0
  OBVIOUS
<1>1. gfInv(a) \in Byte /\ gfMul(gfInv(a), a) = 1
  BY InvLaw, MulComm
<1>2. gfMul(gfMul(gfInv(a), a), b) = gfMul(gfInv(a), gfMul(a, b))
  BY <1>1, MulAssoc
<1> QED
  BY <1>1, <1>2, Units

LEMMA InvNotZero == \A a \in Byte : a # 0 => gfInv(a) # 0
<1> SUFFICES ASSUME NEW a \in Byte, a # 0, gfInv(a) = 0 PROVE 1 = 0
  OBVIOUS
<1> QED
  BY InvLaw, Units

LEMMA InvOfProduct ==
    \A a, b \in Byte : a # 0 /\ b # 0 => gfInv(gfMul(a, b)) = gfMul(gfInv(a), gfInv(b))
<1> SUFFICES ASSUME NEW a \in Byte, NEW b \in Byte, a # 0, b # 0
             PROVE  gfInv(gfMul(a, b)) = gfMul(gfInv(a), gfInv(b))
  OBVIOUS
<1> DEFINE c == gfMul(a, b)
           u == gfMul(gfInv(a), gfInv(b))
<1>1. /\ gfInv(a) \in Byte /\ gfInv(b) \in Byte
      /\ gfMul(a, gfInv(a)) = 1 /\ gfMul(b, gfInv(b)) = 1
  BY InvLaw
<1>2. c \in Byte /\ u \in Byte /\ c # 0
  BY <1>1, MulType, ProductNotZero
<1>3. gfMul(c, u) = gfMul(gfMul(a, gfInv(a)), gfMul(b, gfInv(b)))
  BY <1>1, Regroup
<1>4. gfMul(c, u) = 1
  BY <1>1, <1>3, Units
<1> HIDE DEF c, u
<1>5. gfInv(c) \in Byte /\ gfMul(gfInv(c), c) = 1
  BY <1>2, InvLaw, MulComm
<1>6. gfInv(c) = gfMul(gfInv(c), gfMul(c, u))
  BY <1>4, <1>5, Units
<1>7. @ = gfMul(gfMul(gfInv(c), c), u)
  BY <1>2, <1>5, MulAssoc
<1>8. @ = u
  BY <1>2, <1>5, Units
<1> QED
  BY <1>6, <1>7, <1>8 DEF c, u

(* 1/((x+z)(x+y)) and x/((x+z)(x+y)) in partial fractions. *)
LEMMA PartialFractions ==
    ASSUME NEW x \in Byte, NEW y \in Byte, NEW z \in Byte, x # y, x # z, y # z
    PROVE  LET u == gfInv(gfAdd(x, z))
               t == gfInv(gfAdd(y, x))
               w == gfInv(gfAdd(y, z))
           IN  /\ gfMul(u, t) = gfMul(w, gfAdd(u, t))
               /\ gfMul(x, gfMul(u, t)) = gfMul(w, gfAdd(gfMul(z, u), gfMul(y, t)))
<1> DEFINE u == gfInv(gfAdd(x, z))
           t == gfInv(gfAdd(y, x))
           w == gfInv(gfAdd(y, z))
<1>1. /\ gfAdd(x, z) \in Byte /\ gfAdd(y, x) \in Byte /\ gfAdd(y, z) \in Byte
      /\ gfAdd(x, z) # 0 /\ gfAdd(y, x) # 0 /\ gfAdd(y, z) # 0
  BY AddType, SumNotZero
<1>2. /\ u \in Byte /\ t \in Byte /\ w \in Byte
      /\ gfMul(gfAdd(x, z), u) = 1
      /\ gfMul(gfAdd(y, x), t) = 1
      /\ gfMul(gfAdd(y, z), w) = 1
  BY <1>1, InvLaw
<1> HIDE DEF u, t, w
<1>3. gfMul(u, t) \in Byte /\ gfAdd(u, t) \in Byte
  BY <1>2, MulType, AddType
<1>4. gfMul(w, gfAdd(u, t)) = gfMul(u, t)
  <2>1. gfMul(gfMul(u, t), gfAdd(y, x)) = u
    BY <1>1, <1>2, MulAssoc, MulComm, Units
  <2>2. gfMul(gfMul(u, t), gfAdd(x, z)) = t
    <3>1. gfMul(gfMul(u, t), gfAdd(x, z)) = gfMul(gfMul(t, u), gfAdd(x, z))
      BY <1>2, MulComm
    <3>2. @ = gfMul(t, gfMul(u, gfAdd(x, z)))
      BY <1>1, <1>2, MulAssoc
    <3>3. @ = t
      BY <1>1, <1>2, MulComm, Units
    <3> QED
      BY <3>1, <3>2, <3>3
  <2>3. gfAdd(gfAdd(y, x), gfAdd(x, z)) = gfAdd(y, z)
    <3>1. gfAdd(gfAdd(y, x), gfAdd(x, z)) = gfAdd(gfAdd(gfAdd(y, x), x), z)
      BY <1>1, AddAssoc
    <3> QED
      BY <3>1, AddCancels
  <2>4. gfAdd(u, t) = gfMul(gfMul(u, t), gfAdd(y, z))
    BY <1>1, <1>3, <2>1, <2>2, <2>3, Distributive
  <2>5. gfMul(w, gfAdd(u, t)) = gfMul(gfMul(gfMul(u, t), gfAdd(y, z)), w)
    BY <1>2, <1>3, <2>4, MulComm
  <2>6. @ = gfMul(gfMul(u, t), gfMul(gfAdd(y, z), w))
    BY <1>1, <1>2, <1>3, MulAssoc
  <2>7. @ = gfMul(u, t)
    BY <1>2, <1>3, Units
  <2> QED
    BY <2>5, <2>6, <2>7
<1>5. gfMul(x, gfMul(u, t)) = gfMul(w, gfAdd(gfMul(z, u), gfMul(y, t)))
  <2>0. gfMul(x, u) \in Byte /\ gfMul(z, u) \in Byte /\ gfMul(y, t) \in Byte
         /\ gfMul(z, t) \in Byte /\ gfMul(y, w) \in Byte /\ gfMul(z, w) \in Byte
    BY <1>2, MulType
  <2>1. gfMul(x, u) = gfAdd(1, gfMul(z, u))
    <3>1. gfAdd(gfMul(x, u), gfMul(z, u)) = 1
      BY <1>1, <1>2, Distributive, MulComm
    <3> QED
      BY <2>0, <3>1, AddCancels
  <2>2. gfMul(x, gfMul(u, t)) = gfMul(gfAdd(1, gfMul(z, u)), t)
    BY <1>2, <2>1, MulAssoc
  <2>3. @ = gfAdd(t, gfMul(z, gfMul(u, t)))
    <3>1. gfMul(gfMul(z, u), t) = gfMul(z, gfMul(u, t))
      BY <1>2, MulAssoc
    <3>2. gfAdd(1, gfMul(z, u)) \in Byte
      BY <2>0, AddType, Units
    <3>3. gfMul(t, gfAdd(1, gfMul(z, u))) = gfAdd(gfMul(t, 1), gfMul(t, gfMul(z, u)))
      BY <1>2, <2>0, Units, Distributive
    <3> QED
      BY <1>2, <2>0, <3>1, <3>2, <3>3, MulComm, Units
  <2>4. t = gfMul(w, gfMul(gfAdd(y, z), t))
    BY <1>1, <1>2, MulAssoc, MulComm, Units
  <2>5. gfMul(gfAdd(y, z), t) = gfAdd(gfMul(y, t), gfMul(z, t))
    BY <1>1, <1>2, Distributive, MulComm
  <2>6. gfMul(z, gfMul(u, t)) = gfMul(w, gfMul(z, gfAdd(u, t)))
    BY <1>2, <1>3, <1>4, MulAssoc, MulComm
  <2>7. gfMul(z, gfAdd(u, t)) = gfAdd(gfMul(z, u), gfMul(z, t))
    BY <1>2, Distributive
  <2>8. gfAdd(t, gfMul(z, gfMul(u, t)))
          = gfMul(w, gfAdd(gfAdd(gfMul(y, t), gfMul(z, t)), gfAdd(gfMul(z, u), gfMul(z, t))))
    BY <1>2, <2>0, <2>4, <2>5, <2>6, <2>7, AddType, Distributive
  <2>9. gfAdd(gfAdd(gfMul(y, t), gfMul(z, t)), gfAdd(gfMul(z, u), gfMul(z, t)))
          = gfAdd(gfMul(z, u), gfMul(y, t))
    <3> DEFINE a == gfMul(y, t)  b == gfMul(z, t)  c == gfMul(z, u)
    <3>1. a \in Byte /\ b \in Byte /\ c \in Byte
      BY <2>0
    <3> HIDE DEF a, b, c
    <3>2. gfAdd(gfAdd(a, b), gfAdd(c, b)) = gfAdd(gfAdd(a, c), gfAdd(b, b))
      BY <3>1, Regroup
    <3>3. @ = gfAdd(c, a)
      BY <3>1, AddType, AddComm, Units
    <3> QED
      BY <3>2, <3>3 DEF a, b, c
  <2> QED
    BY <2>2, <2>3, <2>8, <2>9
<1> QED
  BY <1>4, <1>5 DEF u, t, w
-----------------------------------------------------------------------------
(***************************************************************************)
(* The loops.  Both are one recursion: step v[i] from v[i-1] by a table t. *)
(***************************************************************************)
Loop(v, t, e, f, n) == v = [i \in 0..n |-> IF i = 0 THEN e ELSE t[v[i - 1]][f[i]]]

(* The recursion has a solution, by induction over the number of steps. *)
LEMMA LoopExists ==
    ASSUME NEW t, NEW e, NEW f
    PROVE  \A n \in Nat : \E v : Loop(v, t, e, f, n)
<1> DEFINE S == {n \in Nat : \E v : Loop(v, t, e, f, n)}
<1>1. 0 \in S
  <2>1. Loop([i \in 0..0 |-> e], t, e, f, 0)
    BY DEF Loop
  <2> QED
    BY <2>1
<1>2. ASSUME NEW n \in Nat, n \in S
      PROVE  n + 1 \in S
  <2>1. PICK v : Loop(v, t, e, f, n)
    BY <1>2
  <2> DEFINE w == [i \in 0..(n + 1) |-> IF i = n + 1 THEN t[v[n]][f[n + 1]] ELSE v[i]]
  <2>2. ASSUME NEW i \in 0..(n + 1)
        PROVE  w[i] = IF i = 0 THEN e ELSE t[w[i - 1]][f[i]]
    <3>1. CASE i = n + 1
      BY <3>1
    <3>2. CASE i \in 0..n
      <4>1. w[i] = v[i] /\ (i # 0 => w[i - 1] = v[i - 1])
        BY <3>2
      <4>2. v[i] = IF i = 0 THEN e ELSE t[v[i - 1]][f[i]]
        BY <2>1, <3>2 DEF Loop
      <4> QED
        BY <4>1, <4>2
    <3> QED
      BY <3>1, <3>2
  <2>3. w = [i \in 0..(n + 1) |-> w[i]]
    OBVIOUS
  <2> HIDE DEF w
  <2>4. Loop(w, t, e, f, n + 1)
    BY <2>2, <2>3 DEF Loop
  <2> QED
    BY <2>4
<1>3. Nat \subseteq S
  <2> HIDE DEF S
  <2> QED
    BY <1>1, <1>2, Induction
<1> QED
  BY <1>3

(* What a loop has computed after m steps depends on the first m bytes. *)
LEMMA LoopPrefix ==
    ASSUME NEW t, NEW e, NEW f, NEW g, NEW n \in Nat, NEW m \in 0..n, NEW v, NEW w,
           Loop(v, t, e, f, n), Loop(w, t, e, g, m), \A i \in 1..m : f[i] = g[i]
    PROVE  v[m] = w[m]
<1> DEFINE S == {k \in Nat : k <= m => v[k] = w[k]}
<1>1. 0 \in S
  BY DEF Loop
<1>2. ASSUME NEW k \in Nat, k \in S
      PROVE  k + 1 \in S
  BY <1>2 DEF Loop
<1>3. Nat \subseteq S
  <2> HIDE DEF S
  <2> QED
    BY <1>1, <1>2, Induction
<1> QED
  BY <1>3

(* What the two loops of the code compute is such a solution. *)
LEMMA SumIsLoop ==
    ASSUME NEW f, NEW n \in Nat
    PROVE  \E v : Loop(v, Xor, 0, f, n) /\ FieldSum(f, n) = v[n]
<1>1. \E v : v = [i \in 0..n |-> IF i = 0 THEN 0 ELSE gfAdd(v[i - 1], f[i])]
  <2>1. PICK v : Loop(v, Xor, 0, f, n)
    BY LoopExists
  <2>2. v = [i \in 0..n |-> IF i = 0 THEN 0 ELSE gfAdd(v[i - 1], f[i])]
    BY <2>1, Zenon DEF Loop, gfAdd
  <2> QED
    BY <2>2, Zenon
<1> DEFINE v == CHOOSE v : v = [i \in 0..n |-> IF i = 0 THEN 0 ELSE gfAdd(v[i - 1], f[i])]
<1>2. v = [i \in 0..n |-> IF i = 0 THEN 0 ELSE gfAdd(v[i - 1], f[i])]
  BY <1>1, Zenon
<1>3. FieldSum(f, n) = v[n]
  BY DEF FieldSum
<1> HIDE DEF v
<1> QED
  BY <1>2, <1>3 DEF Loop, gfAdd

LEMMA ProductIsLoop ==
    ASSUME NEW f, NEW n \in Nat
    PROVE  \E v : Loop(v, Products, 1, f, n) /\ FieldProduct(f, n) = v[n]
<1>1. \E v : v = [i \in 0..n |-> IF i = 0 THEN 1 ELSE gfMul(v[i - 1], f[i])]
  <2>1. PICK v : Loop(v, Products, 1, f, n)
    BY LoopExists
  <2>2. v = [i \in 0..n |-> IF i = 0 THEN 1 ELSE gfMul(v[i - 1], f[i])]
    BY <2>1, Zenon DEF Loop, gfMul
  <2> QED
    BY <2>2, Zenon
<1> DEFINE v == CHOOSE v : v = [i \in 0..n |-> IF i = 0 THEN 1 ELSE gfMul(v[i - 1], f[i])]
<1>2. v = [i \in 0..n |-> IF i = 0 THEN 1 ELSE gfMul(v[i - 1], f[i])]
  BY <1>1, Zenon
<1>3. FieldProduct(f, n) = v[n]
  BY DEF FieldProduct
<1> HIDE DEF v
<1> QED
  BY <1>2, <1>3 DEF Loop, gfMul

(* The sum and the product of the first n + 1 bytes, of none, and of bytes *)
(* that are the same.                                                      *)
LEMMA SumStep ==
    ASSUME NEW f, NEW n \in Nat
    PROVE  /\ FieldSum(f, 0) = 0
           /\ FieldSum(f, n + 1) = gfAdd(FieldSum(f, n), f[n + 1])
<1>1. FieldSum(f, 0) = 0
  BY SumIsLoop DEF Loop
<1>2. PICK v : Loop(v, Xor, 0, f, n) /\ FieldSum(f, n) = v[n]
  BY SumIsLoop
<1>3. PICK w : Loop(w, Xor, 0, f, n + 1) /\ FieldSum(f, n + 1) = w[n + 1]
  BY SumIsLoop
<1>4. w[n] = v[n]
  BY <1>2, <1>3, LoopPrefix
<1>5. w[n + 1] = Xor[w[n]][f[n + 1]]
  BY <1>3 DEF Loop
<1> QED
  BY <1>1, <1>2, <1>3, <1>4, <1>5 DEF gfAdd

(* A sum depends on its summands only. *)
LEMMA SumSame ==
    ASSUME NEW f, NEW g, NEW n \in Nat, \A i \in 1..n : f[i] = g[i]
    PROVE  FieldSum(f, n) = FieldSum(g, n)
<1>1. PICK v : Loop(v, Xor, 0, f, n) /\ FieldSum(f, n) = v[n]
  BY SumIsLoop
<1>2. PICK w : Loop(w, Xor, 0, g, n) /\ FieldSum(g, n) = w[n]
  BY SumIsLoop
<1> QED
  BY <1>1, <1>2, LoopPrefix

LEMMA ProductStep ==
    ASSUME NEW f, NEW n \in Nat
    PROVE  /\ FieldProduct(f, 0) = 1
           /\ FieldProduct(f, n + 1) = gfMul(FieldProduct(f, n), f[n + 1])
<1>1. FieldProduct(f, 0) = 1
  BY ProductIsLoop DEF Loop
<1>2. PICK v : Loop(v, Products, 1, f, n) /\ FieldProduct(f, n) = v[n]
  BY ProductIsLoop
<1>3. PICK w : Loop(w, Products, 1, f, n + 1) /\ FieldProduct(f, n + 1) = w[n + 1]
  BY ProductIsLoop
<1>4. w[n] = v[n]
  BY <1>2, <1>3, LoopPrefix
<1>5. w[n + 1] = Products[w[n]][f[n + 1]]
  BY <1>3 DEF Loop
<1> QED
  BY <1>1, <1>2, <1>3, <1>4, <1>5 DEF gfMul

LEMMA ProductSame ==
    ASSUME NEW f, NEW g, NEW n \in Nat, \A i \in 1..n : f[i] = g[i]
    PROVE  FieldProduct(f, n) = FieldProduct(g, n)
<1>1. PICK v : Loop(v, Products, 1, f, n) /\ FieldProduct(f, n) = v[n]
  BY ProductIsLoop
<1>2. PICK w : Loop(w, Products, 1, g, n) /\ FieldProduct(g, n) = w[n]
  BY ProductIsLoop
<1> QED
  BY <1>1, <1>2, LoopPrefix

(* The loops compute bytes, and a product of bytes other than 0 is not 0. *)
LEMMA SumType ==
    ASSUME NEW n \in Nat, NEW f, \A i \in 1..n : f[i] \in Byte
    PROVE  FieldSum(f, n) \in Byte
<1> DEFINE S == {k \in Nat : k <= n => FieldSum(f, k) \in Byte}
<1>1. 0 \in S
  BY SumStep, Units
<1>2. ASSUME NEW k \in Nat, k \in S
      PROVE  k + 1 \in S
  <2>1. FieldSum(f, k + 1) = gfAdd(FieldSum(f, k), f[k + 1])
    BY SumStep
  <2> QED
    BY <1>2, <2>1, AddType
<1>3. Nat \subseteq S
  <2> HIDE DEF S
  <2> QED
    BY <1>1, <1>2, Induction
<1> QED
  BY <1>3

LEMMA ProductType ==
    ASSUME NEW n \in Nat, NEW f, \A i \in 1..n : f[i] \in Byte
    PROVE  /\ FieldProduct(f, n) \in Byte
           /\ (\A i \in 1..n : f[i] # 0) => FieldProduct(f, n) # 0
<1> DEFINE S == {k \in Nat : k <= n =>
                    /\ FieldProduct(f, k) \in Byte
                    /\ (\A i \in 1..n : f[i] # 0) => FieldProduct(f, k) # 0}
<1>1. 0 \in S
  BY ProductStep, Units
<1>2. ASSUME NEW k \in Nat, k \in S
      PROVE  k + 1 \in S
  <2>1. FieldProduct(f, k + 1) = gfMul(FieldProduct(f, k), f[k + 1])
    BY ProductStep
  <2> QED
    BY <1>2, <2>1, MulType, ProductNotZero
<1>3. Nat \subseteq S
  <2> HIDE DEF S
  <2> QED
    BY <1>1, <1>2, Induction
<1> QED
  BY <1>3

(* h[i] = a * f[i] + b * g[i] for the first n.  Sums are linear. *)
Combination(h, a, f, b, g, n) ==
    /\ a \in Byte /\ b \in Byte
    /\ \A i \in 1..n : /\ f[i] \in Byte /\ g[i] \in Byte
                       /\ h[i] = gfAdd(gfMul(a, f[i]), gfMul(b, g[i]))

LEMMA SumLinear ==
    ASSUME NEW n \in Nat, NEW f, NEW g, NEW h, NEW a, NEW b, Combination(h, a, f, b, g, n)
    PROVE  FieldSum(h, n) = gfAdd(gfMul(a, FieldSum(f, n)), gfMul(b, FieldSum(g, n)))
<1>0. /\ a \in Byte /\ b \in Byte
      /\ \A i \in 1..n : /\ f[i] \in Byte /\ g[i] \in Byte
                         /\ h[i] = gfAdd(gfMul(a, f[i]), gfMul(b, g[i]))
  BY DEF Combination
<1> DEFINE S == {k \in Nat : k <= n =>
                   /\ FieldSum(f, k) \in Byte /\ FieldSum(g, k) \in Byte
                   /\ FieldSum(h, k)
                        = gfAdd(gfMul(a, FieldSum(f, k)), gfMul(b, FieldSum(g, k)))}
<1>1. 0 \in S
  BY <1>0, SumStep, Units
<1>2. ASSUME NEW k \in Nat, k \in S
      PROVE  k + 1 \in S
  <2> SUFFICES ASSUME k + 1 <= n PROVE k + 1 \in S
    OBVIOUS
  <2> DEFINE F == FieldSum(f, k)
             G == FieldSum(g, k)
             x == f[k + 1]
             y == g[k + 1]
  <2>1. /\ FieldSum(f, k + 1) = gfAdd(F, x)
        /\ FieldSum(g, k + 1) = gfAdd(G, y)
        /\ FieldSum(h, k + 1) = gfAdd(FieldSum(h, k), h[k + 1])
    BY SumStep
  <2>2. /\ F \in Byte /\ G \in Byte /\ x \in Byte /\ y \in Byte
        /\ h[k + 1] = gfAdd(gfMul(a, x), gfMul(b, y))
        /\ FieldSum(h, k) = gfAdd(gfMul(a, F), gfMul(b, G))
    BY <1>0, <1>2
  <2> HIDE DEF F, G, x, y
  <2>3. gfAdd(gfAdd(gfMul(a, F), gfMul(b, G)), gfAdd(gfMul(a, x), gfMul(b, y)))
          = gfAdd(gfAdd(gfMul(a, F), gfMul(a, x)), gfAdd(gfMul(b, G), gfMul(b, y)))
    <3>1. /\ gfMul(a, F) \in Byte /\ gfMul(b, G) \in Byte
          /\ gfMul(a, x) \in Byte /\ gfMul(b, y) \in Byte
      BY <1>0, <2>2, MulType
    <3> QED
      BY <3>1, Regroup
  <2>4. @ = gfAdd(gfMul(a, gfAdd(F, x)), gfMul(b, gfAdd(G, y)))
    BY <1>0, <2>2, Distributive
  <2>5. gfAdd(F, x) \in Byte /\ gfAdd(G, y) \in Byte
    BY <2>2, AddType
  <2> QED
    BY <2>1, <2>2, <2>3, <2>4, <2>5
<1>3. Nat \subseteq S
  <2> HIDE DEF S
  <2> QED
    BY <1>1, <1>2, Induction
<1> QED
  BY <1>3
-----------------------------------------------------------------------------
(***************************************************************************)
(* Polynomials.                                                            *)
(***************************************************************************)
Evaluation(y, q, x) ==
    y = [i \in 1..(Len(q) + 1) |->
           IF i > Len(q) THEN 0 ELSE gfAdd(gfMul(y[i + 1], x), q[i])]

(* A polynomial that is not empty is a constant and a shorter one times x. *)
LEMMA SplitPolynomial ==
    ASSUME NEW q \in Seq(Byte), Len(q) # 0
    PROVE  /\ q[1] \in Byte /\ Tail(q) \in Seq(Byte) /\ Len(Tail(q)) = Len(q) - 1
           /\ q = <<q[1]>> \o Tail(q)
<1>1. q # <<>>
  OBVIOUS
<1>2. q[1] \in Byte /\ Tail(q) \in Seq(Byte) /\ Len(Tail(q)) = Len(q) - 1
  BY <1>1
<1>3. q = <<q[1]>> \o Tail(q)
  BY <1>1
<1> QED
  BY <1>2, <1>3

(* The evaluation of a polynomial with one more coefficient in front. *)
LEMMA EvaluationExtends ==
    ASSUME NEW q \in Seq(Byte), NEW c \in Byte, NEW x, NEW y, Evaluation(y, q, x)
    PROVE  \E z : /\ Evaluation(z, <<c>> \o q, x)
                  /\ z[1] = gfAdd(gfMul(y[1], x), c)
<1> DEFINE n == Len(q)
           p == <<c>> \o q
           z == [i \in 1..(n + 2) |-> IF i = 1 THEN gfAdd(gfMul(y[1], x), c) ELSE y[i - 1]]
<1>1. n \in Nat /\ Len(p) = n + 1
  OBVIOUS
<1>2. p[1] = c /\ \A i \in 2..(n + 1) : p[i] = q[i - 1]
  OBVIOUS
<1> HIDE DEF n, p
<1>3. ASSUME NEW i \in 1..(n + 2)
      PROVE  z[i] = IF i > n + 1 THEN 0 ELSE gfAdd(gfMul(z[i + 1], x), p[i])
  <2>1. CASE i = 1
    BY <1>1, <1>2, <2>1
  <2>2. CASE i \in 2..(n + 2)
    <3>1. z[i] = y[i - 1] /\ i - 1 \in 1..(n + 1)
      BY <1>1, <2>2
    <3>2. y[i - 1] = IF i - 1 > n THEN 0 ELSE gfAdd(gfMul(y[i], x), q[i - 1])
      <4>1. i - 1 \in 1..(Len(q) + 1) /\ (i - 1) + 1 = i
        BY <2>2, <3>1 DEF n
      <4> QED
        BY <4>1 DEF Evaluation, n
    <3>3. i <= n + 1 => z[i + 1] = y[i] /\ p[i] = q[i - 1]
      BY <1>1, <1>2, <2>2
    <3> QED
      BY <1>1, <2>2, <3>1, <3>2, <3>3
  <2> QED
    BY <1>1, <2>1, <2>2
<1>4. Evaluation(z, p, x)
  <2>1. z = [i \in 1..(n + 2) |-> z[i]] /\ 1..(n + 2) = 1..(Len(p) + 1)
    BY <1>1
  <2> HIDE DEF z
  <2> QED
    BY <1>1, <1>3, <2>1 DEF Evaluation
<1>5. z[1] = gfAdd(gfMul(y[1], x), c)
  BY <1>1
<1> QED
  BY <1>4, <1>5 DEF p

(* Horner's recursion has a solution, and it is the only one. *)
LEMMA EvaluationExists ==
    ASSUME NEW x
    PROVE  \A q \in Seq(Byte) : \E y : Evaluation(y, q, x)
<1> DEFINE S == {n \in Nat : \A q \in Seq(Byte) : Len(q) = n => \E y : Evaluation(y, q, x)}
<1>1. 0 \in S
  <2> SUFFICES ASSUME NEW q \in Seq(Byte), Len(q) = 0
               PROVE  \E y : Evaluation(y, q, x)
    OBVIOUS
  <2>1. Evaluation([i \in 1..1 |-> 0], q, x)
    BY DEF Evaluation
  <2> QED
    BY <2>1
<1>2. ASSUME NEW n \in Nat, n \in S
      PROVE  n + 1 \in S
  <2> SUFFICES ASSUME NEW q \in Seq(Byte), Len(q) = n + 1
               PROVE  \E y : Evaluation(y, q, x)
    OBVIOUS
  <2>1. /\ q[1] \in Byte /\ Tail(q) \in Seq(Byte) /\ Len(Tail(q)) = n
        /\ q = <<q[1]>> \o Tail(q)
    BY SplitPolynomial
  <2>2. PICK y : Evaluation(y, Tail(q), x)
    BY <1>2, <2>1
  <2> QED
    BY <2>1, <2>2, EvaluationExtends
<1>3. Nat \subseteq S
  <2> HIDE DEF S
  <2> QED
    BY <1>1, <1>2, Induction
<1> QED
  BY <1>3

LEMMA EvaluationUnique ==
    ASSUME NEW q \in Seq(Byte), NEW x, NEW y, NEW z, Evaluation(y, q, x), Evaluation(z, q, x)
    PROVE  y[1] = z[1]
<1> DEFINE n == Len(q)
           S == {k \in Nat : k <= n => y[n + 1 - k] = z[n + 1 - k]}
<1>0. n \in Nat
  OBVIOUS
<1>1. 0 \in S
  BY <1>0 DEF Evaluation
<1>2. ASSUME NEW k \in Nat, k \in S
      PROVE  k + 1 \in S
  <2> SUFFICES ASSUME k + 1 <= n PROVE y[n - k] = z[n - k]
    BY <1>0
  <2>1. n - k \in 1..n /\ (n - k) + 1 = n + 1 - k
    BY <1>0
  <2>2. y[n + 1 - k] = z[n + 1 - k]
    BY <1>2, <1>0
  <2> QED
    BY <1>0, <2>1, <2>2 DEF Evaluation
<1>3. Nat \subseteq S
  <2> HIDE DEF S
  <2> QED
    BY <1>1, <1>2, Induction
<1>4. n \in S
  BY <1>0, <1>3
<1> QED
  BY <1>0, <1>4

(* What Horner's loop computes is that solution. *)
LEMMA HornerIsEvaluation ==
    ASSUME NEW q \in Seq(Byte), NEW x
    PROVE  \E y : Evaluation(y, q, x) /\ Horner(q, x) = y[1]
<1> DEFINE y == CHOOSE y : y = [i \in 1..(Len(q) + 1) |->
                  IF i > Len(q) THEN 0 ELSE gfAdd(gfMul(y[i + 1], x), q[i])]
<1>1. \E z : z = [i \in 1..(Len(q) + 1) |->
                  IF i > Len(q) THEN 0 ELSE gfAdd(gfMul(z[i + 1], x), q[i])]
  BY EvaluationExists, Zenon DEF Evaluation
<1>2. Evaluation(y, q, x)
  BY <1>1, Zenon DEF Evaluation
<1>3. Horner(q, x) = y[1]
  BY DEF Horner
<1> QED
  BY <1>2, <1>3

LEMMA HornerEmpty == ASSUME NEW x PROVE Horner(<<>>, x) = 0
<1>1. <<>> \in Seq(Byte) /\ Len(<<>>) = 0
  OBVIOUS
<1>2. PICK y : Evaluation(y, <<>>, x) /\ Horner(<<>>, x) = y[1]
  BY <1>1, HornerIsEvaluation
<1> QED
  BY <1>1, <1>2 DEF Evaluation

(* P(x) = Q(x) * x + c, where c is the constant of P and Q the rest. *)
LEMMA HornerCons ==
    ASSUME NEW q \in Seq(Byte), NEW c \in Byte, NEW x
    PROVE  Horner(<<c>> \o q, x) = gfAdd(gfMul(Horner(q, x), x), c)
<1>1. <<c>> \o q \in Seq(Byte)
  OBVIOUS
<1>2. PICK y : Evaluation(y, q, x) /\ Horner(q, x) = y[1]
  BY HornerIsEvaluation
<1>3. PICK z : Evaluation(z, <<c>> \o q, x) /\ z[1] = gfAdd(gfMul(y[1], x), c)
  BY <1>2, EvaluationExtends
<1>4. PICK w : Evaluation(w, <<c>> \o q, x) /\ Horner(<<c>> \o q, x) = w[1]
  BY <1>1, HornerIsEvaluation
<1> QED
  BY <1>1, <1>2, <1>3, <1>4, EvaluationUnique

(* The values of a polynomial are bytes. *)
LEMMA HornerType ==
    ASSUME NEW x \in Byte
    PROVE  \A q \in Seq(Byte) : Horner(q, x) \in Byte
<1> DEFINE S == {n \in Nat : \A q \in Seq(Byte) : Len(q) = n => Horner(q, x) \in Byte}
<1>1. 0 \in S
  <2>1. \A q \in Seq(Byte) : Len(q) = 0 => q = <<>>
    OBVIOUS
  <2> QED
    BY <2>1, HornerEmpty, Units
<1>2. ASSUME NEW n \in Nat, n \in S
      PROVE  n + 1 \in S
  <2> SUFFICES ASSUME NEW q \in Seq(Byte), Len(q) = n + 1
               PROVE  Horner(q, x) \in Byte
    OBVIOUS
  <2>1. /\ q[1] \in Byte /\ Tail(q) \in Seq(Byte) /\ Len(Tail(q)) = n
        /\ q = <<q[1]>> \o Tail(q)
    BY SplitPolynomial
  <2>2. Horner(Tail(q), x) \in Byte
    BY <1>2, <2>1
  <2>3. Horner(q, x) = gfAdd(gfMul(Horner(Tail(q), x), x), q[1])
    BY <2>1, HornerCons
  <2> QED
    BY <2>1, <2>2, <2>3, AddType, MulType
<1>3. Nat \subseteq S
  <2> HIDE DEF S
  <2> QED
    BY <1>1, <1>2, Induction
<1> QED
  BY <1>3

(* At 0 a polynomial is its constant. *)
LEMMA HornerAtZero ==
    ASSUME NEW q \in Seq(Byte), NEW c \in Byte
    PROVE  Horner(<<c>> \o q, 0) = c
BY HornerCons, HornerType, Units

LEMMA HornerConstant ==
    ASSUME NEW c \in Byte
    PROVE  /\ <<c>> \in Seq(Byte) /\ Len(<<c>>) = 1
           /\ \A x \in Byte : Horner(<<c>>, x) = c
<1>1. <<c>> \in Seq(Byte) /\ Len(<<c>>) = 1
  OBVIOUS
<1>2. <<c>> = <<c>> \o <<>> /\ <<>> \in Seq(Byte)
  OBVIOUS
<1>3. ASSUME NEW x \in Byte
      PROVE  Horner(<<c>> \o <<>>, x) = c
  <2>1. Horner(<<c>> \o <<>>, x) = gfAdd(gfMul(Horner(<<>>, x), x), c)
    BY <1>2, HornerCons
  <2> QED
    BY <2>1, HornerEmpty, AddComm, Units
<1> QED
  BY <1>1, <1>2, <1>3

(* Every polynomial is a constant and a shorter one times x. *)
LEMMA HornerSplit ==
    ASSUME NEW q \in Seq(Byte)
    PROVE  \E c \in Byte, h \in Seq(Byte) :
              /\ \A n \in Nat : Len(q) <= n + 1 => Len(h) <= n
              /\ \A x \in Byte : Horner(q, x) = gfAdd(gfMul(Horner(h, x), x), c)
<1>1. CASE Len(q) = 0
  <2>1. q = <<>> /\ <<>> \in Seq(Byte) /\ Len(<<>>) = 0
    BY <1>1
  <2>2. \A x \in Byte : Horner(<<>>, x) = gfAdd(gfMul(Horner(<<>>, x), x), 0)
    BY HornerEmpty, Units
  <2>3. \A n \in Nat : Len(q) <= n + 1 => Len(<<>>) <= n
    BY <2>1
  <2>4. 0 \in Byte
    BY Units
  <2> QED
    BY <2>1, <2>2, <2>3, <2>4, Zenon
<1>2. CASE Len(q) # 0
  <2>1. /\ q[1] \in Byte /\ Tail(q) \in Seq(Byte) /\ Len(Tail(q)) = Len(q) - 1
        /\ q = <<q[1]>> \o Tail(q)
    BY <1>2, SplitPolynomial
  <2> DEFINE c == q[1]
             h == Tail(q)
  <2>2. c \in Byte /\ h \in Seq(Byte) /\ Len(h) = Len(q) - 1 /\ q = <<c>> \o h
    BY <2>1
  <2>4. Len(q) \in Nat
    OBVIOUS
  <2> HIDE DEF c, h
  <2>3. \A x \in Byte : Horner(q, x) = gfAdd(gfMul(Horner(h, x), x), c)
    BY <2>2, HornerCons
  <2>5. \A n \in Nat : Len(q) <= n + 1 => Len(h) <= n
    BY <2>2, <2>4
  <2> QED
    BY <2>2, <2>3, <2>5, Zenon
<1> QED
  BY <1>1, <1>2
-----------------------------------------------------------------------------
(***************************************************************************)
(* Interpolation.  x is a list of n different points, Node their product   *)
(* seen from y, Weight the divisor that belongs to point i.                *)
(***************************************************************************)
Points(x, n) ==
    /\ \A i \in 1..n : x[i] \in Byte
    /\ \A i, j \in 1..n : x[i] = x[j] => i = j

Node(x, n, y) == FieldProduct([j \in 1..n |-> gfAdd(y, x[j])], n)

Weight(x, n, i) ==
    FieldProduct([j \in 1..n |-> IF j = i THEN 1 ELSE gfAdd(x[i], x[j])], n)

Fraction(q, x, n, y) ==
    [i \in 1..n |-> gfMul(gfMul(Horner(q, x[i]), gfInv(Weight(x, n, i))),
                          gfInv(gfAdd(y, x[i])))]

(* The partial fractions of P(y) / ((y + x[1]) ... (y + x[n])), for a      *)
(* polynomial of at most n coefficients.                                   *)
Interpolates(x, n) ==
    \A q \in Seq(Byte), y \in Byte :
       Len(q) <= n /\ (\A i \in 1..n : y # x[i]) =>
          FieldSum(Fraction(q, x, n, y), n) = gfMul(Horner(q, y), gfInv(Node(x, n, y)))

(* All but the last of different points are different points. *)
LEMMA PointsPrefix ==
    ASSUME NEW n \in Nat, NEW x, Points(x, n + 1)
    PROVE  /\ Points(x, n) /\ x[n + 1] \in Byte
           /\ \A i \in 1..n : x[i] \in Byte /\ x[i] # x[n + 1]
BY DEF Points

(* Nodes, weights and fractions are bytes, and not 0 at other points. *)
LEMMA NodeType ==
    ASSUME NEW n \in Nat, NEW x, \A i \in 1..n : x[i] \in Byte,
           NEW y \in Byte, \A i \in 1..n : y # x[i]
    PROVE  Node(x, n, y) \in Byte /\ Node(x, n, y) # 0
<1> DEFINE f == [j \in 1..n |-> gfAdd(y, x[j])]
<1>1. \A j \in 1..n : f[j] \in Byte /\ f[j] # 0
  BY AddType, SumNotZero
<1> HIDE DEF f
<1>2. FieldProduct(f, n) \in Byte /\ FieldProduct(f, n) # 0
  BY <1>1, ProductType
<1> QED
  BY <1>2 DEF Node, f

LEMMA WeightType ==
    ASSUME NEW n \in Nat, NEW x, Points(x, n), NEW i \in 1..n
    PROVE  Weight(x, n, i) \in Byte /\ Weight(x, n, i) # 0
<1> DEFINE f == [j \in 1..n |-> IF j = i THEN 1 ELSE gfAdd(x[i], x[j])]
<1>1. \A j \in 1..n : f[j] \in Byte /\ f[j] # 0
  BY AddType, SumNotZero, Units DEF Points
<1> HIDE DEF f
<1>2. FieldProduct(f, n) \in Byte /\ FieldProduct(f, n) # 0
  BY <1>1, ProductType
<1> QED
  BY <1>2 DEF Weight, f

LEMMA NodeStep ==
    ASSUME NEW n \in Nat, NEW x, NEW y
    PROVE  Node(x, n + 1, y) = gfMul(Node(x, n, y), gfAdd(y, x[n + 1]))
<1> DEFINE f == [j \in 1..(n + 1) |-> gfAdd(y, x[j])]
           g == [j \in 1..n |-> gfAdd(y, x[j])]
<1>1. \A j \in 1..n : f[j] = g[j]
  OBVIOUS
<1>2. f[n + 1] = gfAdd(y, x[n + 1])
  OBVIOUS
<1> HIDE DEF f, g
<1>3. FieldProduct(f, n) = FieldProduct(g, n)
  BY <1>1, ProductSame
<1>4. FieldProduct(f, n + 1) = gfMul(FieldProduct(f, n), f[n + 1])
  BY ProductStep
<1> QED
  BY <1>2, <1>3, <1>4 DEF Node, f, g

(* One point more: the weights of the old ones, and of the new one. *)
LEMMA WeightStep ==
    ASSUME NEW n \in Nat, NEW x, Points(x, n + 1)
    PROVE  /\ \A i \in 1..n :
                Weight(x, n + 1, i) = gfMul(Weight(x, n, i), gfAdd(x[i], x[n + 1]))
           /\ Weight(x, n + 1, n + 1) = Node(x, n, x[n + 1])
<1>1. ASSUME NEW i \in 1..n
      PROVE  Weight(x, n + 1, i) = gfMul(Weight(x, n, i), gfAdd(x[i], x[n + 1]))
  <2> DEFINE f == [j \in 1..(n + 1) |-> IF j = i THEN 1 ELSE gfAdd(x[i], x[j])]
             g == [j \in 1..n |-> IF j = i THEN 1 ELSE gfAdd(x[i], x[j])]
  <2>1. \A j \in 1..n : f[j] = g[j]
    OBVIOUS
  <2>2. f[n + 1] = gfAdd(x[i], x[n + 1])
    OBVIOUS
  <2> HIDE DEF f, g
  <2>3. FieldProduct(f, n) = FieldProduct(g, n)
    BY <2>1, ProductSame
  <2>4. FieldProduct(f, n + 1) = gfMul(FieldProduct(f, n), f[n + 1])
    BY ProductStep
  <2> QED
    BY <2>2, <2>3, <2>4 DEF Weight, f, g
<1>2. Weight(x, n + 1, n + 1) = Node(x, n, x[n + 1])
  <2> DEFINE f == [j \in 1..(n + 1) |-> IF j = n + 1 THEN 1 ELSE gfAdd(x[n + 1], x[j])]
             g == [j \in 1..n |-> gfAdd(x[n + 1], x[j])]
  <2>0. x[n + 1] \in Byte /\ \A j \in 1..n : x[j] \in Byte
    BY PointsPrefix
  <2>1. \A j \in 1..n : f[j] = g[j] /\ g[j] \in Byte
    BY <2>0, AddType
  <2>2. f[n + 1] = 1
    OBVIOUS
  <2> HIDE DEF f, g
  <2>3. FieldProduct(f, n) = FieldProduct(g, n) /\ FieldProduct(g, n) \in Byte
    BY <2>1, ProductSame, ProductType
  <2>4. FieldProduct(f, n + 1) = gfMul(FieldProduct(f, n), f[n + 1])
    BY ProductStep
  <2> QED
    BY <2>2, <2>3, <2>4, Units DEF Weight, Node, f, g
<1> QED
  BY <1>1, <1>2

(* The algebra of one fraction, split between the last point z and y. *)
Decomposed(x, y, z, u, t, w) ==
    /\ x \in Byte /\ y \in Byte /\ z \in Byte /\ u \in Byte /\ t \in Byte /\ w \in Byte
    /\ gfMul(u, t) = gfMul(w, gfAdd(u, t))
    /\ gfMul(x, gfMul(u, t)) = gfMul(w, gfAdd(gfMul(z, u), gfMul(y, t)))

LEMMA FractionSplits ==
    ASSUME NEW a \in Byte, NEW c \in Byte, NEW h \in Byte,
           NEW x, NEW y, NEW z, NEW u, NEW t, NEW w, Decomposed(x, y, z, u, t, w)
    PROVE  gfMul(gfMul(gfAdd(gfMul(h, x), c), gfMul(a, u)), t)
             = gfAdd(gfMul(w, gfAdd(gfMul(c, gfMul(a, u)), gfMul(z, gfMul(gfMul(h, a), u)))),
                     gfMul(w, gfAdd(gfMul(c, gfMul(a, t)), gfMul(y, gfMul(gfMul(h, a), t)))))
<1>0. /\ x \in Byte /\ y \in Byte /\ z \in Byte /\ u \in Byte /\ t \in Byte /\ w \in Byte
      /\ gfMul(u, t) = gfMul(w, gfAdd(u, t))
      /\ gfMul(x, gfMul(u, t)) = gfMul(w, gfAdd(gfMul(z, u), gfMul(y, t)))
  BY DEF Decomposed
<1> DEFINE A == gfMul(c, a)
           B == gfMul(h, a)
           v == gfMul(u, t)
           p == gfMul(z, u)
           r == gfMul(y, t)
<1>1. A \in Byte /\ B \in Byte /\ v \in Byte /\ p \in Byte /\ r \in Byte
  BY <1>0, MulType
<1>2. /\ gfMul(c, gfMul(a, u)) = gfMul(A, u)
      /\ gfMul(c, gfMul(a, t)) = gfMul(A, t)
  BY <1>0, MulAssoc
<1>3. \A d, e, f \in Byte : gfMul(d, gfMul(e, f)) = gfMul(e, gfMul(d, f))
  <2> SUFFICES ASSUME NEW d \in Byte, NEW e \in Byte, NEW f \in Byte
               PROVE  gfMul(d, gfMul(e, f)) = gfMul(e, gfMul(d, f))
    OBVIOUS
  <2>1. gfMul(d, gfMul(e, f)) = gfMul(gfMul(d, e), f)
    BY <1>0, MulAssoc
  <2>2. @ = gfMul(gfMul(e, d), f)
    BY <1>0, MulComm
  <2>3. @ = gfMul(e, gfMul(d, f))
    BY <1>0, MulAssoc
  <2> QED
    BY <1>0, <2>1, <2>2, <2>3
<1>4. gfMul(z, gfMul(B, u)) = gfMul(B, p) /\ gfMul(y, gfMul(B, t)) = gfMul(B, r)
  BY <1>0, <1>1, <1>3
<1>5. gfMul(gfMul(gfAdd(gfMul(h, x), c), gfMul(a, u)), t)
        = gfAdd(gfMul(A, v), gfMul(B, gfMul(x, v)))
  <2> DEFINE m == gfMul(a, v)
             k == gfMul(h, x)
  <2>1. m \in Byte /\ k \in Byte /\ gfAdd(k, c) \in Byte /\ gfMul(a, u) \in Byte
    BY <1>0, <1>1, MulType, AddType
  <2>2. gfMul(gfMul(a, u), t) = m
    BY <1>0, MulAssoc
  <2>3. gfMul(gfMul(gfAdd(k, c), gfMul(a, u)), t) = gfMul(gfAdd(k, c), m)
    BY <1>0, <2>1, <2>2, MulAssoc
  <2>4. @ = gfAdd(gfMul(k, m), gfMul(c, m))
    BY <1>0, <2>1, Distributive, MulComm
  <2>5. gfMul(c, m) = gfMul(A, v)
    BY <1>0, <1>1, MulAssoc
  <2>6. gfMul(k, m) = gfMul(B, gfMul(x, v))
    BY <1>0, <1>1, Regroup
  <2> QED
    BY <1>0, <1>1, <2>1, <2>3, <2>4, <2>5, <2>6, AddComm, MulType
<1> HIDE DEF A, B
<1>6. gfAdd(gfMul(w, gfAdd(gfMul(A, u), gfMul(B, p))), gfMul(w, gfAdd(gfMul(A, t), gfMul(B, r))))
        = gfAdd(gfMul(A, v), gfMul(B, gfMul(x, v)))
  <2>1. /\ gfMul(A, u) \in Byte /\ gfMul(B, p) \in Byte
        /\ gfMul(A, t) \in Byte /\ gfMul(B, r) \in Byte
    BY <1>0, <1>1, MulType
  <2>2. /\ gfAdd(gfMul(A, u), gfMul(B, p)) \in Byte
        /\ gfAdd(gfMul(A, t), gfMul(B, r)) \in Byte
        /\ gfAdd(u, t) \in Byte /\ gfAdd(p, r) \in Byte
        /\ gfMul(A, gfAdd(u, t)) \in Byte /\ gfMul(B, gfAdd(p, r)) \in Byte
    BY <1>0, <1>1, <2>1, AddType, MulType
  <2>3. gfAdd(gfMul(w, gfAdd(gfMul(A, u), gfMul(B, p))),
              gfMul(w, gfAdd(gfMul(A, t), gfMul(B, r))))
          = gfMul(w, gfAdd(gfAdd(gfMul(A, u), gfMul(B, p)), gfAdd(gfMul(A, t), gfMul(B, r))))
    BY <1>0, <2>2, Distributive
  <2>4. gfAdd(gfAdd(gfMul(A, u), gfMul(B, p)), gfAdd(gfMul(A, t), gfMul(B, r)))
          = gfAdd(gfAdd(gfMul(A, u), gfMul(A, t)), gfAdd(gfMul(B, p), gfMul(B, r)))
    BY <1>0, <2>1, Regroup
  <2>5. @ = gfAdd(gfMul(A, gfAdd(u, t)), gfMul(B, gfAdd(p, r)))
    BY <1>0, <1>1, Distributive
  <2>6. gfMul(w, gfAdd(gfMul(A, gfAdd(u, t)), gfMul(B, gfAdd(p, r))))
          = gfAdd(gfMul(w, gfMul(A, gfAdd(u, t))), gfMul(w, gfMul(B, gfAdd(p, r))))
    BY <1>0, <2>2, Distributive
  <2>7. @ = gfAdd(gfMul(A, gfMul(w, gfAdd(u, t))), gfMul(B, gfMul(w, gfAdd(p, r))))
    BY <1>0, <1>1, <1>3, <2>2
  <2> QED
    BY <1>0, <2>3, <2>4, <2>5, <2>6, <2>7
<1> QED
  BY <1>2, <1>4, <1>5, <1>6 DEF B

LEMMA InvOfOne == gfInv(1) = 1
BY InvLaw, Units

LEMMA FractionType ==
    ASSUME NEW n \in Nat, NEW x, Points(x, n), NEW q \in Seq(Byte),
           NEW y \in Byte, \A i \in 1..n : y # x[i]
    PROVE  \A i \in 1..n :
              /\ gfInv(Weight(x, n, i)) \in Byte
              /\ gfInv(gfAdd(y, x[i])) \in Byte
              /\ Fraction(q, x, n, y)[i] \in Byte
<1> SUFFICES ASSUME NEW i \in 1..n
             PROVE  /\ gfInv(Weight(x, n, i)) \in Byte
                    /\ gfInv(gfAdd(y, x[i])) \in Byte
                    /\ Fraction(q, x, n, y)[i] \in Byte
  OBVIOUS
<1>1. x[i] \in Byte
  BY DEF Points
<1>2. gfInv(Weight(x, n, i)) \in Byte
  BY WeightType, InvLaw
<1>3. gfInv(gfAdd(y, x[i])) \in Byte
  BY <1>1, AddType, SumNotZero, InvLaw
<1>4. Horner(q, x[i]) \in Byte
  BY <1>1, HornerType
<1> QED
  BY <1>2, <1>3, <1>4, MulType DEF Fraction

(* One point: what has at most one coefficient is constant. *)
LEMMA OnePoint == ASSUME NEW x, Points(x, 1) PROVE Interpolates(x, 1)
<1> SUFFICES ASSUME NEW q \in Seq(Byte), NEW y \in Byte, Len(q) <= 1, y # x[1]
             PROVE  FieldSum(Fraction(q, x, 1, y), 1) = gfMul(Horner(q, y), gfInv(Node(x, 1, y)))
  BY DEF Interpolates
<1>1. x[1] \in Byte /\ 1 \in 1..1
  BY DEF Points
<1>2. Weight(x, 1, 1) = 1
  <2> DEFINE f == [j \in 1..1 |-> IF j = 1 THEN 1 ELSE gfAdd(x[1], x[j])]
  <2>1. f[1] = 1
    OBVIOUS
  <2> HIDE DEF f
  <2>2. FieldProduct(f, 0) = 1 /\ FieldProduct(f, 0 + 1) = gfMul(FieldProduct(f, 0), f[0 + 1])
    BY ProductStep
  <2> QED
    BY <2>1, <2>2, Units DEF Weight, f
<1>3. Node(x, 1, y) = gfAdd(y, x[1])
  <2> DEFINE f == [j \in 1..1 |-> gfAdd(y, x[j])]
  <2>1. f[1] = gfAdd(y, x[1])
    OBVIOUS
  <2> HIDE DEF f
  <2>2. FieldProduct(f, 0) = 1 /\ FieldProduct(f, 0 + 1) = gfMul(FieldProduct(f, 0), f[0 + 1])
    BY ProductStep
  <2> QED
    BY <1>1, <2>1, <2>2, AddType, Units DEF Node, f
<1>4. Horner(q, x[1]) = Horner(q, y) /\ Horner(q, y) \in Byte
  <2>1. PICK c \in Byte, h \in Seq(Byte) :
           /\ Len(q) <= 0 + 1 => Len(h) <= 0
           /\ \A v \in Byte : Horner(q, v) = gfAdd(gfMul(Horner(h, v), v), c)
    BY HornerSplit
  <2>2. h = <<>>
    BY <2>1
  <2>3. \A v \in Byte : Horner(q, v) = c
    BY <2>1, <2>2, HornerEmpty, AddComm, Units
  <2> QED
    BY <1>1, <2>3
<1> DEFINE f == Fraction(q, x, 1, y)
<1>5. f[1] = gfMul(gfMul(Horner(q, y), 1), gfInv(gfAdd(y, x[1])))
  BY <1>1, <1>2, <1>4, InvOfOne DEF Fraction
<1>6. f[1] = gfMul(Horner(q, y), gfInv(gfAdd(y, x[1]))) /\ f[1] \in Byte
  BY <1>1, <1>4, <1>5, Units, AddType, SumNotZero, InvLaw, MulType
<1> HIDE DEF f
<1>7. FieldSum(f, 0) = 0 /\ FieldSum(f, 0 + 1) = gfAdd(FieldSum(f, 0), f[0 + 1])
  BY SumStep
<1> QED
  BY <1>3, <1>6, <1>7, Units DEF f

(* The step: one point more, one coefficient more. *)
LEMMA OnePointMore ==
    ASSUME NEW n \in Nat \ {0}, NEW x, Points(x, n + 1), Interpolates(x, n)
    PROVE  Interpolates(x, n + 1)
<1> SUFFICES ASSUME NEW q \in Seq(Byte), NEW y \in Byte, Len(q) <= n + 1,
                    \A i \in 1..(n + 1) : y # x[i]
             PROVE  FieldSum(Fraction(q, x, n + 1, y), n + 1)
                      = gfMul(Horner(q, y), gfInv(Node(x, n + 1, y)))
  BY DEF Interpolates
<1>1. PICK c \in Byte, h \in Seq(Byte) :
         /\ Len(h) <= n
         /\ \A v \in Byte : Horner(q, v) = gfAdd(gfMul(Horner(h, v), v), c)
  BY HornerSplit
<1> DEFINE z == x[n + 1]
           w == gfInv(gfAdd(y, z))
           iy == gfInv(Node(x, n, y))
           iz == gfInv(Node(x, n, z))
           f == Fraction(q, x, n + 1, y)
<1>2. /\ Points(x, n) /\ z \in Byte /\ y # z
      /\ \A i \in 1..n : x[i] \in Byte /\ z # x[i] /\ y # x[i] /\ x[i] # z
  BY PointsPrefix
<1>3. /\ gfAdd(y, z) \in Byte /\ gfAdd(y, z) # 0 /\ w \in Byte
      /\ Node(x, n, y) \in Byte /\ Node(x, n, y) # 0 /\ iy \in Byte
      /\ Node(x, n, z) \in Byte /\ Node(x, n, z) # 0 /\ iz \in Byte
  BY <1>2, AddType, SumNotZero, NodeType, InvLaw
(* What the points up to n contribute to the value at v, for v = y and v = z. *)
<1>4. \A v \in {y, z} :
         /\ v \in Byte
         /\ FieldSum(Fraction(<<1>>, x, n, v), n) = gfInv(Node(x, n, v))
         /\ FieldSum(Fraction(h, x, n, v), n) = gfMul(Horner(h, v), gfInv(Node(x, n, v)))
         /\ \A i \in 1..n : /\ Fraction(<<1>>, x, n, v)[i] \in Byte
                            /\ Fraction(h, x, n, v)[i] \in Byte
  <2> SUFFICES ASSUME NEW v \in {y, z}
               PROVE  /\ v \in Byte
                      /\ FieldSum(Fraction(<<1>>, x, n, v), n) = gfInv(Node(x, n, v))
                      /\ FieldSum(Fraction(h, x, n, v), n)
                           = gfMul(Horner(h, v), gfInv(Node(x, n, v)))
                      /\ \A i \in 1..n : /\ Fraction(<<1>>, x, n, v)[i] \in Byte
                                         /\ Fraction(h, x, n, v)[i] \in Byte
    OBVIOUS
  <2>1. v \in Byte /\ gfInv(Node(x, n, v)) \in Byte /\ \A i \in 1..n : v # x[i]
    BY <1>2, <1>3
  <2>2. <<1>> \in Seq(Byte) /\ Len(<<1>>) <= n /\ Horner(<<1>>, v) = 1
    BY <2>1, HornerConstant, Units
  <2>3. FieldSum(Fraction(<<1>>, x, n, v), n) = gfInv(Node(x, n, v))
    <3>1. FieldSum(Fraction(<<1>>, x, n, v), n)
            = gfMul(Horner(<<1>>, v), gfInv(Node(x, n, v)))
      BY <2>1, <2>2 DEF Interpolates
    <3> QED
      BY <2>1, <2>2, <3>1, Units
  <2>4. FieldSum(Fraction(h, x, n, v), n) = gfMul(Horner(h, v), gfInv(Node(x, n, v)))
    BY <1>1, <2>1 DEF Interpolates
  <2>5. \A i \in 1..n : /\ Fraction(<<1>>, x, n, v)[i] \in Byte
                        /\ Fraction(h, x, n, v)[i] \in Byte
    BY <1>2, <2>1, <2>2, FractionType
  <2> QED
    BY <2>1, <2>3, <2>4, <2>5
<1> DEFINE part(v) == [i \in 1..n |-> gfAdd(gfMul(c, Fraction(<<1>>, x, n, v)[i]),
                                            gfMul(v, Fraction(h, x, n, v)[i]))]
<1>5. \A v \in {y, z} :
         /\ FieldSum(part(v), n) = gfMul(Horner(q, v), gfInv(Node(x, n, v)))
         /\ \A i \in 1..n : part(v)[i] \in Byte
  <2> SUFFICES ASSUME NEW v \in {y, z}
               PROVE  /\ FieldSum(part(v), n) = gfMul(Horner(q, v), gfInv(Node(x, n, v)))
                      /\ \A i \in 1..n : part(v)[i] \in Byte
    OBVIOUS
  <2> DEFINE F == Fraction(<<1>>, x, n, v)
             G == Fraction(h, x, n, v)
             e == gfInv(Node(x, n, v))
             hv == Horner(h, v)
  <2>1. /\ v \in Byte /\ FieldSum(F, n) = e /\ FieldSum(G, n) = gfMul(hv, e)
        /\ \A i \in 1..n : F[i] \in Byte /\ G[i] \in Byte
    BY <1>4
  <2>2. \A i \in 1..n : part(v)[i] = gfAdd(gfMul(c, F[i]), gfMul(v, G[i]))
    OBVIOUS
  <2>3. e \in Byte /\ hv \in Byte /\ Horner(q, v) = gfAdd(gfMul(hv, v), c)
    BY <1>1, <1>3, <2>1, HornerType
  <2> HIDE DEF F, G, e, hv, part
  <2>4. FieldSum(part(v), n) = gfAdd(gfMul(c, e), gfMul(v, gfMul(hv, e)))
    <3> DEFINE H == part(v)
    <3>1. Combination(H, c, F, v, G, n)
      BY <2>1, <2>2 DEF Combination
    <3> HIDE DEF H
    <3>2. FieldSum(H, n) = gfAdd(gfMul(c, FieldSum(F, n)), gfMul(v, FieldSum(G, n)))
      BY <3>1, SumLinear
    <3> QED
      BY <2>1, <3>2 DEF H
  <2>5. gfMul(v, gfMul(hv, e)) = gfMul(e, gfMul(hv, v))
    BY <2>1, <2>3, MulAssoc, MulComm, MulType
  <2>6. gfAdd(gfMul(c, e), gfMul(e, gfMul(hv, v))) = gfMul(e, gfAdd(gfMul(hv, v), c))
    BY <2>1, <2>3, Distributive, MulComm, AddComm, MulType
  <2>7. \A i \in 1..n : part(v)[i] \in Byte
    BY <2>1, <2>2, AddType, MulType
  <2> QED
    BY <2>1, <2>3, <2>4, <2>5, <2>6, <2>7, MulComm, AddType, MulType DEF e
<1>6. \A i \in 1..n : f[i] = gfAdd(gfMul(w, part(z)[i]), gfMul(w, part(y)[i]))
  <2> SUFFICES ASSUME NEW i \in 1..n
               PROVE  f[i] = gfAdd(gfMul(w, part(z)[i]), gfMul(w, part(y)[i]))
    OBVIOUS
  <2> DEFINE p == x[i]
             a == gfInv(Weight(x, n, i))
             u == gfInv(gfAdd(p, z))
             t == gfInv(gfAdd(y, p))
             hi == Horner(h, p)
  <2>1. /\ p \in Byte /\ y # p /\ p # z
        /\ gfAdd(p, z) \in Byte /\ gfAdd(p, z) # 0 /\ gfAdd(p, z) = gfAdd(z, p)
    BY <1>2, AddType, AddComm, SumNotZero
  <2>2. /\ a \in Byte /\ u \in Byte /\ t \in Byte /\ hi \in Byte
        /\ Horner(q, p) = gfAdd(gfMul(hi, p), c)
        /\ Horner(<<1>>, p) = 1
    <3>1. a \in Byte
      BY <1>2, WeightType, InvLaw
    <3>2. u \in Byte
      BY <2>1, InvLaw
    <3>3. t \in Byte
      BY <2>1, AddType, SumNotZero, InvLaw
    <3>4. hi \in Byte
      BY <2>1, HornerType
    <3>5. Horner(<<1>>, p) = 1
      BY <2>1, HornerConstant, Units
    <3> QED
      BY <1>1, <2>1, <3>1, <3>2, <3>3, <3>4, <3>5
  <2>3. gfInv(Weight(x, n + 1, i)) = gfMul(a, u)
    BY <1>2, <2>1, WeightStep, WeightType, InvOfProduct
  <2>4. f[i] = gfMul(gfMul(gfAdd(gfMul(hi, p), c), gfMul(a, u)), t)
    BY <2>2, <2>3 DEF Fraction
  <2>5. /\ Fraction(<<1>>, x, n, z)[i] = gfMul(a, u)
        /\ Fraction(<<1>>, x, n, y)[i] = gfMul(a, t)
        /\ Fraction(h, x, n, z)[i] = gfMul(gfMul(hi, a), u)
        /\ Fraction(h, x, n, y)[i] = gfMul(gfMul(hi, a), t)
    BY <2>1, <2>2, Units DEF Fraction
  <2>6. /\ gfMul(u, t) = gfMul(w, gfAdd(u, t))
        /\ gfMul(p, gfMul(u, t)) = gfMul(w, gfAdd(gfMul(z, u), gfMul(y, t)))
    BY <1>2, <2>1, PartialFractions
  <2>7. /\ part(z)[i] = gfAdd(gfMul(c, gfMul(a, u)), gfMul(z, gfMul(gfMul(hi, a), u)))
        /\ part(y)[i] = gfAdd(gfMul(c, gfMul(a, t)), gfMul(y, gfMul(gfMul(hi, a), t)))
    BY <2>5
  <2>8. z \in Byte /\ w \in Byte
    BY <1>2, <1>3
  <2> HIDE DEF f, part, p, a, u, t, hi, w, z
  <2>9. gfMul(gfMul(gfAdd(gfMul(hi, p), c), gfMul(a, u)), t)
          = gfAdd(gfMul(w, gfAdd(gfMul(c, gfMul(a, u)), gfMul(z, gfMul(gfMul(hi, a), u)))),
                  gfMul(w, gfAdd(gfMul(c, gfMul(a, t)), gfMul(y, gfMul(gfMul(hi, a), t)))))
    <3>1. Decomposed(p, y, z, u, t, w)
      BY <2>1, <2>2, <2>6, <2>8 DEF Decomposed
    <3> QED
      BY <2>2, <3>1, FractionSplits
  <2> QED
    BY <2>4, <2>7, <2>9
<1>7. f[n + 1] = gfMul(gfMul(Horner(q, z), iz), w)
  BY WeightStep DEF Fraction
<1> DEFINE qy == gfMul(Horner(q, y), iy)
           qz == gfMul(Horner(q, z), iz)
<1>8. qy \in Byte /\ qz \in Byte
  BY <1>2, <1>3, HornerType, MulType
<1>9. FieldSum(f, n) = gfAdd(gfMul(w, qz), gfMul(w, qy))
  <2> HIDE DEF f, part, w
  <2>1. FieldSum(f, n) = gfAdd(gfMul(w, FieldSum(part(z), n)), gfMul(w, FieldSum(part(y), n)))
    <3> DEFINE F == part(z)
               G == part(y)
    <3>2. w \in Byte
      BY <1>3
    <3>1. Combination(f, w, F, w, G, n)
      BY <1>5, <1>6, <3>2 DEF Combination
    <3> HIDE DEF F, G
    <3>3. FieldSum(f, n) = gfAdd(gfMul(w, FieldSum(F, n)), gfMul(w, FieldSum(G, n)))
      BY <3>1, SumLinear
    <3> QED
      BY <3>3 DEF F, G
  <2> QED
    BY <2>1, <1>5
<1>10. FieldSum(f, n + 1) = gfAdd(FieldSum(f, n), f[n + 1])
  BY SumStep
<1>11. FieldSum(f, n + 1) = gfMul(w, qy)
  <2> HIDE DEF f, w, qy, qz
  <2>1. FieldSum(f, n + 1) = gfAdd(gfAdd(gfMul(w, qy), gfMul(w, qz)), gfMul(w, qz))
    BY <1>3, <1>7, <1>8, <1>9, <1>10, MulType, MulComm, AddComm DEF qz
  <2> QED
    BY <1>3, <1>8, <2>1, MulType, AddCancels
<1>12. gfInv(Node(x, n + 1, y)) = gfMul(iy, w)
  BY <1>3, NodeStep, InvOfProduct
<1>13. gfMul(w, qy) = gfMul(Horner(q, y), gfMul(iy, w))
  BY <1>3, <1>8, HornerType, MulComm, MulAssoc
<1> QED
  BY <1>11, <1>12, <1>13

(* The partial fractions for any number of points. *)
LEMMA Interpolation ==
    ASSUME NEW n \in Nat \ {0}, NEW x, Points(x, n)
    PROVE  Interpolates(x, n)
<1> DEFINE S == {k \in Nat : k + 1 <= n => Interpolates(x, k + 1)}
<1>0. \A k \in 1..n : Points(x, k)
  BY DEF Points
<1>1. 0 \in S
  BY <1>0, OnePoint
<1>2. ASSUME NEW k \in Nat, k \in S
      PROVE  k + 1 \in S
  <2> SUFFICES ASSUME (k + 1) + 1 <= n PROVE Interpolates(x, (k + 1) + 1)
    OBVIOUS
  <2>1. k + 1 \in Nat \ {0} /\ Points(x, (k + 1) + 1) /\ Interpolates(x, k + 1)
    BY <1>0, <1>2
  <2> QED
    BY <2>1, OnePointMore
<1>3. Nat \subseteq S
  <2> HIDE DEF S
  <2> QED
    BY <1>1, <1>2, Induction
<1>4. n - 1 \in S
  BY <1>3
<1> QED
  BY <1>4
-----------------------------------------------------------------------------
(***************************************************************************)
(* What the Lagrange coefficients at 0 give.                               *)
(***************************************************************************)
LEMMA ProductWithout ==
    ASSUME NEW n \in Nat, NEW f, NEW i \in 1..n, \A j \in 1..n : f[j] \in Byte
    PROVE  gfMul(FieldProduct([j \in 1..n |-> IF j = i THEN 1 ELSE f[j]], n), f[i])
             = FieldProduct(f, n)
<1> DEFINE g == [j \in 1..n |-> IF j = i THEN 1 ELSE f[j]]
<1>1. \A j \in 1..n : g[j] \in Byte /\ (j # i => g[j] = f[j])
  BY Units
<1>2. g[i] = 1
  OBVIOUS
<1> HIDE DEF g
<1> DEFINE S == {k \in Nat : k <= n =>
                   IF k < i THEN FieldProduct(g, k) = FieldProduct(f, k)
                   ELSE gfMul(FieldProduct(g, k), f[i]) = FieldProduct(f, k)}
<1>3. 0 \in S
  BY ProductStep
<1>4. ASSUME NEW k \in Nat, k \in S
      PROVE  k + 1 \in S
  <2> SUFFICES ASSUME k + 1 <= n PROVE k + 1 \in S
    OBVIOUS
  <2>1. /\ FieldProduct(g, k + 1) = gfMul(FieldProduct(g, k), g[k + 1])
        /\ FieldProduct(f, k + 1) = gfMul(FieldProduct(f, k), f[k + 1])
    BY ProductStep
  <2>2. FieldProduct(g, k) \in Byte /\ FieldProduct(f, k) \in Byte
    BY <1>1, ProductType
  <2>3. /\ f[k + 1] \in Byte /\ f[i] \in Byte
        /\ k + 1 # i => g[k + 1] = f[k + 1]
    BY <1>1
  <2>4. CASE k + 1 < i
    BY <1>4, <2>1, <2>3, <2>4
  <2>5. CASE k + 1 = i
    BY <1>2, <1>4, <2>1, <2>2, <2>5, Units
  <2>6. CASE k + 1 > i
    <3>1. gfMul(FieldProduct(g, k), f[i]) = FieldProduct(f, k)
      BY <1>4, <2>6
    <3>2. gfMul(gfMul(FieldProduct(g, k), f[k + 1]), f[i])
            = gfMul(gfMul(FieldProduct(g, k), f[i]), f[k + 1])
      BY <2>2, <2>3, MulAssoc, MulComm
    <3> QED
      BY <2>1, <2>3, <2>6, <3>1, <3>2
  <2> QED
    BY <2>4, <2>5, <2>6
<1>5. Nat \subseteq S
  <2> HIDE DEF S
  <2> QED
    BY <1>3, <1>4, Induction
<1>6. n \in S
  BY <1>5
<1> QED
  BY <1>6 DEF g

Coefficient(x, n, i) ==
    gfMul(FieldProduct([j \in 1..n |-> IF j = i THEN 1 ELSE x[j]], n), gfInv(Weight(x, n, i)))

(* The value at 0 of a polynomial of at most n coefficients, from its      *)
(* values at n different points other than 0.                              *)
LEMMA ValueAtZero ==
    ASSUME NEW n \in Nat \ {0}, NEW x, Points(x, n), \A i \in 1..n : x[i] # 0,
           NEW q \in Seq(Byte), Len(q) <= n
    PROVE  FieldSum([i \in 1..n |-> gfMul(Horner(q, x[i]), Coefficient(x, n, i))], n)
             = Horner(q, 0)
<1> DEFINE F == Fraction(q, x, n, 0)
           h == [i \in 1..n |-> gfMul(Horner(q, x[i]), Coefficient(x, n, i))]
           N == Node(x, n, 0)
<1>1. 0 \in Byte /\ \A i \in 1..n : x[i] \in Byte /\ 0 # x[i]
  BY Units DEF Points
<1>2. FieldSum(F, n) = gfMul(Horner(q, 0), gfInv(N))
  BY <1>1, Interpolation DEF Interpolates
<1>3. N \in Byte /\ N # 0 /\ gfInv(N) \in Byte /\ Horner(q, 0) \in Byte
  BY <1>1, NodeType, InvLaw, HornerType
<1>4. N = FieldProduct(x, n)
  <2> DEFINE f == [j \in 1..n |-> gfAdd(0, x[j])]
  <2>1. \A j \in 1..n : f[j] = x[j]
    BY <1>1, Units
  <2> HIDE DEF f
  <2>2. FieldProduct(f, n) = FieldProduct(x, n)
    BY <2>1, ProductSame
  <2> QED
    BY <2>2 DEF Node, f
<1>5. \A i \in 1..n : h[i] = gfMul(N, F[i]) /\ F[i] \in Byte
  <2> SUFFICES ASSUME NEW i \in 1..n
               PROVE  h[i] = gfMul(N, F[i]) /\ F[i] \in Byte
    OBVIOUS
  <2> DEFINE f == [j \in 1..n |-> IF j = i THEN 1 ELSE x[j]]
             o == FieldProduct(f, n)
             a == gfInv(Weight(x, n, i))
             u == gfInv(x[i])
             p == Horner(q, x[i])
  <2>1. /\ a \in Byte /\ F[i] \in Byte
    BY <1>1, FractionType
  <2>2. u \in Byte /\ gfMul(x[i], u) = 1 /\ p \in Byte
    BY <1>1, InvLaw, HornerType
  <2>3. o \in Byte
    <3>1. \A j \in 1..n : f[j] \in Byte
      BY <1>1, Units
    <3> HIDE DEF f
    <3> QED
      BY <3>1, ProductType
  <2>4. gfMul(o, x[i]) = N
    BY <1>1, <1>4, ProductWithout
  <2>5. h[i] = gfMul(p, gfMul(o, a))
    BY DEF Coefficient
  <2>6. F[i] = gfMul(gfMul(p, a), u)
    BY <1>1, Units DEF Fraction
  <2> HIDE DEF f, o, a, u, p, N, h, F
  <2>7. o = gfMul(N, u)
    BY <1>1, <2>2, <2>3, <2>4, MulAssoc, Units
  <2>8. gfMul(p, gfMul(gfMul(N, u), a)) = gfMul(gfMul(p, gfMul(N, u)), a)
    BY <1>3, <2>1, <2>2, MulAssoc, MulType
  <2>9. gfMul(gfMul(p, gfMul(N, u)), a) = gfMul(gfMul(N, gfMul(p, u)), a)
    BY <1>3, <2>1, <2>2, MulAssoc, MulComm
  <2>10. gfMul(gfMul(N, gfMul(p, u)), a) = gfMul(N, gfMul(gfMul(p, u), a))
    BY <1>3, <2>1, <2>2, MulAssoc, MulType
  <2>11. gfMul(gfMul(p, u), a) = gfMul(gfMul(p, a), u)
    BY <2>1, <2>2, MulAssoc, MulComm
  <2> QED
    BY <2>1, <2>5, <2>6, <2>7, <2>8, <2>9, <2>10, <2>11
<1>6. FieldSum(h, n) = gfMul(N, gfMul(Horner(q, 0), gfInv(N)))
  <2> HIDE DEF h, F, N
  <2>1. \A i \in 1..n : gfMul(0, F[i]) = 0 /\ gfMul(N, F[i]) \in Byte
    BY <1>3, <1>5, MulType, Units
  <2>2. Combination(h, N, F, 0, F, n)
    BY <1>1, <1>3, <1>5, <2>1, Units DEF Combination
  <2>3. FieldSum(h, n) = gfAdd(gfMul(N, FieldSum(F, n)), gfMul(0, FieldSum(F, n)))
    BY <2>2, SumLinear
  <2>4. FieldSum(F, n) \in Byte
    BY <1>5, SumType
  <2> QED
    BY <1>2, <1>3, <2>3, <2>4, MulType, Units
<1>7. gfMul(N, gfMul(Horner(q, 0), gfInv(N))) = gfMul(Horner(q, 0), gfMul(N, gfInv(N)))
  <2> HIDE DEF N
  <2> QED
    BY <1>3, MulAssoc, MulComm
<1> QED
  BY <1>3, <1>6, <1>7, InvLaw, Units
-----------------------------------------------------------------------------
(***************************************************************************)
(* A polynomial through any points.                                        *)
(***************************************************************************)

(* b + (x + a) * q(x) is a polynomial, with one coefficient more. *)
TimesFactor(p, q, a, b) ==
    /\ p \in Seq(Byte) /\ Len(p) = Len(q) + 1
    /\ \A x \in Byte : Horner(p, x) = gfAdd(b, gfMul(gfAdd(x, a), Horner(q, x)))

LEMMA FactorAlgebra ==
    \A a, b, c, x, t \in Byte :
       gfAdd(gfMul(gfAdd(c, gfMul(gfAdd(x, a), t)), x), gfAdd(b, gfMul(a, c)))
         = gfAdd(b, gfMul(gfAdd(x, a), gfAdd(gfMul(t, x), c)))
<1> SUFFICES ASSUME NEW a \in Byte, NEW b \in Byte, NEW c \in Byte, NEW x \in Byte, NEW t \in Byte
             PROVE  gfAdd(gfMul(gfAdd(c, gfMul(gfAdd(x, a), t)), x), gfAdd(b, gfMul(a, c)))
                      = gfAdd(b, gfMul(gfAdd(x, a), gfAdd(gfMul(t, x), c)))
  OBVIOUS
<1> DEFINE s == gfAdd(x, a)
           m == gfMul(s, t)
           A == gfMul(x, m)
           B == gfMul(x, c)
           C == gfMul(a, c)
<1>1. /\ s \in Byte /\ m \in Byte /\ A \in Byte /\ B \in Byte /\ C \in Byte
      /\ gfMul(t, x) \in Byte
  BY AddType, MulType
<1>2. gfMul(gfAdd(c, m), x) = gfAdd(A, B)
  <2>1. gfAdd(c, m) \in Byte
    BY <1>1, AddType
  <2>2. gfMul(gfAdd(c, m), x) = gfMul(x, gfAdd(m, c))
    BY <1>1, <2>1, MulComm, AddComm
  <2> QED
    BY <1>1, <2>2, Distributive
<1>3. gfMul(s, gfAdd(gfMul(t, x), c)) = gfAdd(gfMul(s, gfMul(t, x)), gfMul(s, c))
  BY <1>1, Distributive
<1>4. gfMul(s, gfMul(t, x)) = A
  BY <1>1, MulAssoc, MulComm
<1>5. gfMul(s, c) = gfAdd(B, C)
  BY <1>1, Distributive, MulComm
<1> HIDE DEF A, B, C, m, s
<1>6. gfAdd(gfAdd(A, B), gfAdd(b, C)) = gfAdd(gfAdd(b, gfAdd(A, B)), C)
  BY <1>1, AddAssoc, AddComm, AddType
<1>7. gfAdd(gfAdd(b, gfAdd(A, B)), C) = gfAdd(b, gfAdd(A, gfAdd(B, C)))
  BY <1>1, AddAssoc, AddType
<1> QED
  BY <1>2, <1>3, <1>4, <1>5, <1>6, <1>7 DEF C, m, s

(* The polynomial b + (x + a) * q(x), coefficient by coefficient. *)
LEMMA FactorExists ==
    ASSUME NEW a \in Byte
    PROVE  \A q \in Seq(Byte), b \in Byte : \E p : TimesFactor(p, q, a, b)
<1> DEFINE S == {n \in Nat : \A q \in Seq(Byte), b \in Byte :
                   Len(q) = n => \E p : TimesFactor(p, q, a, b)}
<1>1. 0 \in S
  <2> SUFFICES ASSUME NEW q \in Seq(Byte), NEW b \in Byte, Len(q) = 0
               PROVE  \E p : TimesFactor(p, q, a, b)
    OBVIOUS
  <2>1. q = <<>>
    OBVIOUS
  <2>2. /\ <<b>> \in Seq(Byte) /\ Len(<<b>>) = Len(q) + 1
        /\ \A x \in Byte : Horner(<<b>>, x) = b
    BY HornerConstant
  <2>3. \A x \in Byte : gfAdd(b, gfMul(gfAdd(x, a), Horner(q, x))) = b
    BY <2>1, HornerEmpty, AddType, Units
  <2>4. TimesFactor(<<b>>, q, a, b)
    BY <2>2, <2>3 DEF TimesFactor
  <2> QED
    BY <2>4
<1>2. ASSUME NEW n \in Nat, n \in S
      PROVE  n + 1 \in S
  <2> SUFFICES ASSUME NEW q \in Seq(Byte), NEW b \in Byte, Len(q) = n + 1
               PROVE  \E p : TimesFactor(p, q, a, b)
    OBVIOUS
  <2> DEFINE c == q[1]
             t == Tail(q)
             d == gfAdd(b, gfMul(a, c))
  <2>1. /\ c \in Byte /\ t \in Seq(Byte) /\ Len(t) = n
        /\ q = <<c>> \o t
    BY SplitPolynomial
  <2>2. d \in Byte
    BY <2>1, AddType, MulType
  <2> HIDE DEF c, t
  <2>3. PICK r : TimesFactor(r, t, a, c)
    BY <1>2, <2>1
  <2>4. /\ r \in Seq(Byte) /\ Len(r) = n + 1
        /\ \A x \in Byte : Horner(r, x) = gfAdd(c, gfMul(gfAdd(x, a), Horner(t, x)))
    BY <2>1, <2>3 DEF TimesFactor
  <2> DEFINE p == <<d>> \o r
  <2>5. p \in Seq(Byte) /\ Len(p) = Len(q) + 1
    <3> HIDE DEF d
    <3> QED
      BY <2>2, <2>4
  <2>6. ASSUME NEW x \in Byte
        PROVE  Horner(p, x) = gfAdd(b, gfMul(gfAdd(x, a), Horner(q, x)))
    <3>1. Horner(p, x) = gfAdd(gfMul(Horner(r, x), x), d)
      BY <2>2, <2>4, HornerCons
    <3>2. Horner(q, x) = gfAdd(gfMul(Horner(t, x), x), c)
      BY <2>1, HornerCons
    <3>3. Horner(t, x) \in Byte
      BY <2>1, HornerType
    <3> QED
      BY <2>1, <2>4, <3>1, <3>2, <3>3, FactorAlgebra
  <2>7. TimesFactor(p, q, a, b)
    BY <2>5, <2>6 DEF TimesFactor
  <2> QED
    BY <2>7
<1>3. Nat \subseteq S
  <2> HIDE DEF S
  <2> QED
    BY <1>1, <1>2, Induction
<1> QED
  BY <1>3

(* Through n different points there is a polynomial of any n + d           *)
(* coefficients.                                                           *)
Through(q, x, v, n) == q \in Seq(Byte) /\ \A i \in 1..n : Horner(q, x[i]) = v[i]

(* By the polynomial through all points but the last. *)
LEMMA PolynomialThrough ==
    ASSUME NEW d \in Nat
    PROVE  \A n \in Nat : \A x, v :
              Points(x, n) /\ (\A i \in 1..n : v[i] \in Byte)
                => \E q : Through(q, x, v, n) /\ Len(q) = n + d
<1> DEFINE S == {n \in Nat : \A x, v :
                   Points(x, n) /\ (\A i \in 1..n : v[i] \in Byte)
                     => \E q : Through(q, x, v, n) /\ Len(q) = n + d}
<1>1. 0 \in S
  <2>1. ASSUME NEW x, NEW v
        PROVE  \E q : Through(q, x, v, 0) /\ Len(q) = 0 + d
    <3> DEFINE q == [i \in 1..d |-> 0]
    <3>1. q \in Seq(Byte) /\ Len(q) = d
      BY Units
    <3> HIDE DEF q
    <3>2. Through(q, x, v, 0) /\ Len(q) = 0 + d
      BY <3>1 DEF Through
    <3> QED
      BY <3>2
  <2> QED
    BY <2>1
<1>2. ASSUME NEW n \in Nat, n \in S
      PROVE  n + 1 \in S
  <2> SUFFICES ASSUME NEW x, NEW v, Points(x, n + 1), \A i \in 1..(n + 1) : v[i] \in Byte
               PROVE  \E q : Through(q, x, v, n + 1) /\ Len(q) = (n + 1) + d
    OBVIOUS
  <2> DEFINE a == x[n + 1]
             b == v[n + 1]
             e(i) == gfInv(gfAdd(x[i], a))
             w == [i \in 1..n |-> gfMul(e(i), gfAdd(v[i], b))]
  <2>1. /\ Points(x, n) /\ a \in Byte /\ b \in Byte
        /\ \A i \in 1..n : x[i] \in Byte /\ x[i] # a /\ v[i] \in Byte
    BY PointsPrefix
  <2>2. \A i \in 1..n : /\ gfAdd(x[i], a) \in Byte /\ gfAdd(v[i], b) \in Byte
                        /\ e(i) \in Byte /\ gfMul(gfAdd(x[i], a), e(i)) = 1
    BY <2>1, AddType, SumNotZero, InvLaw
  <2>3. \A i \in 1..n : w[i] = gfMul(e(i), gfAdd(v[i], b)) /\ w[i] \in Byte
    BY <2>2, MulType
  <2> HIDE DEF a, b, e, w
  <2>4. PICK q : Through(q, x, w, n) /\ Len(q) = n + d
    BY <1>2, <2>1, <2>3
  <2>5. q \in Seq(Byte) /\ \A i \in 1..n : Horner(q, x[i]) = w[i]
    BY <2>4 DEF Through
  <2>6. PICK p : TimesFactor(p, q, a, b)
    BY <2>1, <2>5, FactorExists
  <2>7. /\ p \in Seq(Byte) /\ Len(p) = (n + 1) + d
        /\ \A y \in Byte : Horner(p, y) = gfAdd(b, gfMul(gfAdd(y, a), Horner(q, y)))
    BY <2>4, <2>6 DEF TimesFactor
  <2>8. Horner(p, a) = b
    <3>1. Horner(q, a) \in Byte /\ gfAdd(a, a) = 0
      BY <2>1, <2>5, HornerType, Units
    <3> QED
      BY <2>1, <2>7, <3>1, Units
  <2>9. ASSUME NEW i \in 1..n
        PROVE  Horner(p, x[i]) = v[i]
    <3> DEFINE r == gfAdd(x[i], a)
               z == gfAdd(v[i], b)
    <3>1. Horner(p, x[i]) = gfAdd(b, gfMul(r, gfMul(e(i), z)))
      BY <2>1, <2>3, <2>5, <2>7
    <3>2. r \in Byte /\ z \in Byte /\ e(i) \in Byte /\ gfMul(r, e(i)) = 1
      BY <2>2
    <3> HIDE DEF r
    <3>3. gfMul(r, gfMul(e(i), z)) = z
      <4> HIDE DEF z
      <4> QED
        BY <3>2, MulAssoc, Units
    <3>4. gfAdd(b, z) = v[i]
      BY <2>1, <3>2, AddCancels, AddComm
    <3> QED
      BY <3>1, <3>3, <3>4
  <2>10. Through(p, x, v, n + 1)
    BY <2>7, <2>8, <2>9 DEF Through, a, b
  <2> QED
    BY <2>7, <2>10
<1>3. Nat \subseteq S
  <2> HIDE DEF S
  <2> QED
    BY <1>1, <1>2, Induction
<1> QED
  BY <1>3
-----------------------------------------------------------------------------
(***************************************************************************)
(* As many shares of one split as its threshold restore its secret.        *)
(***************************************************************************)

(* What the invariants of the deal say of one card. *)
LEMMA CardFacts ==
    ASSUME DealInv, NEW s \in 1..Len(made), NEW P, Behind(P, s),
           NEW c \in cards, c.split = s
    PROVE  /\ c.share.index \in Byte /\ c.share.index # 0
           /\ DOMAIN c.share.data = 1..Len(made[s].secret)
           /\ LiesOn(c.share, P)
<1>1. Shaped(c.share, made[s].secret) /\ LiesOn(c.share, P)
  BY DEF DealInv, CardsInv, Behind
<1>2. \A i \in 1..255 : i \in Byte /\ i # 0
  BY DEF Byte
<1> QED
  BY <1>1, <1>2 DEF Shaped

(* A split made has a secret of bytes and a threshold. *)
LEMMA SplitFacts ==
    ASSUME DealInv, NEW s \in DOMAIN made
    PROVE  /\ s \in 1..Len(made)
           /\ made[s].secret \in Seq(Byte) /\ made[s].threshold \in Nat \ {0}
<1> DEFINE All == [secret : Secrets, threshold : Nat \ {0}]
<1>1. made \in Seq(All)
  BY DEF DealInv, FormInv
<1> HIDE DEF All
<1>2. made[s] \in All /\ s \in 1..Len(made)
  BY <1>1
<1> QED
  BY <1>2, ToolsAssumption DEF All

(* Behind a byte is a polynomial that has it as the value at 0. *)
LEMMA PolynomialFacts ==
    ASSUME NEW P, NEW split, Polynomials(P, split), split.threshold \in Nat \ {0},
           split.secret \in Seq(Byte), NEW k \in 1..Len(split.secret)
    PROVE  /\ k \in DOMAIN P /\ P[k] \in Seq(Byte) /\ Len(P[k]) = split.threshold
           /\ Horner(P[k], 0) = split.secret[k]
<1> DEFINE q == P[k]
           c == split.secret[k]
<1>1. k \in DOMAIN P /\ q \in Seq(Byte) /\ Len(q) = split.threshold /\ q[1] = c
  BY DEF Polynomials
<1>2. c \in Byte
  OBVIOUS
<1> HIDE DEF q, c
<1>3. Tail(q) \in Seq(Byte) /\ q = <<c>> \o Tail(q)
  BY <1>1, SplitPolynomial
<1>4. Horner(q, 0) = c
  BY <1>2, <1>3, HornerAtZero
<1> QED
  BY <1>1, <1>4 DEF q, c

(* Shares of one split, as many as its threshold, give its secret. *)
LEMMA SharesRestore ==
    ASSUME NEW split, split.threshold \in Nat \ {0}, split.secret \in Seq(Byte),
           NEW P, Polynomials(P, split),
           NEW n \in Nat, n >= split.threshold,
           NEW shares, DOMAIN shares = 1..n, Len(shares) = n, Combinable(shares),
           \A i \in 1..n : /\ shares[i].index \in Byte
                           /\ DOMAIN shares[i].data = 1..Len(split.secret)
                           /\ LiesOn(shares[i], P)
    PROVE  reconstructSecret(shares) = split.secret
<1> DEFINE x == [i \in 1..n |-> shares[i].index]
           weight == [i \in DOMAIN shares |-> Lagrange(shares, i)]
           byte(k) == FieldSum([i \in DOMAIN shares |-> gfMul(shares[i].data[k], weight[i])],
                               Len(shares))
<1>1. n \in Nat \ {0}
  OBVIOUS
<1>2. reconstructSecret(shares) = [k \in DOMAIN shares[1].data |-> byte(k)]
  BY DEF reconstructSecret
<1>3. \A i \in 1..n : x[i] = shares[i].index
  OBVIOUS
<1>4. Points(x, n) /\ \A i \in 1..n : x[i] # 0 /\ x[i] \in Byte
  BY <1>3 DEF Points, Combinable
<1>5. ASSUME NEW i \in 1..n
      PROVE  weight[i] = Coefficient(x, n, i)
  <2> DEFINE num == [j \in DOMAIN shares |-> IF j = i THEN 1 ELSE shares[j].index]
             den == [j \in DOMAIN shares |-> IF j = i THEN 1
                                            ELSE gfAdd(shares[i].index, shares[j].index)]
             xnum == [j \in 1..n |-> IF j = i THEN 1 ELSE x[j]]
             xden == [j \in 1..n |-> IF j = i THEN 1 ELSE gfAdd(x[i], x[j])]
  <2>1. weight[i] = gfMul(FieldProduct(num, n), gfInv(FieldProduct(den, n)))
    BY DEF Lagrange
  <2>2. num = xnum /\ den = xden
    OBVIOUS
  <2>3. Coefficient(x, n, i) = gfMul(FieldProduct(xnum, n), gfInv(FieldProduct(xden, n)))
    BY DEF Coefficient, Weight
  <2> HIDE DEF num, den, xnum, xden, weight, x
  <2> QED
    BY <2>1, <2>2, <2>3
<1>6. ASSUME NEW k \in 1..Len(split.secret)
      PROVE  byte(k) = split.secret[k]
  <2> DEFINE q == P[k]
  <2>1. /\ k \in DOMAIN P /\ q \in Seq(Byte) /\ Len(q) = split.threshold
        /\ Horner(q, 0) = split.secret[k]
    BY PolynomialFacts
  <2>2. \A i \in 1..n : shares[i].data[k] = Horner(q, x[i])
    BY <1>3, <2>1 DEF LiesOn
  <2> DEFINE f == [i \in DOMAIN shares |-> gfMul(shares[i].data[k], weight[i])]
             g == [i \in 1..n |-> gfMul(Horner(q, x[i]), Coefficient(x, n, i))]
  <2> HIDE DEF q, x, weight
  <2>3. \A i \in 1..n : f[i] = g[i]
    BY <1>5, <2>2
  <2>4. byte(k) = FieldSum(f, n)
    OBVIOUS
  <2>5. FieldSum(g, n) = Horner(q, 0)
    BY <1>1, <1>4, <2>1, ValueAtZero
  <2> HIDE DEF f, g, byte
  <2>6. FieldSum(f, n) = FieldSum(g, n)
    BY <2>3, SumSame
  <2> QED
    BY <2>1, <2>4, <2>5, <2>6
<1>7. DOMAIN shares[1].data = 1..Len(split.secret)
  BY <1>1
<1> HIDE DEF byte
<1>8. reconstructSecret(shares) = [k \in 1..Len(split.secret) |-> split.secret[k]]
  BY <1>2, <1>6, <1>7
<1> QED
  BY <1>8

(***************************************************************************)
(* The two functions by themselves: whatever a split that is not refused   *)
(* gives out, any m of its shares, or more, in any order reconstruct the   *)
(* secret (shamir.ts:66-67, 117-120).                                      *)
(***************************************************************************)
THEOREM SplitReconstructs ==
    ASSUME NEW secret \in Seq(Byte), NEW m, NEW n,
           NEW rng \in [DOMAIN secret -> [1..(m - 1) -> Byte]],
           splitSecret(secret, m, n, rng) # ShamirError,
           NEW k \in Nat, k >= m,
           NEW chosen \in [1..k -> 1..n], \A i, j \in 1..k : chosen[i] = chosen[j] => i = j
    PROVE  reconstructSecret([i \in 1..k |-> splitSecret(secret, m, n, rng)[chosen[i]]]) = secret
<1> DEFINE shares == splitSecret(secret, m, n, rng)
           hand == [i \in 1..k |-> shares[chosen[i]]]
           split == [secret |-> secret, threshold |-> m]
<1>1. /\ n \in 1..255 /\ m \in 1..n /\ DOMAIN shares = 1..n
      /\ \A i \in 1..n : shares[i].index = i /\ Shaped(shares[i], secret)
  BY SplitShape
<1>2. PICK P : Polynomials(P, split) /\ \A i \in DOMAIN shares : LiesOn(shares[i], P)
  BY SplitLiesOn
<1> HIDE DEF shares
<1>3. \A i \in 1..k : hand[i] = shares[chosen[i]] /\ chosen[i] \in 1..n
  OBVIOUS
<1>4. DOMAIN hand = 1..k /\ hand = [i \in 1..k |-> hand[i]]
  OBVIOUS
<1> HIDE DEF hand
<1>5. Len(hand) = k
  BY <1>4, LenIsDomain
<1>6. \A i \in 1..k : /\ hand[i].index = chosen[i] /\ hand[i].index \in Byte /\ hand[i].index # 0
                      /\ DOMAIN hand[i].data = 1..Len(secret)
                      /\ Len(hand[i].data) = Len(secret)
                      /\ LiesOn(hand[i], P)
  <2>1. \A i \in 1..255 : i \in Byte /\ i # 0
    BY DEF Byte
  <2>2. \A i \in 1..n : i \in 1..255
    BY <1>1
  <2> SUFFICES ASSUME NEW i \in 1..k
               PROVE  /\ hand[i].index = chosen[i] /\ hand[i].index \in Byte
                      /\ hand[i].index # 0
                      /\ DOMAIN hand[i].data = 1..Len(secret)
                      /\ Len(hand[i].data) = Len(secret)
                      /\ LiesOn(hand[i], P)
    OBVIOUS
  <2> DEFINE c == chosen[i]
  <2>3. c \in 1..n /\ hand[i] = shares[c]
    BY <1>3
  <2> HIDE DEF c
  <2>4. hand[i].index = c /\ Shaped(hand[i], secret) /\ LiesOn(hand[i], P)
    BY <1>1, <1>2, <2>3
  <2> QED
    BY <2>1, <2>2, <2>3, <2>4 DEF Shaped, c
<1>7. Combinable(hand)
  <2>1. hand # <<>>
    <3>1. 1 \in 1..k
      BY <1>1
    <3> QED
      BY <1>4, <3>1
  <2>2. \A i, j \in 1..k : i # j => hand[i].index # hand[j].index
    BY <1>6
  <2> QED
    BY <1>4, <1>6, <2>1, <2>2 DEF Combinable
<1>8. /\ split.threshold \in Nat \ {0} /\ split.threshold = m /\ k >= split.threshold
      /\ split.secret = secret
  BY <1>1
<1>9. Polynomials(P, split)
  BY <1>2
<1> HIDE DEF split
<1>10. \A i \in 1..k : /\ hand[i].index \in Byte
                       /\ DOMAIN hand[i].data = 1..Len(split.secret)
                       /\ LiesOn(hand[i], P)
  BY <1>6, <1>8
<1>11. split.secret \in Seq(Byte)
  BY <1>8
<1>12. reconstructSecret(hand) = split.secret
  BY <1>4, <1>5, <1>7, <1>8, <1>9, <1>10, <1>11, SharesRestore
<1> QED
  BY <1>8, <1>12 DEF hand, shares
-----------------------------------------------------------------------------
(***************************************************************************)
(* The recovery page.                                                      *)
(***************************************************************************)

(* What is pasted into the recovery page are cards, and what it shows is   *)
(* what they combine to, as many as were asked for.                        *)
RecoveryInv ==
    /\ {"phase", "count", "inputs", "secret"} \subseteq DOMAIN recovery
    /\ recovery.inputs \in Seq(cards)
    /\ recovery.phase = "result" =>
          /\ Len(recovery.inputs) = recovery.count
          /\ recovery.secret = reconstructSecret(SharesOf(recovery.inputs))
          /\ recovery.secret # ShamirError

ToolsInv == DealInv /\ RecoveryInv

LEMMA InitTools == Init => ToolsInv
<1> SUFFICES ASSUME Init PROVE RecoveryInv
  BY InitDeal DEF ToolsInv
<1>1. recovery = Blank(2)
  BY DEF Init
<1> QED
  BY <1>1 DEF Blank, RecoveryInv

(* A card in circulation stays there. *)
LEMMA CardsStay == [Next]_vars => cards \subseteq cards'
<1> SUFFICES ASSUME Next PROVE cards \subseteq cards'
  BY DEF vars
<1>1. CASE handleGenerate BY <1>1 DEF handleGenerate
<1>2. CASE downloadShare \/ downloadAllShares BY <1>2 DEF downloadShare, downloadAllShares
<1>3. CASE SetNumShares \/ SetThreshold \/ Continue \/ BackToConfigure \/ TypeSecret \/ reset
             \/ startVerify \/ handleVerify \/ BackToShares \/ TimerFires
  BY <1>3 DEF SetNumShares, SetThreshold, Continue, BackToConfigure, TypeSecret, reset,
              startVerify, handleVerify, BackToShares, TimerFires, Quiet
<1>4. CASE handleShareCountChange \/ EnterShares \/ handleShareInput
             \/ handleReconstruct \/ handleReset
  BY <1>4 DEF handleShareCountChange, EnterShares, handleShareInput,
              handleReconstruct, handleReset, RecoveryStep, Quiet
<1> QED
  BY <1>1, <1>2, <1>3, <1>4 DEF Next

(* The steps of the page itself. *)
LEMMA RecoveryStepInv ==
    ASSUME RecoveryInv,
           handleShareCountChange \/ EnterShares \/ handleShareInput
             \/ handleReconstruct \/ handleReset
    PROVE  RecoveryInv'
<1> USE DEF RecoveryStep, Quiet
<1>1. CASE handleShareCountChange \/ handleReset
  <2>1. PICK n : recovery' = Blank(n) /\ cards' = cards
    BY <1>1 DEF handleShareCountChange, handleReset
  <2> QED
    BY <2>1 DEF RecoveryInv, Blank
<1>2. CASE EnterShares
  BY <1>2 DEF EnterShares, RecoveryInv
<1>3. CASE handleShareInput
  <2>1. PICK c \in cards :
           /\ recovery.phase = "enter-shares"
           /\ recovery' = [recovery EXCEPT !.inputs = Append(recovery.inputs, c)]
           /\ cards' = cards
    BY <1>3 DEF handleShareInput
  <2>2. Append(recovery.inputs, c) \in Seq(cards)
    BY DEF RecoveryInv
  <2> QED
    BY <2>1, <2>2 DEF RecoveryInv
<1>4. CASE handleReconstruct
  <2> DEFINE secret == reconstructSecret(SharesOf(recovery.inputs))
  <2>1. /\ Len(recovery.inputs) = recovery.count /\ secret # ShamirError /\ cards' = cards
        /\ recovery' = [recovery EXCEPT !.phase = "result", !.secret = secret]
    BY <1>4 DEF handleReconstruct
  <2> HIDE DEF secret
  <2>2. /\ recovery'.phase = "result" /\ recovery'.inputs = recovery.inputs
        /\ recovery'.count = recovery.count /\ recovery'.secret = secret
        /\ DOMAIN recovery' = DOMAIN recovery
    BY <2>1 DEF RecoveryInv
  <2> QED
    BY <2>1, <2>2 DEF RecoveryInv, secret
<1> QED
  BY <1>1, <1>2, <1>3, <1>4

LEMMA ToolsStep == ToolsInv /\ [Next]_vars => ToolsInv'
<1> SUFFICES ASSUME ToolsInv, [Next]_vars PROVE RecoveryInv'
  BY DealStep DEF ToolsInv
<1>1. CASE UNCHANGED recovery
  <2>1. recovery.inputs \in Seq(cards')
    <3>1. recovery.inputs \in Seq(cards) /\ cards \subseteq cards'
      BY CardsStay DEF ToolsInv, RecoveryInv
    <3> QED
      BY <3>1
  <2> QED
    BY <1>1, <2>1 DEF ToolsInv, RecoveryInv
<1>2. CASE UNCHANGED vars
  BY <1>1, <1>2 DEF vars
<1>3. CASE Next
  <2>1. CASE handleShareCountChange \/ EnterShares \/ handleShareInput
               \/ handleReconstruct \/ handleReset
    BY <2>1, RecoveryStepInv DEF ToolsInv
  <2>2. CASE SetNumShares \/ SetThreshold \/ Continue \/ BackToConfigure \/ TypeSecret \/ reset
               \/ handleGenerate \/ downloadShare \/ downloadAllShares
               \/ startVerify \/ handleVerify \/ BackToShares \/ TimerFires
    BY <1>1, <2>2 DEF SetNumShares, SetThreshold, Continue, BackToConfigure, TypeSecret, reset,
              handleGenerate, downloadShare, downloadAllShares,
              startVerify, handleVerify, BackToShares, TimerFires, ToolStep
  <2> QED
    BY <1>3, <2>1, <2>2 DEF Next
<1> QED
  BY <1>2, <1>3

(* So a result for enough cards of one split is the secret. *)
LEMMA ToolsRestore == ToolsInv => AnyThresholdRestores
<1> SUFFICES ASSUME ToolsInv, recovery.phase = "result", NEW s \in DOMAIN made,
                    FromOne(recovery.inputs, s), recovery.count >= made[s].threshold
             PROVE  recovery.secret = made[s].secret
  BY DEF AnyThresholdRestores
<1> DEFINE hand == recovery.inputs
           n == Len(hand)
           shares == SharesOf(hand)
           split == made[s]
<1>1. /\ hand \in Seq(cards) /\ n \in Nat /\ n >= split.threshold /\ DOMAIN hand = 1..n
      /\ recovery.secret = reconstructSecret(shares)
      /\ reconstructSecret(shares) # ShamirError
  BY DEF ToolsInv, RecoveryInv
<1>2. DealInv /\ s \in 1..Len(made) /\ split.secret \in Seq(Byte) /\ split.threshold \in Nat \ {0}
  BY SplitFacts DEF ToolsInv
<1>3. PICK P : Behind(P, s)
  BY <1>2 DEF DealInv, PolynomialInv
<1>4. \A i \in 1..n : shares[i] = hand[i].share /\ hand[i] \in cards /\ hand[i].split = s
  BY <1>1 DEF SharesOf, FromOne
<1>5. DOMAIN shares = 1..n
  BY <1>1 DEF SharesOf
<1>6. Len(shares) = n
  <2>1. shares = [i \in 1..n |-> shares[i]]
    BY <1>1 DEF SharesOf
  <2> HIDE DEF shares, n
  <2> QED
    BY <1>1, <2>1, LenIsDomain
<1>7. Combinable(shares)
  BY <1>1 DEF reconstructSecret
<1> HIDE DEF shares, hand, n
<1>8. \A i \in 1..n : /\ shares[i].index \in Byte
                      /\ DOMAIN shares[i].data = 1..Len(split.secret)
                      /\ LiesOn(shares[i], P)
  <2> SUFFICES ASSUME NEW i \in 1..n
               PROVE  /\ shares[i].index \in Byte
                      /\ DOMAIN shares[i].data = 1..Len(split.secret)
                      /\ LiesOn(shares[i], P)
    OBVIOUS
  <2>1. hand[i] \in cards /\ hand[i].split = s /\ shares[i] = hand[i].share
    BY <1>4
  <2> QED
    BY <1>2, <1>3, <2>1, CardFacts
<1>9. Polynomials(P, split)
  BY <1>3 DEF Behind
<1> HIDE DEF split
<1>10. reconstructSecret(shares) = split.secret
  BY <1>1, <1>2, <1>5, <1>6, <1>7, <1>8, <1>9, SharesRestore
<1> QED
  BY <1>1, <1>10 DEF split

(***************************************************************************)
(* In every reachable state, what the recovery page shows for cards of one *)
(* split, as many as its threshold, is the secret that was typed.          *)
(***************************************************************************)
THEOREM RestoreCorrect == Spec => []AnyThresholdRestores
<1>1. Init => ToolsInv
  BY InitTools
<1>2. ToolsInv /\ [Next]_vars => ToolsInv'
  BY ToolsStep
<1>3. ToolsInv => AnyThresholdRestores
  BY ToolsRestore
<1>4. QED
  BY <1>1, <1>2, <1>3, PTL DEF Spec
-----------------------------------------------------------------------------
(***************************************************************************)
(* Secrecy.                                                                *)
(***************************************************************************)

(* Coefficients that explain what is seen of a hand, with this constant.    *)
Fits(coeffs, byte, view, value) ==
    \A share \in view : Horner(<<byte>> \o coeffs, share.index) = value[share]

(* Shares with different indices, fewer than m of them, agree with every   *)
(* constant coefficient.                                                   *)
Scarce(view, value, m) ==
    /\ m \in Nat \ {0} /\ IsFiniteSet(view) /\ Cardinality(view) < m
    /\ \A share \in view : /\ share.index \in Byte /\ share.index # 0
                           /\ value[share] \in Byte
    /\ \A r, t \in view : r.index = t.index => r = t

LEMMA AnyConstant ==
    ASSUME NEW m, NEW view, NEW value, Scarce(view, value, m), NEW byte \in Byte
    PROVE  \E coeffs \in [1..(m - 1) -> Byte] : Fits(coeffs, byte, view, value)
<1>0. /\ m \in Nat \ {0} /\ IsFiniteSet(view) /\ Cardinality(view) < m
      /\ \A share \in view : /\ share.index \in Byte /\ share.index # 0
                             /\ value[share] \in Byte
      /\ \A r, t \in view : r.index = t.index => r = t
  BY DEF Scarce
<1> DEFINE n == Cardinality(view)
<1>1. n \in Nat /\ n + 1 <= m /\ ExistsBijection(1..n, view)
  BY <1>0, FS_CardinalityType
<1>2. PICK b \in Bijection(1..n, view) : TRUE
  BY <1>1 DEF ExistsBijection
<1>3. /\ b \in [1..n -> view]
      /\ \A i, j \in 1..n : b[i] = b[j] => i = j
      /\ \A share \in view : \E i \in 1..n : b[i] = share
  BY <1>2 DEF Bijection, Injection, Surjection, IsInjective
<1> HIDE DEF n
<1> DEFINE x == [i \in 1..(n + 1) |-> IF i = n + 1 THEN 0 ELSE b[i].index]
           v == [i \in 1..(n + 1) |-> IF i = n + 1 THEN byte ELSE value[b[i]]]
<1>4. /\ x[n + 1] = 0 /\ v[n + 1] = byte
      /\ \A i \in 1..n : x[i] = b[i].index /\ v[i] = value[b[i]]
  BY <1>1
<1>5. \A i \in 1..n : /\ b[i] \in view /\ b[i].index \in Byte /\ b[i].index # 0
                      /\ value[b[i]] \in Byte
  BY <1>0, <1>3
<1> HIDE DEF x, v
<1>6. /\ \A i \in 1..(n + 1) : x[i] \in Byte /\ v[i] \in Byte
      /\ \A i, j \in 1..(n + 1) : x[i] = x[j] => i = j
  <2>1. \A i \in 1..(n + 1) : i = n + 1 \/ i \in 1..n
    BY <1>1
  <2>2. \A i, j \in 1..n : x[i] = x[j] => i = j
    BY <1>0, <1>3, <1>4, <1>5
  <2>3. \A i \in 1..n : x[i] \in Byte /\ v[i] \in Byte /\ x[i] # 0
    BY <1>4, <1>5
  <2> QED
    BY <1>4, <2>1, <2>2, <2>3, Units
<1>7. Points(x, n + 1)
  BY <1>6 DEF Points
<1> DEFINE d == m - (n + 1)
<1>8. d \in Nat /\ n + 1 \in Nat /\ (n + 1) + d = m
  BY <1>0, <1>1
<1> HIDE DEF d
<1>9. PICK q : Through(q, x, v, n + 1) /\ Len(q) = m
  BY <1>6, <1>7, <1>8, PolynomialThrough
<1>10. q \in Seq(Byte) /\ \A i \in 1..(n + 1) : Horner(q, x[i]) = v[i]
  BY <1>9 DEF Through
<1>11. /\ q[1] \in Byte /\ Tail(q) \in Seq(Byte) /\ Len(Tail(q)) = m - 1
       /\ q = <<q[1]>> \o Tail(q)
  BY <1>0, <1>9, <1>10, SplitPolynomial
<1>12. q[1] = byte
  <2>1. Horner(q, 0) = byte
    BY <1>1, <1>4, <1>10
  <2> QED
    BY <1>11, <2>1, HornerAtZero
<1>13. Tail(q) \in [1..(m - 1) -> Byte]
  <2> DEFINE t == Tail(q)
             l == m - 1
  <2>1. t \in Seq(Byte) /\ Len(t) = l /\ l \in Nat
    BY <1>0, <1>11
  <2> HIDE DEF t, l
  <2>2. t \in [1..l -> Byte]
    BY <2>1
  <2> QED
    BY <2>2 DEF t, l
<1>14. \A share \in view : Horner(q, share.index) = value[share]
  <2> SUFFICES ASSUME NEW share \in view PROVE Horner(q, share.index) = value[share]
    OBVIOUS
  <2>1. PICK i \in 1..n : b[i] = share
    BY <1>3
  <2> QED
    BY <1>1, <1>4, <1>10, <2>1
<1>15. q = <<byte>> \o Tail(q)
  BY <1>11, <1>12
<1> QED
  BY <1>13, <1>14, <1>15 DEF Fits

(* What a hand sees of byte k. *)
Seen(view, k) == [share \in view |-> share.data[k]]

(* A hand of fewer cards of a split than its threshold is of this kind. *)
LEMMA HandIsScarce ==
    ASSUME DealInv, NEW s \in DOMAIN made,
           NEW view \in SUBSET {c.share : c \in {d \in cards : d.split = s}},
           Cardinality(view) < made[s].threshold,
           NEW k \in DOMAIN made[s].secret
    PROVE  Scarce(view, Seen(view, k), made[s].threshold)
<1>1. /\ s \in 1..Len(made) /\ made[s].threshold \in Nat \ {0}
      /\ made[s].secret \in Seq(Byte)
  BY SplitFacts
<1>2. PICK P : Behind(P, s)
  BY <1>1 DEF DealInv, PolynomialInv
<1>3. k \in DOMAIN P /\ P[k] \in Seq(Byte)
  <2>1. Polynomials(P, made[s]) /\ k \in 1..Len(made[s].secret)
    BY <1>1, <1>2 DEF Behind
  <2> QED
    BY <2>1 DEF Polynomials
<1>4. ASSUME NEW share \in view
      PROVE  \E c \in cards : c.split = s /\ c.share = share
  OBVIOUS
<1>5. \A share \in view : /\ share.index \in Byte /\ share.index # 0
                          /\ Seen(view, k)[share] \in Byte
  <2> SUFFICES ASSUME NEW share \in view
               PROVE  /\ share.index \in Byte /\ share.index # 0
                      /\ share.data[k] \in Byte
    BY DEF Seen
  <2>1. PICK c \in cards : c.split = s /\ c.share = share
    BY <1>4
  <2>2. share.index \in Byte /\ share.index # 0 /\ LiesOn(share, P)
    BY <1>1, <1>2, <2>1, CardFacts
  <2> QED
    BY <1>3, <2>2, HornerType DEF LiesOn
<1>6. \A r, t \in view : r.index = t.index => r = t
  <2> SUFFICES ASSUME NEW r \in view, NEW t \in view, r.index = t.index PROVE r = t
    OBVIOUS
  <2>1. PICK c \in cards, d \in cards :
           c.split = s /\ c.share = r /\ d.split = s /\ d.share = t
    BY <1>4
  <2>2. c = d
    BY <2>1 DEF DealInv, IndexTellsCards
  <2> QED
    BY <2>1, <2>2
<1>7. IsFiniteSet(view)
  <2> DEFINE f == [share \in view |-> share.index]
  <2>1. f \in [view -> 0..255] /\ \A r, t \in view : f[r] = f[t] => r = t
    BY <1>5, <1>6 DEF Byte
  <2> HIDE DEF f
  <2>2. f \in Injection(view, 0..255)
    BY <2>1 DEF Injection, IsInjective
  <2>3. 0 \in Int /\ 255 \in Int
    OBVIOUS
  <2>4. IsFiniteSet(0..255)
    BY <2>3, FS_Interval
  <2> QED
    BY <2>2, <2>4, FS_Injection
<1> QED
  BY <1>1, <1>5, <1>6, <1>7 DEF Scarce

LEMMA DealTellsNothing == DealInv => FewerTellNothing
<1> SUFFICES ASSUME DealInv, NEW s \in DOMAIN made,
                    NEW view \in SUBSET {c.share : c \in {d \in cards : d.split = s}},
                    Cardinality(view) < made[s].threshold,
                    NEW k \in DOMAIN made[s].secret, NEW byte \in Candidates
             PROVE  \E coeffs \in [1..(made[s].threshold - 1) -> Byte] :
                       \A share \in view :
                          Horner(<<byte>> \o coeffs, share.index) = share.data[k]
  BY DEF FewerTellNothing
<1>1. byte \in Byte
  BY ToolsAssumption
<1>2. Scarce(view, Seen(view, k), made[s].threshold)
  BY HandIsScarce
<1>3. PICK coeffs \in [1..(made[s].threshold - 1) -> Byte] :
         Fits(coeffs, byte, view, Seen(view, k))
  BY <1>1, <1>2, AnyConstant
<1> QED
  BY <1>3 DEF Fits, Seen

(***************************************************************************)
(* In every reachable state fewer cards of a split than its threshold are  *)
(* compatible with every value of every byte of its secret.                *)
(***************************************************************************)
THEOREM SecrecyCorrect == Spec => []FewerTellNothing
<1>1. Init => DealInv
  BY InitDeal
<1>2. DealInv /\ [Next]_vars => DealInv'
  BY DealStep
<1>3. DealInv => FewerTellNothing
  BY DealTellsNothing
<1>4. QED
  BY <1>1, <1>2, <1>3, PTL DEF Spec

(* A polynomial has no other with as many coefficients and the same values *)
(* at as many points.                                                      *)
Agree(p, q, x, n) ==
    /\ p \in Seq(Byte) /\ q \in Seq(Byte) /\ Len(p) = n /\ Len(q) = n
    /\ \A i \in 1..n : Horner(p, x[i]) = Horner(q, x[i])

(* The value at 0 and the values at other points determine each other, by  *)
(* the partial fractions.                                                  *)
LEMMA AgreeAtZero ==
    ASSUME NEW n \in Nat \ {0}, NEW x, Points(x, n), \A i \in 1..n : x[i] # 0,
           NEW p, NEW q, Agree(p, q, x, n)
    PROVE  Horner(p, 0) = Horner(q, 0)
<1> DEFINE f == [i \in 1..n |-> gfMul(Horner(p, x[i]), Coefficient(x, n, i))]
           g == [i \in 1..n |-> gfMul(Horner(q, x[i]), Coefficient(x, n, i))]
<1>1. \A i \in 1..n : f[i] = g[i]
  BY DEF Agree
<1>2. /\ p \in Seq(Byte) /\ q \in Seq(Byte) /\ Len(p) <= n /\ Len(q) <= n
  BY DEF Agree
<1>3. FieldSum(f, n) = Horner(p, 0) /\ FieldSum(g, n) = Horner(q, 0)
  BY <1>2, ValueAtZero
<1> HIDE DEF f, g
<1>4. FieldSum(f, n) = FieldSum(g, n)
  BY <1>1, SumSame
<1> QED
  BY <1>3, <1>4

(* Equal values of c + a * x at a point other than 0 come from one a. *)
LEMMA FactorCancels ==
    \A a, b, c, x \in Byte :
       x # 0 /\ gfAdd(gfMul(a, x), c) = gfAdd(gfMul(b, x), c) => a = b
<1> SUFFICES ASSUME NEW a \in Byte, NEW b \in Byte, NEW c \in Byte, NEW x \in Byte,
                    x # 0, gfAdd(gfMul(a, x), c) = gfAdd(gfMul(b, x), c)
             PROVE  a = b
  OBVIOUS
<1>1. gfMul(a, x) = gfMul(b, x)
  BY AddCancels, MulType
<1>2. gfMul(gfMul(a, x), gfInv(x)) = a /\ gfMul(gfMul(b, x), gfInv(x)) = b
  BY InvLaw, MulAssoc, Units
<1> QED
  BY <1>1, <1>2

(* By the values at 0, and what remains after the constant. *)
LEMMA PolynomialUnique ==
    \A n \in Nat : \A x, p, q :
       Points(x, n) /\ (\A i \in 1..n : x[i] # 0) /\ Agree(p, q, x, n) => p = q
<1> DEFINE S == {n \in Nat : \A x, p, q :
                   Points(x, n) /\ (\A i \in 1..n : x[i] # 0) /\ Agree(p, q, x, n) => p = q}
<1>1. 0 \in S
  BY DEF Agree
<1>2. ASSUME NEW n \in Nat, n \in S
      PROVE  n + 1 \in S
  <2> SUFFICES ASSUME NEW x, NEW p, NEW q, Points(x, n + 1), \A i \in 1..(n + 1) : x[i] # 0,
                      Agree(p, q, x, n + 1)
               PROVE  p = q
    OBVIOUS
  <2>1. Horner(p, 0) = Horner(q, 0)
    BY AgreeAtZero
  <2> DEFINE c == p[1]
             d == q[1]
             t == Tail(p)
             u == Tail(q)
  <2>2. /\ c \in Byte /\ t \in Seq(Byte) /\ Len(t) = n /\ p = <<c>> \o t
        /\ d \in Byte /\ u \in Seq(Byte) /\ Len(u) = n /\ q = <<d>> \o u
    <3>1. /\ p \in Seq(Byte) /\ q \in Seq(Byte) /\ Len(p) = n + 1 /\ Len(q) = n + 1
      BY DEF Agree
    <3> QED
      BY <3>1, SplitPolynomial
  <2> HIDE DEF c, d, t, u
  <2>3. c = d
    BY <2>1, <2>2, HornerAtZero
  <2>4. Points(x, n) /\ \A i \in 1..n : x[i] \in Byte /\ x[i] # 0
    BY PointsPrefix
  <2>5. ASSUME NEW i \in 1..n
        PROVE  Horner(t, x[i]) = Horner(u, x[i])
    <3>1. Horner(p, x[i]) = Horner(q, x[i])
      BY DEF Agree
    <3>2. /\ Horner(p, x[i]) = gfAdd(gfMul(Horner(t, x[i]), x[i]), c)
          /\ Horner(q, x[i]) = gfAdd(gfMul(Horner(u, x[i]), x[i]), c)
      BY <2>2, <2>3, HornerCons
    <3>3. Horner(t, x[i]) \in Byte /\ Horner(u, x[i]) \in Byte
      BY <2>2, <2>4, HornerType
    <3> QED
      BY <2>2, <2>4, <3>1, <3>2, <3>3, FactorCancels
  <2>6. Agree(t, u, x, n)
    BY <2>2, <2>5 DEF Agree
  <2>7. t = u
    BY <1>2, <2>4, <2>6
  <2> QED
    BY <2>2, <2>3, <2>7
<1>3. Nat \subseteq S
  <2> HIDE DEF S
  <2> QED
    BY <1>1, <1>2, Induction
<1> QED
  BY <1>3

(* One share fewer than the threshold: for every constant the remaining    *)
(* coefficients are determined.                                            *)
LEMMA OneChoice ==
    ASSUME NEW m, NEW view, NEW value, Scarce(view, value, m), Cardinality(view) = m - 1,
           NEW byte \in Byte,
           NEW c \in [1..(m - 1) -> Byte], Fits(c, byte, view, value),
           NEW d \in [1..(m - 1) -> Byte], Fits(d, byte, view, value)
    PROVE  c = d
<1> DEFINE n == m - 1
<1>1. /\ n \in Nat /\ ExistsBijection(1..n, view)
      /\ \A share \in view : share.index \in Byte /\ share.index # 0
      /\ \A r, t \in view : r.index = t.index => r = t
  BY FS_CardinalityType DEF Scarce
<1>2. c \in [1..n -> Byte] /\ d \in [1..n -> Byte]
  OBVIOUS
<1> HIDE DEF n
<1>3. c \in Seq(Byte) /\ d \in Seq(Byte) /\ Len(c) = n /\ Len(d) = n
  BY <1>1, <1>2
<1>4. PICK b \in Bijection(1..n, view) : TRUE
  BY <1>1 DEF ExistsBijection
<1>5. /\ b \in [1..n -> view]
      /\ \A i, j \in 1..n : b[i] = b[j] => i = j
  BY <1>4 DEF Bijection, Injection, IsInjective
<1> DEFINE x == [i \in 1..n |-> b[i].index]
<1>6. \A i \in 1..n : x[i] = b[i].index /\ b[i] \in view
  BY <1>5
<1> HIDE DEF x
<1>7. Points(x, n) /\ \A i \in 1..n : x[i] \in Byte /\ x[i] # 0
  <2>1. \A i \in 1..n : x[i] \in Byte /\ x[i] # 0
    BY <1>1, <1>6
  <2>2. \A i, j \in 1..n : x[i] = x[j] => i = j
    BY <1>1, <1>5, <1>6
  <2> QED
    BY <2>1, <2>2 DEF Points
<1>8. ASSUME NEW i \in 1..n
      PROVE  Horner(c, x[i]) = Horner(d, x[i])
  <2>1. Horner(<<byte>> \o c, x[i]) = Horner(<<byte>> \o d, x[i])
    BY <1>6 DEF Fits
  <2>2. /\ Horner(<<byte>> \o c, x[i]) = gfAdd(gfMul(Horner(c, x[i]), x[i]), byte)
        /\ Horner(<<byte>> \o d, x[i]) = gfAdd(gfMul(Horner(d, x[i]), x[i]), byte)
    BY <1>3, HornerCons
  <2>3. Horner(c, x[i]) \in Byte /\ Horner(d, x[i]) \in Byte
    BY <1>3, <1>7, HornerType
  <2> QED
    BY <1>7, <2>1, <2>2, <2>3, FactorCancels
<1>9. Agree(c, d, x, n)
  BY <1>3, <1>8 DEF Agree
<1> QED
  BY <1>1, <1>7, <1>9, PolynomialUnique

(***************************************************************************)
(* Whoever holds one card of a split fewer than its threshold: to every    *)
(* byte the secret may have at a place belongs one choice of the random    *)
(* coefficients, and no more.  As the code draws these bytes at random     *)
(* (shamir.ts:82-93, split.rs:33), every byte is as likely as every other. *)
(***************************************************************************)
EveryByteAlike ==
    \A s \in DOMAIN made :
      \A view \in SUBSET {c.share : c \in {d \in cards : d.split = s}} :
        Cardinality(view) = made[s].threshold - 1 =>
          \A k \in DOMAIN made[s].secret, byte \in Byte :
            \E coeffs \in [1..(made[s].threshold - 1) -> Byte] :
              /\ Fits(coeffs, byte, view, Seen(view, k))
              /\ \A other \in [1..(made[s].threshold - 1) -> Byte] :
                    Fits(other, byte, view, Seen(view, k)) => other = coeffs

LEMMA DealAlike == DealInv => EveryByteAlike
<1> SUFFICES ASSUME DealInv, NEW s \in DOMAIN made,
                    NEW view \in SUBSET {c.share : c \in {d \in cards : d.split = s}},
                    Cardinality(view) = made[s].threshold - 1,
                    NEW k \in DOMAIN made[s].secret, NEW byte \in Byte
             PROVE  \E coeffs \in [1..(made[s].threshold - 1) -> Byte] :
                       /\ Fits(coeffs, byte, view, Seen(view, k))
                       /\ \A other \in [1..(made[s].threshold - 1) -> Byte] :
                             Fits(other, byte, view, Seen(view, k)) => other = coeffs
  BY DEF EveryByteAlike
<1> DEFINE m == made[s].threshold
           value == Seen(view, k)
<1>1. m \in Nat \ {0} /\ Cardinality(view) < m
  BY SplitFacts
<1>2. Scarce(view, value, m)
  BY <1>1, HandIsScarce
<1>3. Cardinality(view) = m - 1
  OBVIOUS
<1> HIDE DEF m, value
<1>4. PICK coeffs \in [1..(m - 1) -> Byte] : Fits(coeffs, byte, view, value)
  BY <1>2, AnyConstant
<1>5. \A other \in [1..(m - 1) -> Byte] : Fits(other, byte, view, value) => other = coeffs
  BY <1>2, <1>3, <1>4, OneChoice
<1> QED
  BY <1>4, <1>5 DEF m, value

(***************************************************************************)
(* In every reachable state one card fewer than the threshold leaves every *)
(* byte of a secret equally likely (splitSecret, shamir.ts:70-113).        *)
(***************************************************************************)
THEOREM AlikeCorrect == Spec => []EveryByteAlike
<1>1. Init => DealInv
  BY InitDeal
<1>2. DealInv /\ [Next]_vars => DealInv'
  BY DealStep
<1>3. DealInv => EveryByteAlike
  BY DealAlike
<1>4. QED
  BY <1>1, <1>2, <1>3, PTL DEF Spec
=============================================================================
