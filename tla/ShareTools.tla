------------------------------ MODULE ShareTools ------------------------------
(***************************************************************************)
(* The two pages that work with shares of any secret: ShamirDistributor,   *)
(* which splits what is typed into it and lets the split be tried out, and *)
(* the recovery page, which combines the shares pasted into it.  The       *)
(* shares are computed with the arithmetic of Shamir.  A card is a share   *)
(* that was downloaded or copied, with the split it stems from.            *)
(***************************************************************************)
EXTENDS Shamir

CONSTANTS
    Secrets,        \* what is typed, as bytes
    Coefficients,   \* the values the random bytes take
    Numbers,        \* what is typed into the number fields
    Candidates,     \* the bytes somebody takes the secret's bytes for
    MaxCount,       \* bound on the shares combined; 10 in the code
    MaxSplits       \* bound on the number of splits

ASSUME ToolsAssumption ==
    /\ MaxCount \in Nat \ {0}
    /\ Secrets \subseteq Seq(Byte) \ {<<>>}
    /\ Coefficients \subseteq Byte
    /\ Candidates \subseteq Byte

VARIABLES
    tool,       \* the distributor's state
    made,       \* history: the splits made
    cards,      \* the cards in circulation
    recovery    \* the recovery page's state

vars == <<tool, made, cards, recovery>>

Nothing == <<>>

(* A secret of two bytes. *)
MCSecrets == {<<83, 95>>}

Tool(numShares, threshold) ==
    [ phase |-> "configure", numShares |-> numShares, threshold |-> threshold,
      typed |-> Nothing, shares |-> <<>>, result |-> "none", revealed |-> Nothing,
      timer |-> FALSE ]

Blank(count) == [phase |-> "intro", count |-> count, inputs |-> <<>>, secret |-> Nothing]

Init ==
    /\ tool = Tool(3, 2)
    /\ made = <<>>
    /\ cards = {}
    /\ recovery = Blank(2)

-----------------------------------------------------------------------------
(* ShamirDistributor.                                                      *)

ToolStep(phase, changed) ==
    /\ tool.phase = phase
    /\ tool' = changed
    /\ UNCHANGED recovery

Quiet == UNCHANGED <<made, cards>>

(* The fields accept any number; fewer shares drag the threshold along.    *)
SetNumShares ==
    \E n \in Numbers :
      /\ ToolStep("configure",
            [tool EXCEPT !.numShares = n, !.threshold = IF @ > n THEN n ELSE @])
      /\ Quiet

SetThreshold ==
    \E m \in Numbers : ToolStep("configure", [tool EXCEPT !.threshold = m]) /\ Quiet

Continue == ToolStep("configure", [tool EXCEPT !.phase = "enter-secret"]) /\ Quiet

BackToConfigure == ToolStep("enter-secret", [tool EXCEPT !.phase = "configure"]) /\ Quiet

TypeSecret ==
    \E s \in Secrets : ToolStep("enter-secret", [tool EXCEPT !.typed = s]) /\ Quiet

Acceptable == tool.threshold \in 1 .. tool.numShares

handleGenerate ==
    /\ tool.typed # Nothing /\ Acceptable
    /\ Len(made) < MaxSplits
    /\ \E rng \in [DOMAIN tool.typed -> [1 .. (tool.threshold - 1) -> Coefficients]] :
         LET shares == splitSecret(tool.typed, tool.threshold, tool.numShares, rng)
         IN  /\ shares # ShamirError
             /\ ToolStep("enter-secret",
                   [tool EXCEPT !.shares = shares, !.typed = Nothing, !.phase = "generated"])
             /\ made' = Append(made, [secret |-> tool.typed, threshold |-> tool.threshold])
    /\ UNCHANGED cards

CardOf(i) == [split |-> Len(made), share |-> tool.shares[i]]

downloadShare ==
    \E i \in DOMAIN tool.shares :
      /\ ToolStep("generated", tool)
      /\ cards' = cards \cup {CardOf(i)}
      /\ UNCHANGED made

downloadAllShares ==
    /\ ToolStep("generated", tool)
    /\ cards' = cards \cup {CardOf(i) : i \in DOMAIN tool.shares}
    /\ UNCHANGED made

reset == ToolStep("generated", Tool(tool.numShares, tool.threshold)) /\ Quiet

(* Stopping the timer and forgetting what it was to wipe, a slip.          *)
StartVerifyRevealed ==
    ToolStep("generated", [tool EXCEPT !.phase = "verify", !.result = "none", !.timer = FALSE])
    /\ Quiet

startVerify ==
    ToolStep("generated", [tool EXCEPT !.phase = "verify", !.result = "none",
                                       !.revealed = Nothing, !.timer = FALSE])
    /\ Quiet

SharesOf(hand) == [i \in DOMAIN hand |-> hand[i].share]

(* Any cards of the right number are combined; nothing is compared.        *)
handleVerify ==
    \E hand \in [1 .. tool.threshold -> cards] :
      LET secret == reconstructSecret(SharesOf(hand))
          ok     == secret # ShamirError
      IN  /\ ToolStep("verify",
                [tool EXCEPT !.result = IF ok THEN "ok" ELSE "fail",
                             !.revealed = IF ok THEN secret ELSE Nothing, !.timer = ok])
          /\ Quiet

BackToShares == ToolStep("verify", [tool EXCEPT !.phase = "generated"]) /\ Quiet

TimerFires ==
    /\ tool.timer
    /\ ToolStep(tool.phase, [tool EXCEPT !.revealed = Nothing, !.timer = FALSE])
    /\ Quiet

-----------------------------------------------------------------------------
(* The recovery page.                                                      *)

RecoveryStep(phase, changed) ==
    /\ recovery.phase = phase
    /\ recovery' = changed
    /\ UNCHANGED tool
    /\ Quiet

handleShareCountChange ==
    \E n \in {recovery.count - 1, recovery.count + 1} :
      RecoveryStep("intro",
         Blank(IF n < 1 THEN 1 ELSE IF n > MaxCount THEN MaxCount ELSE n))

EnterShares == RecoveryStep("intro", [recovery EXCEPT !.phase = "enter-shares"])

handleShareInput ==
    \E c \in cards :
      /\ Len(recovery.inputs) < recovery.count
      /\ RecoveryStep("enter-shares", [recovery EXCEPT !.inputs = Append(@, c)])

handleReconstruct ==
    LET secret == reconstructSecret(SharesOf(recovery.inputs))
    IN  /\ Len(recovery.inputs) = recovery.count
        /\ secret # ShamirError
        /\ RecoveryStep("enter-shares",
              [recovery EXCEPT !.phase = "result", !.secret = secret])

handleReset ==
    \E phase \in {"enter-shares", "result"} : RecoveryStep(phase, Blank(recovery.count))

-----------------------------------------------------------------------------
Next ==
    \/ SetNumShares \/ SetThreshold \/ Continue \/ BackToConfigure \/ TypeSecret
    \/ handleGenerate \/ downloadShare \/ downloadAllShares \/ reset
    \/ startVerify \/ handleVerify \/ BackToShares \/ TimerFires
    \/ handleShareCountChange \/ EnterShares \/ handleShareInput \/ handleReconstruct
    \/ handleReset

Spec == Init /\ [][Next]_vars

-----------------------------------------------------------------------------
(* The split all these cards stem from, or none. *)
FromOne(hand, s) == \A i \in DOMAIN hand : hand[i].split = s

(***************************************************************************)
(* What the recovery page shows for cards of one split is the secret that  *)
(* was typed, as soon as there are as many of them as its threshold, in    *)
(* whatever order they were pasted (shamir.ts:117-120).                    *)
(***************************************************************************)
AnyThresholdRestores ==
    recovery.phase = "result" =>
        \A s \in DOMAIN made :
          FromOne(recovery.inputs, s) /\ recovery.count >= made[s].threshold
             => recovery.secret = made[s].secret

(***************************************************************************)
(* "M-1 shares reveal nothing" (lib.rs:4): to whoever holds fewer cards of *)
(* a split than its threshold, every byte of the secret may have been any  *)
(* byte, because some random coefficients give exactly these cards for it. *)
(***************************************************************************)
FewerTellNothing ==
    \A s \in DOMAIN made :
      \A view \in SUBSET {c.share : c \in {d \in cards : d.split = s}} :
        Cardinality(view) < made[s].threshold =>
          \A k \in DOMAIN made[s].secret, byte \in Candidates :
            \E coeffs \in [1 .. (made[s].threshold - 1) -> Byte] :
              \A share \in view :
                 Horner(<<byte>> \o coeffs, share.index) = share.data[k]

(***************************************************************************)
(* A secret the distributor reveals is being timed, whichever way the user *)
(* goes back and forth (ShamirDistributor.tsx:474, "Clears in 8 s").       *)
(***************************************************************************)
RevealedIsTimed == tool.revealed # Nothing => tool.timer
=============================================================================
