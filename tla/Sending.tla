------------------------------ MODULE Sending -------------------------------
(* sdk/src/transactions.ts: sendAndConfirmLegacyTx under withRetry, the way    *)
(* every page of the web app submits an instruction.  `call[c]` is the call    *)
(* that caller c awaits, `adrift[ix]` counts the transactions carrying ix that *)
(* nobody awaits any more and that may still be executed: an attempt the timer *)
(* gave up, a submission whose answer was lost, a closed page.                 *)
(*                                                                             *)
(* The actions speak of `call` and `adrift` only.  Whether the program accepts *)
(* an instruction now, and what it does, is for the module that uses this one. *)
EXTENDS Naturals

CONSTANTS Callers,        \* who sends: one wallet in one page each
          Instructions,   \* what they send
          NoIx,           \* none of them
          MaxAttempts,    \* DEFAULT_RETRY.maxAttempts
          MaxAdrift       \* bound on the copies of an instruction adrift: one more is lost

ASSUME SendingAssumption == MaxAttempts \in Nat \ {0} /\ MaxAdrift \in Nat

VARIABLES call, adrift

sending == <<call, adrift>>

\* Where a call is.  build: the blockhash is fetched and the wallet asked.
\* landed, failed: executed by the chain (with value.err null or not), which the
\* client has not seen.  returned, threw: settled.
Places == {"build", "send", "confirm", "landed", "failed", "returned", "threw"}

NoCall == [at |-> "idle", attempt |-> 0, ix |-> NoIx]

Calls == {NoCall} \cup [at : Places, attempt : 1..MaxAttempts, ix : Instructions]

SendingInit == /\ call = [c \in Callers |-> NoCall]
               /\ adrift = [i \in Instructions |-> 0]

At(c, place) == call[c].at = place

Move(c, from, to) == /\ At(c, from)
                     /\ call' = [call EXCEPT ![c].at = to]
                     /\ UNCHANGED adrift

Adrift(i) == adrift' = [adrift EXCEPT ![i] = IF @ < MaxAdrift THEN @ + 1 ELSE @]

-----------------------------------------------------------------------------
Begin(c, i) == /\ At(c, "idle")
               /\ call' = [call EXCEPT ![c] = [at |-> "build", attempt |-> 1, ix |-> i]]
               /\ UNCHANGED adrift

\* The catch of withRetry.  None of the errors here is in isTransientError's
\* list but the wallet's refusal, so each attempt is followed by the next.
Retry(c) ==
    call' = [call EXCEPT ![c] =
                IF call[c].attempt < MaxAttempts
                  THEN [at |-> "build", attempt |-> call[c].attempt + 1, ix |-> call[c].ix]
                  ELSE [call[c] EXCEPT !.at = "threw"]]

\* getLatestBlockhash, and the wallet signs.
Prepared(c) == Move(c, "build", "send")
BlockhashFails(c) == At(c, "build") /\ Retry(c) /\ UNCHANGED adrift

\* "user rejected" is permanent.
Declined(c) == Move(c, "build", "threw")

\* sendRawTransaction simulates first and submits what the program would accept.
Submit(c, accepted) == accepted /\ Move(c, "send", "confirm")

Refused(c, accepted) == ~accepted /\ At(c, "send") /\ Retry(c) /\ UNCHANGED adrift

SubmitFails(c) == At(c, "send") /\ Retry(c) /\ UNCHANGED adrift

AnswerLost(c, accepted) == accepted /\ At(c, "send") /\ Retry(c) /\ Adrift(call[c].ix)

\* The chain executes the awaited transaction, or drops it with its blockhash.
Executed(c, accepted) == Move(c, "confirm", IF accepted THEN "landed" ELSE "failed")

Expires(c) == At(c, "confirm") /\ Retry(c) /\ UNCHANGED adrift

\* Slip: value.err is not looked at.
ErrorUnseen(c) == Move(c, "failed", "returned")

\* The race of confirmTransaction and the timer.  getSignatureStatus is inside
\* the retried function: when it fails, a transaction that landed is sent again.
Confirmed(c) == Move(c, "landed", "returned")
StatusFails(c) == At(c, "landed") /\ Retry(c) /\ UNCHANGED adrift

\* value.err throws.
ConfirmedError(c) == At(c, "failed") /\ Retry(c) /\ UNCHANGED adrift

TimesOut(c) ==
    /\ call[c].at \in {"confirm", "landed", "failed"}
    /\ Retry(c)
    /\ IF At(c, "confirm") THEN Adrift(call[c].ix) ELSE UNCHANGED adrift

\* The caller's code runs on, with the result or with the error.
Settled(c, how) == /\ At(c, how)
                   /\ call' = [call EXCEPT ![c] = NoCall]
                   /\ UNCHANGED adrift

\* The page is closed or reloaded: the call is gone, its transaction is not.
Forget(c) == /\ call' = [call EXCEPT ![c] = NoCall]
             /\ IF At(c, "confirm") THEN Adrift(call[c].ix) ELSE UNCHANGED adrift

AdriftEnds(i) == /\ adrift[i] > 0
                 /\ adrift' = [adrift EXCEPT ![i] = @ - 1]
                 /\ UNCHANGED call

\* What a call does of its own: no effect on the chain, no step of the page.
ClientStep(c, accepted) ==
    \/ Prepared(c) \/ BlockhashFails(c) \/ Declined(c)
    \/ Submit(c, accepted) \/ Refused(c, accepted)
    \/ SubmitFails(c) \/ AnswerLost(c, accepted)
    \/ Expires(c) \/ TimesOut(c)
    \/ Confirmed(c) \/ StatusFails(c) \/ ConfirmedError(c)
=============================================================================
