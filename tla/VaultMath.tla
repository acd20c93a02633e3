------------------------------ MODULE VaultMath ------------------------------
(***************************************************************************)
(* The slot arithmetic of the legacy_vault program: the inactivity score,  *)
(* its zones, the milestone slots, the trigger condition and the anomaly   *)
(* test.  Every step of the Rust code is a checked u64 operation, so each  *)
(* operator here returns either a natural number (or a BOOLEAN, or a       *)
(* record) or Overflow, the MathOverflow error.                            *)
(***************************************************************************)
EXTENDS Integers

CONSTANT MaxU64     \* largest value of a u64; 2^64 - 1 in the program

ASSUME MaxU64Assumption == MaxU64 \in Nat \ {0}

WARNING_SLOT_PCT_75    == 75
WARNING_SLOT_PCT_90    == 90
ANOMALY_MULTIPLIER_PCT == 150

\* LegacyError::MathOverflow, in place of a u64 result.
Overflow == -1

Checked(n) == IF n \in 0..MaxU64 THEN n ELSE Overflow

-----------------------------------------------------------------------------
(* math/threshold_calc.rs *)

trigger_slot(last, threshold) == Checked(last + threshold)

\* A plausible slip: "strictly more than the threshold".
crossed_late(current, last, threshold) ==
    /\ trigger_slot(last, threshold) # Overflow
    /\ current > last + threshold

\* Ok(true).  An overflowing trigger slot is an error, hence not Ok(true).
threshold_crossed(current, last, threshold) ==
    /\ trigger_slot(last, threshold) # Overflow
    /\ current >= last + threshold

\* A plausible slip: the whole product divided by the rounded-up hundred.
milestone_late(last, threshold, pct) == Checked(last + (threshold * pct) \div 100 + 1)

\* The slot `pct` percent into the inactivity window.
milestone(last, threshold, pct) ==
    IF Checked(threshold * pct) = Overflow THEN Overflow
    ELSE Checked(last + (threshold * pct) \div 100)

\* Any overflow fails the whole computation.
compute_milestones(last, threshold) ==
    LET w75 == milestone(last, threshold, WARNING_SLOT_PCT_75)
        w90 == milestone(last, threshold, WARNING_SLOT_PCT_90)
        end == trigger_slot(last, threshold)
    IN  [ ok |-> Overflow \notin {w75, w90, end},
          warning_75_slot |-> w75, warning_90_slot |-> w90, trigger_slot |-> end ]

-----------------------------------------------------------------------------
(* math/activity_score.rs *)

compute_inactivity_score(current, last, threshold) ==
    IF threshold = 0 \/ current <= last THEN 0
    ELSE IF Checked((current - last) * 100) = Overflow THEN Overflow
    ELSE ((current - last) * 100) \div threshold

classify_zone(score) ==
    IF score < WARNING_SLOT_PCT_75 THEN "Green"
    ELSE IF score < WARNING_SLOT_PCT_90 THEN "Yellow"
    ELSE IF score < 100 THEN "Orange"
    ELSE "Red"

\* The slip the comment at activity_score.rs:82-85 warns of: average first.
anomalous_average_first(current, last, count, sum) ==
    /\ count > 0 /\ sum > 0 /\ current > last
    /\ current - last > ((sum \div count) * ANOMALY_MULTIPLIER_PCT) \div 100

\* Ok(true): the present silence is longer than ANOMALY_MULTIPLIER_PCT per
\* cent of the average interval.
is_anomalous(current, last, count, sum) ==
    /\ count > 0 /\ sum > 0 /\ current > last
    /\ Checked(sum * ANOMALY_MULTIPLIER_PCT) # Overflow
    /\ current - last >
           ((sum * ANOMALY_MULTIPLIER_PCT) \div count) \div 100
=============================================================================
