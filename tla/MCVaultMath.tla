----------------------------- MODULE MCVaultMath -----------------------------
(***************************************************************************)
(* One vault's timeline under the program's arithmetic: every combination  *)
(* of last check-in, threshold and check-in history in small ranges, and a *)
(* clock that runs past the trigger slot.  MaxU64 is small enough for the  *)
(* checked operations to fail in part of the range.                        *)
(***************************************************************************)
EXTENDS VaultMath

CONSTANTS
    LastBound,      \* bound on the last check-in slot
    ThresholdBound, \* bound on the inactivity threshold
    CountBound,     \* bound on the number of check-ins
    SumBound,       \* bound on the sum of the intervals
    SlotBound       \* bound on the clock

ASSUME TimelineAssumption ==
    {LastBound, ThresholdBound, CountBound, SumBound, SlotBound} \subseteq Nat

VARIABLES current, last, threshold, count, sum

vars == <<current, last, threshold, count, sum>>

Init ==
    /\ current = 0
    /\ last \in 0..LastBound
    /\ threshold \in 1..ThresholdBound
    /\ count \in 0..CountBound
    /\ sum \in 0..SumBound

Tick ==
    /\ current < SlotBound
    /\ current' = current + 1
    /\ UNCHANGED <<last, threshold, count, sum>>

Spec == Init /\ [][Tick]_vars

-----------------------------------------------------------------------------
(***************************************************************************)
(* The two independent computations of "the vault is claimable", the       *)
(* addition in threshold_crossed and the percentage in                     *)
(* compute_inactivity_score, agree at every slot: the score reads 100 or   *)
(* more (zone Red) exactly when trigger_inheritance would succeed.         *)
(***************************************************************************)
CrossedIffRed ==
    LET score == compute_inactivity_score(current, last, threshold)
    IN  score # Overflow /\ trigger_slot(last, threshold) # Overflow
          => (threshold_crossed(current, last, threshold) <=> classify_zone(score) = "Red")

(***************************************************************************)
(* The milestone slots and the score agree up to the rounding of the       *)
(* offset: before the milestone slot the score is below the percentage,    *)
(* and one slot after it the score has reached the percentage.             *)
(***************************************************************************)
MilestonesAgreeWithScore ==
    LET ms    == compute_milestones(last, threshold)
        score == compute_inactivity_score(current, last, threshold)
    IN  ms.ok /\ score # Overflow
          => /\ current < ms.warning_75_slot => score < WARNING_SLOT_PCT_75
             /\ current > ms.warning_75_slot => score >= WARNING_SLOT_PCT_75
             /\ current < ms.warning_90_slot => score < WARNING_SLOT_PCT_90
             /\ current > ms.warning_90_slot => score >= WARNING_SLOT_PCT_90
             /\ ms.warning_75_slot <= ms.warning_90_slot
             /\ ms.warning_90_slot <= ms.trigger_slot

(***************************************************************************)
(* is_anomalous loses nothing to its two truncating divisions: it is the   *)
(* exact rational comparison of the silence with ANOMALY_MULTIPLIER_PCT    *)
(* per cent of the average interval.                                       *)
(***************************************************************************)
AnomalyIsExact ==
    Checked(sum * ANOMALY_MULTIPLIER_PCT) # Overflow /\ count > 0 /\ sum > 0
      => (is_anomalous(current, last, count, sum)
            <=> (current - last) * 100 * count > sum * ANOMALY_MULTIPLIER_PCT)
=============================================================================
