-------------------------- MODULE VaultMath_proofs ---------------------------
(***************************************************************************)
(* Proofs that the arithmetic of VaultMath agrees with itself, for every   *)
(* width of the integers and every timeline of one vault.                  *)
(***************************************************************************)
EXTENDS MCVaultMath, TLAPS

-----------------------------------------------------------------------------
(* Truncating division, as a comparison of products.                       *)

(* What n \div d is: the largest number whose multiple by d fits into n.   *)
LEMMA Quotient ==
    ASSUME NEW n \in Nat, NEW d \in Nat \ {0}
    PROVE  /\ n \div d \in Nat
           /\ (n \div d) * d <= n
           /\ n < (n \div d) * d + d
  OBVIOUS

LEMMA QuotientAtLeast ==
    ASSUME NEW n \in Nat, NEW d \in Nat \ {0}, NEW k \in Nat
    PROVE  n \div d >= k <=> n >= k * d
<1> DEFINE q == n \div d
<1>1. q \in Nat /\ q * d <= n /\ n < q * d + d
  BY Quotient
<1>2. ASSUME q >= k PROVE n >= k * d
  <2>1. q * d >= k * d
    BY <1>1, <1>2
  <2>2. QED
    BY <1>1, <2>1
<1>3. ASSUME q < k PROVE n < k * d
  <2>1. k * d >= (q + 1) * d
    BY <1>1, <1>3
  <2>2. (q + 1) * d = q * d + d
    BY <1>1
  <2>3. QED
    BY <1>1, <2>1, <2>2
<1>4. QED
  BY <1>1, <1>2, <1>3

LEMMA QuotientMonotonic ==
    ASSUME NEW n \in Nat, NEW m \in Nat, NEW d \in Nat \ {0}, n <= m
    PROVE  n \div d <= m \div d
<1>1. n \div d \in Nat /\ n >= (n \div d) * d
  BY Quotient
<1>2. QED
  BY <1>1, QuotientAtLeast

-----------------------------------------------------------------------------
(* The timeline.                                                           *)

Timeline ==
    /\ {current, last, count, sum} \subseteq Nat
    /\ threshold \in Nat \ {0}

LEMMA TimelineInvariant == Spec => []Timeline
<1>1. Init => Timeline
  BY TimelineAssumption DEF Init, Timeline
<1>2. Timeline /\ [Tick]_vars => Timeline'
  BY DEF Timeline, Tick, vars
<1>3. QED
  BY <1>1, <1>2, PTL DEF Spec

(* The score reaches a percentage when the silence, in hundredths, does.   *)
LEMMA ScoreReaches ==
    ASSUME Timeline, NEW pct \in Nat \ {0},
           compute_inactivity_score(current, last, threshold) # Overflow
    PROVE  compute_inactivity_score(current, last, threshold) >= pct
             <=> (current - last) * 100 >= pct * threshold
<1> DEFINE score == compute_inactivity_score(current, last, threshold)
<1>1. CASE current <= last
  <2>1. score = 0
    BY <1>1 DEF compute_inactivity_score
  <2>2. (current - last) * 100 <= 0 /\ pct * threshold > 0
    BY <1>1 DEF Timeline
  <2>3. QED
    BY <2>1, <2>2 DEF Timeline
<1>2. CASE current > last
  <2>1. score = ((current - last) * 100) \div threshold
    BY <1>2 DEF compute_inactivity_score, Timeline
  <2>2. (current - last) * 100 \in Nat
    BY <1>2 DEF Timeline
  <2>3. QED
    BY <2>1, <2>2, QuotientAtLeast DEF Timeline
<1>3. QED
  BY <1>1, <1>2 DEF Timeline

(* A checked operation that did not overflow is the operation.             *)
LEMMA CheckedIs ==
    ASSUME NEW n, Checked(n) # Overflow
    PROVE  Checked(n) = n
  BY DEF Checked

(* The score, where it is one, is a natural number.                        *)
LEMMA ScoreIsNat ==
    ASSUME Timeline, compute_inactivity_score(current, last, threshold) # Overflow
    PROVE  compute_inactivity_score(current, last, threshold) \in Nat
<1>1. CASE current <= last
  BY <1>1 DEF compute_inactivity_score
<1>2. CASE current > last
  <2>1. compute_inactivity_score(current, last, threshold)
           = ((current - last) * 100) \div threshold
    BY <1>2 DEF compute_inactivity_score, Timeline
  <2>2. QED
    BY <1>2, <2>1, Quotient DEF Timeline
<1>3. QED
  BY <1>1, <1>2 DEF Timeline

(***************************************************************************)
(* The zone is Red exactly from the slot on at which trigger_inheritance   *)
(* succeeds, for every threshold and every width of the integers.          *)
(***************************************************************************)
THEOREM RedIsClaimable == Spec => []CrossedIffRed
<1>1. Timeline => CrossedIffRed
  <2> DEFINE score == compute_inactivity_score(current, last, threshold)
  <2> SUFFICES ASSUME Timeline, score # Overflow, trigger_slot(last, threshold) # Overflow
               PROVE  threshold_crossed(current, last, threshold)
                        <=> classify_zone(score) = "Red"
    BY DEF CrossedIffRed
  <2>1. score \in Nat
    BY ScoreIsNat
  <2>2. classify_zone(score) = "Red" <=> score >= 100
    BY <2>1 DEF classify_zone, WARNING_SLOT_PCT_75, WARNING_SLOT_PCT_90
  <2>3. score >= 100 <=> (current - last) * 100 >= 100 * threshold
    BY ScoreReaches
  <2>4. threshold_crossed(current, last, threshold) <=> current >= last + threshold
    BY DEF threshold_crossed
  <2>5. QED
    BY <2>2, <2>3, <2>4 DEF Timeline
<1>2. QED
  BY <1>1, TimelineInvariant, PTL

(* A milestone lies within a slot of where the score reaches its percentage. *)
LEMMA MilestoneWithinSlot ==
    ASSUME Timeline, NEW pct \in 1 .. 100,
           compute_inactivity_score(current, last, threshold) # Overflow,
           milestone(last, threshold, pct) # Overflow
    PROVE  LET score == compute_inactivity_score(current, last, threshold)
           IN  /\ current < milestone(last, threshold, pct) => ~ (score >= pct)
               /\ current > milestone(last, threshold, pct) => score >= pct
               /\ milestone(last, threshold, pct) = last + (threshold * pct) \div 100
<1> DEFINE q == (threshold * pct) \div 100
           d == current - last
<1>1. milestone(last, threshold, pct) = last + q
  BY CheckedIs DEF milestone
<1>2. threshold * pct \in Nat /\ d \in Int
  BY DEF Timeline
<1>3. q \in Nat /\ q * 100 <= threshold * pct /\ threshold * pct < q * 100 + 100
  <2>1. ASSUME NEW n \in Nat
        PROVE  n \div 100 \in Nat /\ (n \div 100) * 100 <= n /\ n < (n \div 100) * 100 + 100
    OBVIOUS
  <2>2. QED
    BY <1>2, <2>1
<1>4. d < q => d * 100 < pct * threshold
  BY <1>2, <1>3 DEF Timeline
<1>5. d > q => d * 100 >= pct * threshold
  BY <1>2, <1>3 DEF Timeline
<1>6. QED
  BY <1>1, <1>3, <1>4, <1>5, ScoreReaches DEF Timeline

(***************************************************************************)
(* The milestone slots stored for the watcher and the score computed from  *)
(* the clock disagree for one slot at most, and the milestones come in     *)
(* order.                                                                  *)
(***************************************************************************)
THEOREM MilestonesCorrect == Spec => []MilestonesAgreeWithScore
<1>1. Timeline => MilestonesAgreeWithScore
  <2> DEFINE ms    == compute_milestones(last, threshold)
             score == compute_inactivity_score(current, last, threshold)
             w(pct) == milestone(last, threshold, pct)
  <2> SUFFICES ASSUME Timeline, ms.ok, score # Overflow
               PROVE  /\ current < w(75) => score < 75
                      /\ current > w(75) => score >= 75
                      /\ current < w(90) => score < 90
                      /\ current > w(90) => score >= 90
                      /\ w(75) <= w(90)
                      /\ w(90) <= trigger_slot(last, threshold)
    BY DEF MilestonesAgreeWithScore, compute_milestones, WARNING_SLOT_PCT_75,
           WARNING_SLOT_PCT_90
  <2>1. /\ w(75) # Overflow /\ w(90) # Overflow
        /\ trigger_slot(last, threshold) # Overflow
    BY DEF compute_milestones, WARNING_SLOT_PCT_75, WARNING_SLOT_PCT_90
  <2>2. score \in Nat
    BY ScoreIsNat
  <2>3. /\ current < w(75) => ~ (score >= 75)
        /\ current > w(75) => score >= 75
        /\ w(75) = last + (threshold * 75) \div 100
    BY <2>1, MilestoneWithinSlot
  <2>4. /\ current < w(90) => ~ (score >= 90)
        /\ current > w(90) => score >= 90
        /\ w(90) = last + (threshold * 90) \div 100
    BY <2>1, MilestoneWithinSlot
  <2>5. (threshold * 75) \div 100 <= (threshold * 90) \div 100
    BY QuotientMonotonic DEF Timeline
  <2>6. (threshold * 90) \div 100 <= threshold
    <3>1. threshold * 90 \in Nat
      BY DEF Timeline
    <3>2. ((threshold * 90) \div 100) * 100 <= threshold * 90
          /\ (threshold * 90) \div 100 \in Nat
      BY <3>1, Quotient
    <3>3. QED
      BY <3>2 DEF Timeline
  <2>7. trigger_slot(last, threshold) = last + threshold
    BY <2>1, CheckedIs DEF trigger_slot
  <2>8. (threshold * 75) \div 100 \in Nat /\ (threshold * 90) \div 100 \in Nat
    BY Quotient DEF Timeline
  <2>9. QED
    BY <2>2, <2>3, <2>4, <2>5, <2>6, <2>7, <2>8 DEF Timeline
<1>2. QED
  BY <1>1, TimelineInvariant, PTL

(***************************************************************************)
(* Dividing first by the number of check-ins and then by a hundred, both   *)
(* times truncating, flags exactly the silences above 150 per cent of the  *)
(* average interval (ANOMALY_MULTIPLIER_PCT), as the comparison of         *)
(* rationals would, for every history whose product does not overflow      *)
(* (the comment at activity_score.rs:82-85 relies on it).                  *)
(***************************************************************************)
THEOREM AnomalyCorrect == Spec => []AnomalyIsExact
<1>1. Timeline => AnomalyIsExact
  <2> DEFINE d == current - last
             x == sum * ANOMALY_MULTIPLIER_PCT
  <2> SUFFICES ASSUME Timeline, Checked(x) # Overflow, count > 0, sum > 0
               PROVE  is_anomalous(current, last, count, sum) <=> d * 100 * count > x
    BY DEF AnomalyIsExact
  <2>1. x \in Nat /\ x > 0
    BY DEF Timeline, ANOMALY_MULTIPLIER_PCT
  <2>2. CASE current <= last
    <3>1. d * 100 <= 0
      BY <2>2 DEF Timeline
    <3>2. d * 100 * count <= 0
      BY <3>1 DEF Timeline
    <3>3. QED
      BY <2>1, <2>2, <3>2 DEF is_anomalous, Timeline
  <2>3. CASE current > last
    <3>1. d \in Nat /\ d * 100 \in Nat
      BY <2>3 DEF Timeline
    <3>2. x \div count \in Nat
      BY <2>1, Quotient DEF Timeline
    <3>3. (x \div count) \div 100 >= d <=> x \div count >= d * 100
      BY <3>1, <3>2, QuotientAtLeast
    <3>4. x \div count >= d * 100 <=> x >= (d * 100) * count
      BY <2>1, <3>1, QuotientAtLeast DEF Timeline
    <3>5. (x \div count) \div 100 \in Nat
      BY <3>2, Quotient
    <3>6. is_anomalous(current, last, count, sum) <=> d > (x \div count) \div 100
      BY <2>3 DEF is_anomalous
    <3>7. (d * 100) * count \in Nat
      BY <3>1 DEF Timeline
    <3>8. QED
      BY <2>1, <3>1, <3>3, <3>4, <3>5, <3>6, <3>7
  <2>4. QED
    BY <2>2, <2>3 DEF Timeline
<1>2. QED
  BY <1>1, TimelineInvariant, PTL
=============================================================================
