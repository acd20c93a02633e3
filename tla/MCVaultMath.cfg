\* Scores overflow above (current - last) = 12, milestones above a threshold of 13.
CONSTANTS
    MaxU64 = 1250
    LastBound = 3
    ThresholdBound = 14
    CountBound = 4
    SumBound = 9
    SlotBound = 20

SPECIFICATION Spec

INVARIANTS
    CrossedIffRed
    MilestonesAgreeWithScore
    AnomalyIsExact

CHECK_DEADLOCK FALSE
