CONSTANTS
    Secrets <- MCSecrets
    Coefficients = {5}
    Numbers = {0, 3}
    Candidates = {85}
    MaxCount = 3
    MaxSplits = 1
SPECIFICATION Spec
INVARIANTS
    AnyThresholdRestores
    FewerTellNothing
    RevealedIsTimed
