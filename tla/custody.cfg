CONSTANTS
    Guardians = {a, b}
    a = a
    b = b
    None = None
    MaxSplits = 2
    MaxChanges = 1
SYMMETRY Symmetry
CONSTRAINT StillSplitting
SPECIFICATION Spec
INVARIANTS
    OneCopyOfTheKey
    CouncilRestores
