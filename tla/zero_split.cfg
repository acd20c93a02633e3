CONSTANTS
    Guardians = {a, b}
    a = a
    b = b
    None = None
    MaxSplits = 2
    MaxChanges = 0
SPECIFICATION Spec
INVARIANT
    SharesAreOfTheKey
