SPECIFICATION Spec
CONSTANTS
    Guardians = {g1, g2}
    MaxUtxos = 2
    MaxAttempts = 2
    MaxAdrift = 1
    Callers <- Pages
    Instructions <- SentInstructions
    NoIx = NoIx
SYMMETRY Symmetry
INVARIANTS
    SuccessMeansLanded
    
