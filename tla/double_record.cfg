SPECIFICATION Spec
CONSTANTS
    Guardians = {g1}
    MaxUtxos = 1
    MaxAttempts = 2
    MaxAdrift = 1
    Callers <- Pages
    Instructions <- SentInstructions
    NoIx = NoIx
INVARIANTS
    DeclaredIsShielded
