\* A shielded vault whose creation fails, then a standard one in the same form.
SPECIFICATION Spec
CONSTANTS
    Keys = {k1}
    Passwords = {p1}
    Short = {}
    Browsers = {"plain"}
    MaxIndex = 0
    Calls = {c1}
    None = None
INVARIANTS
    StandardPaysTheAddress
CHECK_DEADLOCK FALSE
