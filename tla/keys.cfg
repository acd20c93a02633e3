\* One form, one claim: two keys, a short and a good password, every browser.
SPECIFICATION Spec
CONSTANTS
    Keys = {k1, k2}
    Passwords = {short, p1}
    Short = {short}
    Browsers = {"restricted", "share", "plain"}
    MaxIndex = 0
    Calls = {c1, c2}
    None = None
INVARIANTS
    RegisteredKeyIsBackedUp
    FinishedClaim
PROPERTIES
    BusyEnds
CHECK_DEADLOCK FALSE
