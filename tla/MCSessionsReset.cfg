CONSTANTS
    Browsers = {b1}
    Sweepers = {s1}
    Subjects = {"a"}
    Emails = {"x"}
    ProviderSessions = {p1, p2}
    NoOne = NoOne
    Owner <- MCOwner
    Expiry <- MCExpiry
    AbsoluteLife = 2
    VerifyLife = 1
    MaxLag = 1
    MaxTime = 3
    MaxSessions = 3
    MaxIntents = 2
    MaxLogouts = 1
    MaxEnded = 1
SPECIFICATION Spec
SYMMETRY Symmetry
INVARIANTS ResetForGood
CHECK_DEADLOCK FALSE
