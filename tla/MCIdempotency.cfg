CONSTANTS
    Callers = {c1, c2, c3}
    Fingerprints = {1, 2}
    MaxClaim = 1
    MaxAttempts = 2
    MaxTime = 2
SPECIFICATION KeyFairSpec
INVARIANTS KeyTypeOK ExactlyOnce
PROPERTIES LatestClaimDecides Answered
CHECK_DEADLOCK FALSE
