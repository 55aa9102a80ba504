CONSTANTS
    Projects = {p1}
    Repositories <- Installed
    Deliveries <- SuspendedOnly
    Keys = {k1}
    IntentLife = 3
    ProofLife = 2
    MaxIntents = 1
    MaxTime = 2
SPECIFICATION Spec
INVARIANTS NoActiveUnderFence
CHECK_DEADLOCK FALSE
