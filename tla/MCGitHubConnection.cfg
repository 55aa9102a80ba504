CONSTANTS
    Projects = {p1}
    Repositories <- Reinstalled
    Deliveries <- ThreeSignals
    Keys = {k1, k2}
    IntentLife = 1
    ProofLife = 1
    MaxIntents = 2
    MaxTime = 2
SYMMETRY KeySymmetry
SPECIFICATION Spec
INVARIANTS TypeOK SignalsNeverRegress RestsOnProof
CHECK_DEADLOCK FALSE
