CONSTANTS
    Workers = {w1, w2}
    MaxAttempts = 2
    MaxLease = 2
    MaxDelay = 1
    MaxTime = 3
    MaxCalls = 2
SPECIFICATION Spec
SYMMETRY WorkerSymmetry
INVARIANTS TypeOK AttemptsDisjoint WaitingHasBudget
PROPERTIES Fenced ImplementsLifecycle
CHECK_DEADLOCK FALSE
