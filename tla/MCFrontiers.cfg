CONSTANTS
    MaxSequence = 3
    MaxTokens = 3
    MaxLease = 2
    MaxDelay = 1
    MaxTime = 4
    MaxCalls = 2
    Workers = {w1, w2, w3}
    MaxSubmissions = 5
SPECIFICATION FrontiersSpec
INVARIANTS RowConstraintsHold WatermarkExact
PROPERTIES LeaseExclusive ImplementsLostWakeup
CHECK_DEADLOCK FALSE
