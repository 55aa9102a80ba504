CONSTANTS
    Identities = {"i"}
    Candidates = {"c1", "c2"}
    IdentityOf <- OneIdentity
    Claims = {"x", "y"}
    Claim <- Same
    SourceDerived = {"c1"}
    EvidenceClaim = "y"
    TargetKinds = {"SEMANTIC_IDENTITY"}
    Reasons = {"r"}
    MaxParticipants = 2
    MaxRecords = 1
    MaxOccurrences = 2
    MaxAuthority = 2
    MaxSequence = 2
    Workers = {w1, w2}
    Route <- SecondUnusable
    MaxAttempts = 1
    ModelClasses = {"CHANGED", "UNCHANGED"}
    MaxDecisions = 2
    MaxWrites = 3
SPECIFICATION Spec
SYMMETRY WorkerSymmetry
INVARIANTS TypeOK OneIntegrityHistory ProjectionsFollowRecords
PROPERTIES DecidedOnPresentFacts
CHECK_DEADLOCK FALSE
