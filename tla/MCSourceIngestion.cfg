CONSTANTS
    Workers = {w1, w2}
    Histories <- All
    Tree <- MCTree
    Ahead <- MCAhead
    Renames <- MCRenames
    Eligible <- MCEligible
    MaxReferences = 2
    MaxPasses = 2
    MaxJobs = 1
    MaxFaults = 1
SPECIFICATION FairSpec
INVARIANTS TypeOK ProgressAgrees CoalescedIntoIngested EvidenceCoversTree
PROPERTIES Converges
CHECK_DEADLOCK FALSE
