CONSTANTS
    Clients = {c1, c2}
    Sources = {"s1", "s2"}
    Refs = {"main", "dev"}
    FirstBranch <- MCBranch
    Scopes <- MCScopes
    Files <- MCFiles
    Identities = {"i"}
    Facet <- MCFacet
    MaxDecisions = 2
    MaxSequence <- MCSequence
    MaxChanges = 1
    MaxRecords = 2
SPECIFICATION Spec
SYMMETRY ClientSymmetry
INVARIANTS TypeOK OneAuthorityHistory TiesOnlyByWildcard OneContextHistory EvidenceKept CurrentIsCurrent
PROPERTIES WinsAtCommit
CHECK_DEADLOCK FALSE
