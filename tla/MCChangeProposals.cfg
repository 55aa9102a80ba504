CONSTANTS
    Workers = {w1, w2}
    Identities = {"a", "b"}
    Candidates = {"c1", "c2", "c3"}
    IdentityOf <- MCIdentity
    GroupOf <- MCGroup
    MaxRecords = 3
    MaxMoves = 2
SPECIFICATION Spec
SYMMETRY WorkerSymmetry
INVARIANTS TypeOK OneLineage
PROPERTIES FreshWhenMaterialized HistoryFinal
CHECK_DEADLOCK FALSE
