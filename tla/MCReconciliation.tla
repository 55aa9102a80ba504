-------------------------- MODULE MCReconciliation --------------------------
(* Reconciliation on small instances: two candidates of one identity.      *)
EXTENDS Reconciliation, TLC

WorkerSymmetry == Permutations(Workers)

OneIdentity == [c \in Candidates |-> "i"]
\* Both say the same, and so does the evidence that the first one rests on.
Same == [c \in Candidates |-> "x"]
SecondUnusable == <<TRUE, FALSE>>
===============================================================================
