----------------------------- MODULE MCSessions -----------------------------
(* Sessions on a small instance: one user with two provider sessions.       *)
EXTENDS Sessions, TLC

Symmetry == Permutations(ProviderSessions)

MCOwner == [p \in ProviderSessions |-> "a"]
MCExpiry == [p \in ProviderSessions |-> 4]
=============================================================================
