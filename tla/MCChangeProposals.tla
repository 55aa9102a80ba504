------------------------- MODULE MCChangeProposals -------------------------
(* ChangeProposals on small instances: identity a has candidates in two     *)
(* submissions, identity b has one in the first of them.                    *)
EXTENDS ChangeProposals, TLC

WorkerSymmetry == Permutations(Workers)

MCIdentity == [c \in Candidates |-> IF c = "c3" THEN "b" ELSE "a"]
MCGroup == [c \in Candidates |-> IF c = "c2" THEN "s2" ELSE "s1"]
===============================================================================
