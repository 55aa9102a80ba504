----------------------------- MODULE MCOperations -----------------------------
(* Operations on a small instance.                                         *)
EXTENDS Operations, TLC

WorkerSymmetry == Permutations(Workers)
===============================================================================
