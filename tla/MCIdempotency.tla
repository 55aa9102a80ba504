---------------------------- MODULE MCIdempotency ----------------------------
(* Idempotency on a small instance.  Callers are not declared symmetric:    *)
(* the run checks liveness, for which TLC's reduction is not sound.         *)
EXTENDS Idempotency, TLC
===============================================================================
