------------------------------ MODULE LostWakeup ------------------------------
(***************************************************************************)
(* What a processing unit promises (challenge B7): work is desired up to a *)
(* sequence, at most one claim covers a prefix of it, finishing the claim  *)
(* processes exactly that prefix, and whatever was desired after the claim *)
(* was taken stays to be done.  ProcessingUnit implements it.              *)
(***************************************************************************)
EXTENDS Naturals

VARIABLES desired,       \* the highest sequence asked for
          processed,     \* everything up to here is done
          claim          \* the sequence the current claim covers, 0 if none

vars == <<desired, processed, claim>>

Init == desired = 0 /\ processed = 0 /\ claim = 0

Desire == /\ desired' \in Nat /\ desired' > desired
          /\ UNCHANGED <<processed, claim>>

\* A claim is taken, or taken over, for everything desired now.
Take == /\ desired > processed
        /\ claim' = desired
        /\ UNCHANGED <<desired, processed>>

Finish == /\ claim # 0
          /\ processed' = claim
          /\ claim' = 0
          /\ UNCHANGED desired

GiveUp == /\ claim # 0
          /\ claim' = 0
          /\ UNCHANGED <<desired, processed>>

Next == Desire \/ Take \/ Finish \/ GiveUp

Spec == Init /\ [][Next]_vars
===============================================================================
