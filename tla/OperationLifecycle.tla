-------------------------- MODULE OperationLifecycle --------------------------
(***************************************************************************)
(* What a durable Operation promises its callers, without leases, clocks   *)
(* or locks: the state machine of packages/domain/src/operation.ts and,    *)
(* beside it, the outcome of every attempt that was ever started.  The     *)
(* module Operations, the row-locked functions of migration 003,           *)
(* implements it.                                                          *)
(***************************************************************************)
EXTENDS Naturals, Sequences

CONSTANT MaxAttempts     \* operations.max_attempts

VARIABLES state,         \* operations.state
          outcomes       \* the outcome of each attempt, "OPEN" while it runs

vars == <<state, outcomes>>

States == {"PENDING", "RUNNING", "RETRY_WAIT", "CANCELLATION_REQUESTED",
           "SUCCEEDED", "FAILED", "CANCELLED"}
Terminal == {"SUCCEEDED", "FAILED", "CANCELLED"}
Outcomes == {"OPEN", "SUCCEEDED", "RETRY_SCHEDULED", "FAILED", "CANCELLED",
             "LEASE_EXPIRED"}

Init == state = "PENDING" /\ outcomes = << >>

LegalTransition(from, to) ==
    \/ from = "PENDING" /\ to \in {"RUNNING", "CANCELLED"}
    \/ from = "RUNNING"
       /\ to \in {"SUCCEEDED", "RETRY_WAIT", "FAILED", "CANCELLATION_REQUESTED"}
    \/ from = "RETRY_WAIT" /\ to \in {"RUNNING", "CANCELLED"}
    \/ from = "CANCELLATION_REQUESTED" /\ to = "CANCELLED"

BudgetLeft == Len(outcomes) < MaxAttempts

\* The last attempt ends with the outcome o.
Ended(o) == [outcomes EXCEPT ![Len(outcomes)] = o]

\* An attempt starts; an attempt whose worker was lost is closed first.
Start ==
    /\ BudgetLeft
    /\ state \in {"PENDING", "RETRY_WAIT", "RUNNING"}
    /\ state' = "RUNNING"
    /\ outcomes' = Append(IF state = "RUNNING" THEN Ended("LEASE_EXPIRED")
                                               ELSE outcomes, "OPEN")

\* The last permitted attempt was lost.
Exhaust ==
    /\ state = "RUNNING" /\ ~BudgetLeft
    /\ state' = "FAILED"
    /\ outcomes' = Ended("LEASE_EXPIRED")

\* The running attempt reports how it ended.
Resolve ==
    /\ state = "RUNNING"
    /\ \/ state' = "SUCCEEDED" /\ outcomes' = Ended("SUCCEEDED")
       \/ state' = "FAILED" /\ outcomes' = Ended("FAILED")
       \/ BudgetLeft /\ state' = "RETRY_WAIT" /\ outcomes' = Ended("RETRY_SCHEDULED")

\* Nothing runs: a cancellation takes effect at once.
CancelIdle ==
    /\ state \in {"PENDING", "RETRY_WAIT"}
    /\ state' = "CANCELLED"
    /\ UNCHANGED outcomes

\* Something runs: the cancellation is recorded and binds the attempt.
RequestCancel ==
    /\ state = "RUNNING"
    /\ state' = "CANCELLATION_REQUESTED"
    /\ UNCHANGED outcomes

FinishCancel ==
    /\ state = "CANCELLATION_REQUESTED"
    /\ state' = "CANCELLED"
    /\ outcomes' = Ended("CANCELLED")

Next == Start \/ Exhaust \/ Resolve \/ CancelIdle \/ RequestCancel \/ FinishCancel

Spec == Init /\ [][Next]_vars
===============================================================================
