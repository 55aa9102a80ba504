------------------------------ MODULE Operations ------------------------------
(***************************************************************************)
(* One row of memoid.operations with its memoid.operation_attempts, and    *)
(* the four functions of migration 003 that change them: acquire_operation,*)
(* renew_operation_lease, finish_operation, request_operation_cancellation.*)
(*                                                                         *)
(* Each function locks the operations row (select ... for update), so its  *)
(* effect is one step.  What is not one step is the call: the function     *)
(* takes now_at = clock_timestamp() when it is entered, BEFORE it waits    *)
(* for the row lock.  A call is therefore a record that carries the time   *)
(* at which it was entered and takes effect, or is refused, later; calls   *)
(* of several workers, and of a worker whose lease is already gone, wait   *)
(* together.  A worker crash needs no action: the worker simply issues no  *)
(* further call.  A call that raises changes nothing.                      *)
(*                                                                         *)
(* A lease token is a fresh UUID per attempt; its model value is the       *)
(* number of the attempt it was drawn for.                                 *)
(***************************************************************************)
EXTENDS Integers, Sequences, FiniteSets

CONSTANTS Workers,       \* Actors of kind MEMOID_WORKER
          MaxAttempts,   \* operations.max_attempts
          MaxLease,      \* longest lease, in ticks (p_lease_seconds <= 3600)
          MaxDelay,      \* longest retry delay a worker asks for, in ticks
          MaxTime,       \* bound: the clock stops there
          MaxCalls       \* bound: calls waiting for the row lock at once

ASSUME OperationsAssumption ==
    /\ MaxAttempts \in 1..100
    /\ MaxLease \in Nat \ {0}
    /\ MaxDelay \in Nat
    /\ MaxTime \in Nat
    /\ MaxCalls \in Nat

Null == -1               \* SQL null of a timestamp or a lease token

Time == 0..MaxTime
Lease == 1..MaxLease
Delay == 0..MaxDelay

VARIABLES state,         \* operations.state
          attemptCount,  \* operations.attempt_count
          leaseToken,    \* operations.lease_token
          leaseExpires,  \* operations.lease_expires_at
          nextAttempt,   \* operations.next_attempt_at
          attempts,      \* the rows of operation_attempts, in attempt_number order
          calls,         \* calls entered and not yet returned
          now            \* clock_timestamp()

operation == <<state, attemptCount, leaseToken, leaseExpires, nextAttempt>>
vars == <<state, attemptCount, leaseToken, leaseExpires, nextAttempt,
          attempts, calls, now>>

States == {"PENDING", "RUNNING", "RETRY_WAIT", "CANCELLATION_REQUESTED",
           "SUCCEEDED", "FAILED", "CANCELLED"}
Terminal == {"SUCCEEDED", "FAILED", "CANCELLED"}
Leased == {"RUNNING", "CANCELLATION_REQUESTED"}
Outcomes == {"SUCCEEDED", "RETRY_SCHEDULED", "FAILED", "CANCELLED", "LEASE_EXPIRED"}
Resolutions == {"SUCCEEDED", "RETRY", "FAILED", "CANCELLED"}

\* A row of operation_attempts; outcome "OPEN" is SQL null.
Attempt == [worker : Workers, token : Nat, acquired : Nat, expires : Nat,
            finished : Nat \cup {Null}, outcome : Outcomes \cup {"OPEN"}]

Call == [kind : {"acquire"}, worker : Workers, at : Nat]
          \cup [kind : {"renew", "finish"}, token : Nat, at : Nat]
          \cup [kind : {"cancel"}, at : Nat]

TypeOK ==
    /\ state \in States
    /\ attemptCount \in 0..MaxAttempts
    /\ leaseToken \in Nat \cup {Null}
    /\ leaseExpires \in Nat \cup {Null}
    /\ nextAttempt \in Nat \cup {Null}
    /\ attempts \in Seq(Attempt)
    /\ calls \subseteq Call
    /\ now \in Time

Init ==
    /\ state = "PENDING"
    /\ attemptCount = 0
    /\ leaseToken = Null /\ leaseExpires = Null /\ nextAttempt = Null
    /\ attempts = << >>
    /\ calls = {}
    /\ now = 0

-------------------------------------------------------------------------------
(* The triggers                                                            *)

\* guard_operation_update: a change of state must be one of these.
LegalTransition(from, to) ==
    \/ from = to
    \/ from = "PENDING" /\ to \in {"RUNNING", "CANCELLED"}
    \/ from = "RUNNING"
       /\ to \in {"SUCCEEDED", "RETRY_WAIT", "FAILED", "CANCELLATION_REQUESTED"}
    \/ from = "RETRY_WAIT" /\ to \in {"RUNNING", "CANCELLED"}
    \/ from = "CANCELLATION_REQUESTED" /\ to = "CANCELLED"

\* guard_operation_update accepts an update to the state s and the count n.
OperationGuard(s, n) ==
    /\ state \notin Terminal
    /\ LegalTransition(state, s)
    /\ n - attemptCount \in {0, 1}

\* guard_operation_attempt_update accepts a new lease end for a row.
AttemptGuard(row, expires) == row.finished = Null /\ expires >= row.expires

-------------------------------------------------------------------------------
(* The rows the functions read and write                                   *)

\* MUTANT: the lease is checked against a second reading of the clock.
LeaseLiveRereadClock(at) == leaseExpires > now

LeaseLive(at) == leaseExpires > at

\* "update operation_attempts ... where attempt_number = attempt_count and
\* finished_at is null"
AttemptsClosed(outcome, at) ==
    [i \in DOMAIN attempts |->
        IF i = attemptCount /\ attempts[i].finished = Null
        THEN [attempts[i] EXCEPT !.finished = at, !.outcome = outcome]
        ELSE attempts[i]]

\* The functions that end a lease write the five columns like this.
Released(s, next) ==
    /\ OperationGuard(s, attemptCount)
    /\ state' = s
    /\ leaseToken' = Null /\ leaseExpires' = Null
    /\ nextAttempt' = next
    /\ UNCHANGED attemptCount

Returned(c) == calls' = calls \ {c} /\ UNCHANGED now

-------------------------------------------------------------------------------
(* Entering a call                                                         *)

Enter(c) ==
    /\ Cardinality(calls) < MaxCalls
    /\ calls' = calls \cup {c}
    /\ UNCHANGED <<operation, attempts, now>>

CallAcquire == \E w \in Workers : Enter([kind |-> "acquire", worker |-> w, at |-> now])

\* Any token that was ever handed out, also by a worker that lost its lease.
CallRenew == \E i \in DOMAIN attempts :
    Enter([kind |-> "renew", token |-> attempts[i].token, at |-> now])
CallFinish == \E i \in DOMAIN attempts :
    Enter([kind |-> "finish", token |-> attempts[i].token, at |-> now])

CallCancel == Enter([kind |-> "cancel", at |-> now])

-------------------------------------------------------------------------------
(* acquire_operation                                                       *)

\* MUTANT: a running Operation is taken over without looking at its lease.
NotAcquirableIgnoringLease(at) ==
    state \in Terminal \/ (state = "RETRY_WAIT" /\ nextAttempt > at)

\* A terminal Operation, a live lease, a retry that is not due.
NotAcquirable(at) ==
    \/ state \in Terminal
    \/ state \in Leased /\ LeaseLive(at)
    \/ state = "RETRY_WAIT" /\ nextAttempt > at

AcquireRefused(c) ==
    /\ c.kind = "acquire"
    /\ NotAcquirable(c.at)
    /\ Returned(c)
    /\ UNCHANGED <<operation, attempts>>

\* The lease of a cancelled attempt ran out: acquiring completes the cancellation.
AcquireCancels(c) ==
    /\ c.kind = "acquire"
    /\ state = "CANCELLATION_REQUESTED" /\ ~LeaseLive(c.at)
    /\ attempts' = AttemptsClosed("CANCELLED", c.at)
    /\ Released("CANCELLED", nextAttempt)
    /\ Returned(c)

Acquirable(at) == state \in {"PENDING", "RUNNING", "RETRY_WAIT"} /\ ~NotAcquirable(at)

\* MUTANT: the attempt of the lost worker is recorded as a failure it reported.
RecoveredAsFailed(at) == IF state = "RUNNING" THEN AttemptsClosed("FAILED", at) ELSE attempts

\* The attempts as acquire_operation leaves the earlier ones.
Recovered(at) == IF state = "RUNNING" THEN AttemptsClosed("LEASE_EXPIRED", at) ELSE attempts

AcquireExhausts(c) ==
    /\ c.kind = "acquire"
    /\ Acquirable(c.at)
    /\ attemptCount >= MaxAttempts
    /\ attempts' = Recovered(c.at)
    /\ Released("FAILED", Null)
    /\ Returned(c)

AcquireGrants(c, d) ==
    /\ c.kind = "acquire"
    /\ Acquirable(c.at)
    /\ attemptCount < MaxAttempts
    /\ OperationGuard("RUNNING", attemptCount + 1)
    /\ state' = "RUNNING"
    /\ attemptCount' = attemptCount + 1
    /\ leaseToken' = attemptCount + 1
    /\ leaseExpires' = c.at + d
    /\ nextAttempt' = Null
    /\ attempts' = Append(Recovered(c.at),
           [worker |-> c.worker, token |-> attemptCount + 1, acquired |-> c.at,
            expires |-> c.at + d, finished |-> Null, outcome |-> "OPEN"])
    /\ Returned(c)

Acquire(c) ==
    \/ AcquireRefused(c)
    \/ AcquireCancels(c)
    \/ AcquireExhausts(c)
    \/ \E d \in Lease : AcquireGrants(c, d)

-------------------------------------------------------------------------------
(* renew_operation_lease                                                   *)

\* The check both renew_operation_lease and finish_operation make.
HoldsLease(c) == state \in Leased /\ leaseToken = c.token /\ LeaseLive(c.at)

\* The update of the attempts row may raise; then nothing is changed.
Renewable(c, d) ==
    /\ HoldsLease(c)
    /\ OperationGuard(state, attemptCount)
    /\ attempts[attemptCount].finished = Null
         => AttemptGuard(attempts[attemptCount], c.at + d)

Renewed(c, d) ==
    /\ leaseExpires' = c.at + d
    /\ attempts' = [i \in DOMAIN attempts |->
           IF i = attemptCount /\ attempts[i].finished = Null
           THEN [attempts[i] EXCEPT !.expires = c.at + d]
           ELSE attempts[i]]
    /\ UNCHANGED <<state, attemptCount, leaseToken, nextAttempt>>

Renew(c) ==
    /\ c.kind = "renew"
    /\ \E d \in Lease :
          \/ Renewable(c, d) /\ Renewed(c, d)
          \/ ~Renewable(c, d) /\ UNCHANGED <<operation, attempts>>
    /\ Returned(c)

-------------------------------------------------------------------------------
(* finish_operation                                                        *)

\* A resolution the state admits: a requested cancellation can only be
\* confirmed, and only a requested one.
Admitted(r) == (state = "CANCELLATION_REQUESTED") <=> (r = "CANCELLED")

\* MUTANT: a retry is scheduled whether or not an attempt is left.
FinalStateUnbudgeted(r) ==
    CASE r = "SUCCEEDED" -> "SUCCEEDED"
      [] r = "CANCELLED" -> "CANCELLED"
      [] r = "RETRY" -> "RETRY_WAIT"
      [] OTHER -> "FAILED"

\* RETRY without attempts left falls through to FAILED.
FinalState(r) ==
    CASE r = "SUCCEEDED" -> "SUCCEEDED"
      [] r = "CANCELLED" -> "CANCELLED"
      [] r = "RETRY" /\ attemptCount < MaxAttempts -> "RETRY_WAIT"
      [] OTHER -> "FAILED"

\* MUTANT: the state of the Operation is written as the outcome of the attempt.
OutcomeOfState(s) == s

OutcomeOf(s) == IF s = "RETRY_WAIT" THEN "RETRY_SCHEDULED" ELSE s

FinishAccepted(c, r, next) ==
    /\ HoldsLease(c) /\ Admitted(r)
    /\ FinalState(r) = "RETRY_WAIT" => next >= c.at
    /\ attempts' = IF attempts[attemptCount].token = c.token
                   THEN AttemptsClosed(OutcomeOf(FinalState(r)), c.at) ELSE attempts
    /\ Released(FinalState(r), IF FinalState(r) = "RETRY_WAIT" THEN next ELSE Null)

\* A stale lease, a resolution the state does not admit, a retry in the past.
FinishRefused(c, r, next) ==
    /\ \/ ~HoldsLease(c)
       \/ ~Admitted(r)
       \/ FinalState(r) = "RETRY_WAIT" /\ next < c.at
    /\ UNCHANGED <<operation, attempts>>

\* The retry time is an absolute time of the worker's clock, taken before the call.
Finish(c) ==
    /\ c.kind = "finish"
    /\ \E r \in Resolutions, d \in Delay \cup {-1} :
          /\ c.at + d \in Nat
          /\ FinishAccepted(c, r, c.at + d) \/ FinishRefused(c, r, c.at + d)
    /\ Returned(c)

-------------------------------------------------------------------------------
(* request_operation_cancellation                                          *)

CancelIdle(c) ==
    /\ c.kind = "cancel"
    /\ state \in {"PENDING", "RETRY_WAIT"}
    /\ OperationGuard("CANCELLED", attemptCount)
    /\ state' = "CANCELLED"
    /\ nextAttempt' = Null
    /\ UNCHANGED <<attemptCount, leaseToken, leaseExpires, attempts>>
    /\ Returned(c)

CancelRunning(c) ==
    /\ c.kind = "cancel"
    /\ state = "RUNNING"
    /\ OperationGuard("CANCELLATION_REQUESTED", attemptCount)
    /\ state' = "CANCELLATION_REQUESTED"
    /\ UNCHANGED <<attemptCount, leaseToken, leaseExpires, nextAttempt, attempts>>
    /\ Returned(c)

\* Terminal: raises.  Already requested: returns the state.
CancelNoop(c) ==
    /\ c.kind = "cancel"
    /\ state \in Terminal \cup {"CANCELLATION_REQUESTED"}
    /\ UNCHANGED <<operation, attempts>>
    /\ Returned(c)

Cancel(c) == CancelIdle(c) \/ CancelRunning(c) \/ CancelNoop(c)

-------------------------------------------------------------------------------

Tick ==
    /\ now < MaxTime
    /\ now' = now + 1
    /\ UNCHANGED <<operation, attempts, calls>>

Next ==
    \/ CallAcquire \/ CallRenew \/ CallFinish \/ CallCancel
    \/ \E c \in calls : Acquire(c) \/ Renew(c) \/ Finish(c) \/ Cancel(c)
    \/ Tick

Spec == Init /\ [][Next]_vars

-------------------------------------------------------------------------------
(* Properties                                                              *)

Open(i) == attempts[i].finished = Null

\* The two tables agree: an attempt is unfinished exactly when it is the last
\* one and the Operation is leased, and then the operations row carries its
\* token and its lease end; every other attempt has both an end and an outcome.
OneLiveAttempt ==
    /\ attemptCount = Len(attempts)
    /\ \A i \in DOMAIN attempts :
          /\ attempts[i].token = i
          /\ Open(i) <=> attempts[i].outcome = "OPEN"
          /\ Open(i) <=> i = attemptCount /\ state \in Leased
          /\ Open(i) => /\ leaseToken = attempts[i].token
                        /\ leaseExpires = attempts[i].expires
    /\ state \in Leased => attemptCount > 0
    /\ state \notin Leased => leaseToken = Null /\ leaseExpires = Null

\* Two attempts never overlap in recorded time, although a function's clock is
\* read before it gets the row lock: an attempt ends no earlier than it began
\* and no later than the next one began.
AttemptsDisjoint ==
    \A i \in DOMAIN attempts :
        /\ ~Open(i) => attempts[i].acquired <= attempts[i].finished
        /\ \A j \in DOMAIN attempts : i < j =>
              ~Open(i) /\ attempts[i].finished <= attempts[j].acquired

\* No Operation gets stuck on its own trigger: acquire_operation writes FAILED
\* from RETRY_WAIT or PENDING as readily as from RUNNING, guard_operation_update
\* allows it from RUNNING only, so an Operation that waits always has an attempt left.
WaitingHasBudget == state \in {"PENDING", "RETRY_WAIT"} => attemptCount < MaxAttempts

\* The lease protocol fences: an attempt is closed by a finish call that carries
\* its own token, or by an acquire call once its recorded lease end has passed.
\* No stale worker decides the outcome of someone else's attempt.
Fenced ==
    [][\A i \in DOMAIN attempts :
          Open(i) /\ attempts'[i].finished # Null =>
            \E c \in calls \ calls' :
               \/ c.kind = "finish" /\ c.token = attempts[i].token
                  /\ attempts'[i].outcome # "LEASE_EXPIRED"
               \/ c.kind = "acquire" /\ now >= attempts[i].expires
                  /\ attempts'[i].outcome \in {"LEASE_EXPIRED", "CANCELLED"}]_vars

\* While a lease is held its end only moves forward, although two renewals of
\* one token may get the row lock in the opposite order of their clocks.
LeaseNeverShrinks ==
    [][leaseToken # Null /\ leaseToken' = leaseToken => leaseExpires' >= leaseExpires]_vars

Lifecycle == INSTANCE OperationLifecycle WITH
    outcomes <- [i \in DOMAIN attempts |-> attempts[i].outcome]

\* The row-locked functions implement the lifecycle of operation.ts: whatever
\* calls race, every step is a lifecycle step or invisible.
ImplementsLifecycle == Lifecycle!Spec
===============================================================================
