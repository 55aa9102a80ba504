--------------------------- MODULE OperationsProofs ---------------------------
(***************************************************************************)
(* Theorems about Operations, for every number of workers, attempts, calls *)
(* and ticks: the two tables agree, attempts are disjoint, no Operation is *)
(* stuck on its own trigger, leases fence, and the functions implement the *)
(* lifecycle of OperationLifecycle.                                        *)
(***************************************************************************)
EXTENDS Operations, TLAPS

\* Calls were entered in the past, and a call that carries a token after the
\* attempt of that token had begun.
CallsEntered ==
    \A c \in calls :
        /\ c.at <= now
        /\ c.kind \in {"renew", "finish"} =>
              c.token \in DOMAIN attempts /\ attempts[c.token].acquired <= c.at

\* What the invariants need to be inductive: a lease ends after it begins, an
\* Operation is PENDING before its first attempt only, and a retry waits until
\* a time that is not before the end of the attempt that asked for it.
Timing ==
    /\ \A i \in DOMAIN attempts : attempts[i].acquired < attempts[i].expires
    /\ state = "PENDING" => attemptCount = 0
    /\ state = "RETRY_WAIT" =>
          attemptCount > 0 /\ nextAttempt # Null /\ attempts[attemptCount].finished <= nextAttempt

\* No attempt begins in the future.
AcquiredPast == \A i \in DOMAIN attempts : attempts[i].acquired <= now

Inv == TypeOK /\ CallsEntered /\ AcquiredPast /\ Timing
         /\ OneLiveAttempt /\ AttemptsDisjoint /\ WaitingHasBudget

-------------------------------------------------------------------------------
(* The attempts table                                                      *)

\* Closing the last attempt changes that row's end and outcome, nothing else.
LEMMA ClosedAttempts ==
    ASSUME TypeOK, OneLiveAttempt, state \in Leased, NEW at \in Nat, NEW o \in Outcomes
    PROVE  LET C == AttemptsClosed(o, at) IN
           /\ C \in Seq(Attempt) /\ Len(C) = Len(attempts)
           /\ attemptCount \in DOMAIN attempts
           /\ \A i \in DOMAIN attempts :
                 /\ C[i].token = attempts[i].token /\ C[i].acquired = attempts[i].acquired
                 /\ C[i].expires = attempts[i].expires
                 /\ i # attemptCount => C[i] = attempts[i]
           /\ C[attemptCount].finished = at /\ C[attemptCount].outcome = o
<1> DEFINE C == AttemptsClosed(o, at)
<1>1. /\ attempts \in Seq(Attempt) /\ attemptCount = Len(attempts) /\ attemptCount > 0
      /\ attemptCount \in DOMAIN attempts /\ Open(attemptCount)
  BY DEF TypeOK, OneLiveAttempt
<1>2. \A i \in DOMAIN attempts : attempts[i] \in Attempt
  BY <1>1
<1>3. DOMAIN C = DOMAIN attempts /\ DOMAIN attempts = 1..Len(attempts)
  BY <1>1 DEF AttemptsClosed
<1>4. \A i \in DOMAIN attempts : i # attemptCount => C[i] = attempts[i]
  BY DEF AttemptsClosed
<1>5. C[attemptCount] = [attempts[attemptCount] EXCEPT !.finished = at, !.outcome = o]
  BY <1>1 DEF AttemptsClosed, Open
<1>6. C[attemptCount] \in Attempt
  BY <1>1, <1>2, <1>5 DEF Attempt
<1>7. C \in Seq(Attempt) /\ Len(C) = Len(attempts)
  <2>1. \A i \in 1..Len(attempts) : C[i] \in Attempt
    BY <1>2, <1>3, <1>4, <1>6
  <2>2. C \in [1..Len(attempts) -> Attempt]
    BY <1>3, <2>1 DEF AttemptsClosed
  <2> QED BY <1>1, <2>2
<1>8. /\ C[attemptCount].token = attempts[attemptCount].token
      /\ C[attemptCount].acquired = attempts[attemptCount].acquired
      /\ C[attemptCount].expires = attempts[attemptCount].expires
      /\ C[attemptCount].finished = at /\ C[attemptCount].outcome = o
  BY <1>1, <1>2, <1>5 DEF Attempt
<1> HIDE DEF C
<1> QED BY <1>1, <1>4, <1>7, <1>8 DEF C

-------------------------------------------------------------------------------
(* What the actions come down to                                           *)

Same == UNCHANGED <<operation, attempts>>

\* The running attempt ends with the outcome o and the lease is given up.
Ends(c, o) ==
    /\ state \in Leased /\ attempts[attemptCount].acquired <= c.at
    /\ attempts' = AttemptsClosed(o, c.at)
    /\ state' \in States \ (Leased \cup {"PENDING"})
    /\ leaseToken' = Null /\ leaseExpires' = Null /\ UNCHANGED attemptCount
    /\ nextAttempt' \in Nat \cup {Null}
    /\ state' = "RETRY_WAIT" => attemptCount < MaxAttempts /\ nextAttempt' >= c.at
                                /\ nextAttempt' # Null

\* A new attempt begins; the one before it, if it was still open, was lost.
Begins(c, d) ==
    /\ state \in {"PENDING", "RUNNING", "RETRY_WAIT"}
    /\ state = "RUNNING" => attempts[attemptCount].expires <= c.at
    /\ state = "RETRY_WAIT" => nextAttempt <= c.at
    /\ attemptCount < MaxAttempts
    /\ state' = "RUNNING" /\ attemptCount' = attemptCount + 1
    /\ leaseToken' = attemptCount + 1 /\ leaseExpires' = c.at + d /\ nextAttempt' = Null
    /\ attempts' = Append(Recovered(c.at),
           [worker |-> c.worker, token |-> attemptCount + 1, acquired |-> c.at,
            expires |-> c.at + d, finished |-> Null, outcome |-> "OPEN"])

\* The open attempt's lease moves forward.
Prolongs(c, d) ==
    /\ state \in Leased /\ leaseExpires <= c.at + d
    /\ Renewed(c, d)

\* An entered call has read a clock.
LEMMA CallType ==
    ASSUME TypeOK, NEW c \in calls
    PROVE  /\ c.at \in Nat
           /\ c.kind = "acquire" => c.worker \in Workers
           /\ c.kind \in {"renew", "finish"} => c.token \in Nat
BY DEF TypeOK, Call

\* The last attempt of a leased Operation carries the lease of the row.
LEMMA LeasedAttempt ==
    ASSUME TypeOK, OneLiveAttempt, state \in Leased
    PROVE  /\ attemptCount \in DOMAIN attempts /\ attempts[attemptCount] \in Attempt
           /\ attempts[attemptCount].finished = Null
           /\ attempts[attemptCount].token = attemptCount
           /\ leaseToken = attemptCount
           /\ leaseExpires = attempts[attemptCount].expires /\ leaseExpires \in Nat
<1>1. attempts \in Seq(Attempt) /\ attemptCount \in DOMAIN attempts
  BY DEF TypeOK, OneLiveAttempt
<1>2. attempts[attemptCount] \in Attempt
  BY <1>1
<1> QED BY <1>1, <1>2 DEF OneLiveAttempt, Open, Attempt

\* acquire_operation: begins an attempt, or ends an operation without budget.
LEMMA AcquireEffect ==
    ASSUME Inv, NEW c \in calls, Acquire(c)
    PROVE  /\ c.kind = "acquire" /\ Returned(c)
           /\ \/ Same
              \/ state = "CANCELLATION_REQUESTED" /\ state' = "CANCELLED"
                 /\ leaseExpires <= c.at /\ Ends(c, "CANCELLED")
              \/ state = "RUNNING" /\ state' = "FAILED" /\ attemptCount >= MaxAttempts
                 /\ leaseExpires <= c.at /\ Ends(c, "LEASE_EXPIRED")
              \/ \E d \in Lease : Begins(c, d)
<1>1. TypeOK /\ OneLiveAttempt /\ c.at \in Nat
  BY CallType DEF Inv
<1>2. CASE AcquireRefused(c)
  BY <1>2 DEF AcquireRefused, Same
<1>3. CASE AcquireCancels(c)
  <2>1. state \in Leased /\ leaseExpires <= c.at
    BY <1>1, <1>3, LeasedAttempt DEF AcquireCancels, LeaseLive, Leased
  <2>2. attempts[attemptCount].acquired <= c.at
    <3>1. attempts[attemptCount].acquired < attempts[attemptCount].expires
      BY <1>1, <2>1, LeasedAttempt DEF Inv, Timing
    <3>2. attempts[attemptCount].acquired \in Nat /\ attempts[attemptCount].expires = leaseExpires
      BY <1>1, <2>1, LeasedAttempt DEF Attempt
    <3> QED BY <1>1, <2>1, <3>1, <3>2, LeasedAttempt
  <2> QED BY <1>1, <1>3, <2>1, <2>2
          DEF AcquireCancels, Released, Ends, Leased, States, TypeOK
<1>4. CASE AcquireExhausts(c)
  <2>1. state = "RUNNING"
    <3>1. attemptCount >= MaxAttempts /\ attemptCount \in Nat /\ MaxAttempts \in Nat
      BY <1>1, <1>4, OperationsAssumption DEF AcquireExhausts, TypeOK, OperationsAssumption
    <3>2. state \notin {"PENDING", "RETRY_WAIT"}
      BY <3>1 DEF Inv, WaitingHasBudget
    <3> QED BY <1>4, <3>2 DEF AcquireExhausts, Acquirable
  <2>2. leaseExpires <= c.at
    BY <1>1, <1>4, <2>1, LeasedAttempt
       DEF AcquireExhausts, Acquirable, NotAcquirable, LeaseLive, Leased
  <2>3. attempts[attemptCount].acquired <= c.at
    <3>1. attempts[attemptCount].acquired < attempts[attemptCount].expires
      BY <1>1, <2>1, LeasedAttempt DEF Inv, Timing, Leased
    <3>2. attempts[attemptCount].acquired \in Nat /\ attempts[attemptCount].expires = leaseExpires
      BY <1>1, <2>1, LeasedAttempt DEF Attempt, Leased
    <3> QED BY <1>1, <2>1, <2>2, <3>1, <3>2, LeasedAttempt DEF Leased
  <2>4. attempts' = AttemptsClosed("LEASE_EXPIRED", c.at)
    BY <1>4, <2>1 DEF AcquireExhausts, Recovered
  <2> QED BY <1>4, <2>1, <2>2, <2>3, <2>4
          DEF AcquireExhausts, Released, Ends, Leased, States
<1>5. ASSUME NEW d \in Lease, AcquireGrants(c, d) PROVE Begins(c, d)
  <2>1. state = "RUNNING" => attempts[attemptCount].expires <= c.at
    BY <1>1, <1>5, LeasedAttempt
       DEF AcquireGrants, Acquirable, NotAcquirable, LeaseLive, Leased
  <2>2. state = "RETRY_WAIT" => nextAttempt <= c.at
    BY <1>1, <1>5 DEF AcquireGrants, Acquirable, NotAcquirable, TypeOK, Null
  <2> QED BY <1>5, <2>1, <2>2 DEF AcquireGrants, Acquirable, Begins
<1> QED BY <1>2, <1>3, <1>4, <1>5
        DEF Acquire, AcquireRefused, AcquireCancels, AcquireExhausts, AcquireGrants

\* renew_operation_lease: moves the end of the lease.
LEMMA RenewEffect ==
    ASSUME Inv, NEW c \in calls, Renew(c)
    PROVE  /\ c.kind = "renew" /\ Returned(c)
           /\ Same \/ \E d \in Lease : Prolongs(c, d)
<1>1. PICK d \in Lease : \/ Renewable(c, d) /\ Renewed(c, d)
                         \/ Same
  BY DEF Renew, Same
<1>2. CASE Renewable(c, d) /\ Renewed(c, d)
  <2>1. state \in Leased
    BY <1>2 DEF Renewable, HoldsLease
  <2>2. leaseExpires <= c.at + d
    BY <1>2, <2>1, LeasedAttempt, CallType DEF Renewable, AttemptGuard, Inv, Lease
  <2> QED BY <1>2, <2>1, <2>2 DEF Prolongs, Renew
<1> QED BY <1>1, <1>2 DEF Renew

\* finish_operation: ends the attempt with its outcome.
LEMMA FinishEffect ==
    ASSUME Inv, NEW c \in calls, Finish(c)
    PROVE  /\ c.kind = "finish" /\ Returned(c)
           /\ \/ Same
              \/ \E r \in Resolutions :
                    /\ leaseToken = c.token /\ Admitted(r) /\ state' = FinalState(r)
                    /\ Ends(c, OutcomeOf(FinalState(r)))
<1>1. PICK r \in Resolutions, d \in Delay \cup {-1} :
         /\ c.at + d \in Nat
         /\ FinishAccepted(c, r, c.at + d) \/ Same
  BY DEF Finish, FinishRefused, Same
<1>2. CASE FinishAccepted(c, r, c.at + d)
  <2>1. state \in Leased /\ leaseToken = c.token /\ c.token = attemptCount
    BY <1>2, LeasedAttempt DEF FinishAccepted, HoldsLease, Inv
  <2>2. attempts' = AttemptsClosed(OutcomeOf(FinalState(r)), c.at)
    BY <1>2, <2>1, LeasedAttempt DEF FinishAccepted, Inv
  <2>3. attempts[attemptCount].acquired <= c.at
    BY <2>1 DEF Finish, Inv, CallsEntered
  <2>4. /\ FinalState(r) \in States \ (Leased \cup {"PENDING"})
        /\ FinalState(r) = "RETRY_WAIT" => attemptCount < MaxAttempts
    BY DEF FinalState, States, Leased, Resolutions
  <2>5. FinalState(r) = "RETRY_WAIT" => c.at + d >= c.at /\ c.at + d # Null
    BY <1>1, <1>2 DEF FinishAccepted, Null
  <2> QED BY <1>1, <1>2, <2>1, <2>2, <2>3, <2>4, <2>5
          DEF FinishAccepted, Released, Ends, Finish
<1> QED BY <1>1, <1>2 DEF Finish

-------------------------------------------------------------------------------
(* The invariant                                                           *)

\* A created operation satisfies the invariant.
LEMMA InitInv == Init => Inv
<1> SUFFICES ASSUME Init PROVE Inv
  OBVIOUS
<1>1. TypeOK
  BY OperationsAssumption
     DEF Init, TypeOK, States, Time, OperationsAssumption, Null
<1>2. CallsEntered /\ AcquiredPast /\ Timing /\ OneLiveAttempt /\ AttemptsDisjoint
  BY DEF Init, CallsEntered, AcquiredPast, Timing, OneLiveAttempt, AttemptsDisjoint, Leased
<1>3. WaitingHasBudget
  BY OperationsAssumption DEF Init, WaitingHasBudget, OperationsAssumption
<1> QED BY <1>1, <1>2, <1>3 DEF Inv

\* Nothing but the calls changes.
LEMMA SameInv ==
    ASSUME Inv, Same, now' = now, calls' \subseteq Call,
           \A c \in calls' : \/ c \in calls
                            \/ /\ c.at = now
                               /\ c.kind \in {"renew", "finish"} =>
                                    /\ c.token \in DOMAIN attempts
                                    /\ attempts[c.token].acquired <= c.at
    PROVE  Inv'
<1>1. TypeOK'
  BY DEF Inv, Same, operation, TypeOK
<1>2. now \in Nat
  BY OperationsAssumption DEF Inv, TypeOK, Time, OperationsAssumption
<1>3. CallsEntered'
  BY <1>2 DEF Inv, Same, CallsEntered
<1>4. AcquiredPast' /\ Timing' /\ OneLiveAttempt' /\ AttemptsDisjoint' /\ WaitingHasBudget'
  BY DEF Inv, Same, operation, AcquiredPast, Timing, OneLiveAttempt, AttemptsDisjoint,
         WaitingHasBudget, Open
<1> QED BY <1>1, <1>3, <1>4 DEF Inv

\* Ending an attempt keeps it.
LEMMA EndsInv ==
    ASSUME Inv, NEW c \in calls, Returned(c), NEW o \in Outcomes, Ends(c, o)
    PROVE  Inv'
<1> DEFINE n == attemptCount
<1>1. /\ attempts' \in Seq(Attempt) /\ Len(attempts') = Len(attempts) /\ n \in DOMAIN attempts
      /\ \A i \in DOMAIN attempts :
            /\ attempts'[i].token = attempts[i].token
            /\ attempts'[i].acquired = attempts[i].acquired
            /\ attempts'[i].expires = attempts[i].expires
            /\ i # n => attempts'[i] = attempts[i]
      /\ attempts'[n].finished = c.at /\ attempts'[n].outcome = o
  BY ClosedAttempts, CallType DEF Inv, Ends
<1>2. attempts \in Seq(Attempt) /\ n = Len(attempts) /\ DOMAIN attempts' = DOMAIN attempts
      /\ DOMAIN attempts = 1..n /\ n \in Nat /\ attemptCount' = n
  BY <1>1 DEF Inv, TypeOK, OneLiveAttempt, Ends
<1>3. c.at \in Nat /\ c.at # Null /\ o # "OPEN"
  BY CallType DEF Inv, Null, Outcomes
<1>4. \A i \in DOMAIN attempts : ~Open(i)'  /\ attempts'[i].outcome # "OPEN"
  BY <1>1, <1>2, <1>3 DEF Inv, OneLiveAttempt, Open
<1>5. TypeOK'
  BY <1>1, <1>2 DEF Inv, TypeOK, Ends, Returned
<1>6. CallsEntered'
  BY <1>1, <1>2 DEF Inv, CallsEntered, Returned
<1>7. AcquiredPast' /\ Timing'
  BY <1>1, <1>2 DEF Inv, AcquiredPast, Timing, Ends, Returned
<1>8. OneLiveAttempt'
  BY <1>1, <1>2, <1>4 DEF Inv, OneLiveAttempt, Ends, Leased
<1>9. AttemptsDisjoint'
  <2>1. attempts'[n].acquired <= attempts'[n].finished
    BY <1>1 DEF Ends
  <2>2. \A i \in DOMAIN attempts : attempts'[i].acquired <= attempts'[i].finished
    BY <1>1, <1>2, <1>4, <2>1 DEF Inv, AttemptsDisjoint, Open
  <2>3. \A i, j \in DOMAIN attempts : i < j => attempts'[i].finished <= attempts'[j].acquired
    BY <1>1, <1>2 DEF Inv, AttemptsDisjoint
  <2> QED BY <1>2, <1>4, <2>2, <2>3 DEF AttemptsDisjoint
<1>10. WaitingHasBudget'
  BY <1>2 DEF Ends, WaitingHasBudget
<1> QED BY <1>5, <1>6, <1>7, <1>8, <1>9, <1>10 DEF Inv

\* The attempts as a new one finds them: all closed, in order, before it begins.
LEMMA RecoveredAttempts ==
    ASSUME Inv, NEW c \in calls, NEW d \in Lease, Begins(c, d)
    PROVE  LET R == Recovered(c.at) IN
           /\ R \in Seq(Attempt) /\ Len(R) = attemptCount
           /\ \A i \in 1..attemptCount :
                 /\ R[i].token = i /\ R[i].acquired = attempts[i].acquired
                 /\ R[i].expires = attempts[i].expires
                 /\ R[i].finished # Null /\ R[i].outcome # "OPEN"
                 /\ R[i].acquired <= R[i].finished /\ R[i].finished <= c.at
           /\ \A i, j \in 1..attemptCount : i < j => R[i].finished <= R[j].acquired
<1> DEFINE R == Recovered(c.at)
           n == attemptCount
<1>1. /\ attempts \in Seq(Attempt) /\ n = Len(attempts) /\ n \in Nat /\ DOMAIN attempts = 1..n
      /\ c.at \in Nat /\ TypeOK /\ OneLiveAttempt
      /\ \A i \in 1..n : attempts[i] \in Attempt
  BY CallType DEF Inv, TypeOK, OneLiveAttempt
<1>2. CASE state = "RUNNING"
  <2>1. R = AttemptsClosed("LEASE_EXPIRED", c.at) /\ state \in Leased
    BY <1>2 DEF Recovered, Leased
  <2>2. /\ R \in Seq(Attempt) /\ Len(R) = n /\ n \in 1..n
        /\ \A i \in 1..n : /\ R[i].token = attempts[i].token /\ R[i].acquired = attempts[i].acquired
                           /\ R[i].expires = attempts[i].expires
                           /\ i # n => R[i] = attempts[i]
        /\ R[n].finished = c.at /\ R[n].outcome = "LEASE_EXPIRED"
    <3> DEFINE C == AttemptsClosed("LEASE_EXPIRED", c.at)
    <3>1. "LEASE_EXPIRED" \in Outcomes
      BY DEF Outcomes
    <3>2. /\ C \in Seq(Attempt) /\ Len(C) = Len(attempts) /\ n \in DOMAIN attempts
          /\ \A i \in DOMAIN attempts :
                /\ C[i].token = attempts[i].token /\ C[i].acquired = attempts[i].acquired
                /\ C[i].expires = attempts[i].expires
                /\ i # n => C[i] = attempts[i]
          /\ C[n].finished = c.at /\ C[n].outcome = "LEASE_EXPIRED"
      BY <1>1, <2>1, <3>1, ClosedAttempts
    <3>3. R = C
      BY <2>1
    <3> HIDE DEF R, C
    <3> QED BY <1>1, <3>2, <3>3
  <2>3. attempts[n].acquired <= c.at
    <3>1. attempts[n].acquired < attempts[n].expires /\ attempts[n].expires <= c.at
      BY <1>1, <1>2, <2>2 DEF Begins, Inv, Timing
    <3>2. attempts[n].acquired \in Nat /\ attempts[n].expires \in Nat
      BY <1>1, <2>2 DEF Attempt
    <3> QED BY <1>1, <3>1, <3>2
  <2>4. \A i \in 1..n : i # n => /\ attempts[i].finished # Null /\ attempts[i].outcome # "OPEN"
                                /\ attempts[i].acquired <= attempts[i].finished
                                /\ attempts[i].finished <= attempts[n].acquired
    BY <1>1, <2>2 DEF Inv, OneLiveAttempt, AttemptsDisjoint, Open
  <2>5. \A i \in 1..n : /\ attempts[i].acquired \in Nat /\ attempts[i].finished \in Nat \cup {Null}
                       /\ attempts[i].token = i
    BY <1>1 DEF Attempt, OneLiveAttempt
  <2>6. \A i \in 1..n : /\ R[i].finished # Null /\ R[i].outcome # "OPEN"
                       /\ R[i].acquired <= R[i].finished /\ R[i].finished <= c.at
    BY <1>1, <2>2, <2>3, <2>4, <2>5 DEF Null
  <2>7. \A i, j \in 1..n : i < j => R[i].finished <= R[j].acquired
    BY <1>1, <2>2 DEF Inv, AttemptsDisjoint
  <2> HIDE DEF R
  <2> QED BY <1>1, <2>2, <2>5, <2>6, <2>7 DEF R
<1>3. CASE state # "RUNNING"
  <2>1. R = attempts
    BY <1>3 DEF Recovered
  <2>2. \A i \in 1..n : attempts[i].finished # Null /\ attempts[i].outcome # "OPEN"
                       /\ attempts[i].token = i
                       /\ attempts[i].acquired <= attempts[i].finished
    BY <1>1, <1>3 DEF Inv, OneLiveAttempt, AttemptsDisjoint, Open, Begins, Leased
  <2>3. \A i \in 1..n : attempts[i].acquired \in Nat /\ attempts[i].finished \in Nat
    BY <1>1, <2>2 DEF Attempt
  <2>4. \A i, j \in 1..n : i < j => attempts[i].finished <= attempts[j].acquired
    BY <1>1 DEF Inv, AttemptsDisjoint
  <2>5. n > 0 => attempts[n].finished <= c.at
    <3>1. CASE state = "PENDING"
      BY <1>1, <3>1 DEF Inv, Timing
    <3>2. CASE state = "RETRY_WAIT"
      <4>1. n > 0 /\ attempts[n].finished <= nextAttempt /\ nextAttempt <= c.at
            /\ nextAttempt \in Nat
        BY <1>1, <3>2 DEF Inv, Timing, Begins, TypeOK, Null
      <4>2. attempts[n].finished \in Nat
        BY <1>1, <2>3, <4>1
      <4> QED BY <1>1, <4>1, <4>2
    <3> QED BY <1>3, <3>1, <3>2 DEF Begins
  <2>6. \A i \in 1..n : attempts[i].finished <= c.at
    <3> SUFFICES ASSUME NEW i \in 1..n PROVE attempts[i].finished <= c.at
      OBVIOUS
    <3>1. CASE i = n
      BY <1>1, <2>5, <3>1
    <3>2. CASE i < n
      BY <1>1, <2>2, <2>3, <2>4, <2>5, <3>2
    <3> QED BY <1>1, <3>1, <3>2
  <2> QED BY <1>1, <2>1, <2>2, <2>4, <2>6
<1> QED BY <1>2, <1>3

\* Beginning one keeps it, the recovery of an expired one included.
LEMMA BeginsInv ==
    ASSUME Inv, NEW c \in calls, c.kind = "acquire", Returned(c), NEW d \in Lease, Begins(c, d)
    PROVE  Inv'
<1> DEFINE R == Recovered(c.at)
           n == attemptCount
           a == [worker |-> c.worker, token |-> n + 1, acquired |-> c.at,
                 expires |-> c.at + d, finished |-> Null, outcome |-> "OPEN"]
<1>1. /\ c.at \in Nat /\ c.worker \in Workers /\ n \in Nat /\ c.at + d \in Nat /\ c.at < c.at + d
      /\ DOMAIN attempts = 1..n
  BY CallType, OperationsAssumption
     DEF Inv, TypeOK, OneLiveAttempt, Lease, OperationsAssumption
<1>2. a \in Attempt
  BY <1>1 DEF Attempt
<1>3. /\ R \in Seq(Attempt) /\ Len(R) = n
      /\ \A i \in 1..n :
            /\ R[i].token = i /\ R[i].acquired = attempts[i].acquired
            /\ R[i].expires = attempts[i].expires
            /\ R[i].finished # Null /\ R[i].outcome # "OPEN"
            /\ R[i].acquired <= R[i].finished /\ R[i].finished <= c.at
      /\ \A i, j \in 1..n : i < j => R[i].finished <= R[j].acquired
  BY RecoveredAttempts
<1>4. attempts' = Append(R, a)
  BY DEF Begins
<1> HIDE DEF R
<1>5. /\ attempts' \in Seq(Attempt) /\ Len(attempts') = n + 1 /\ DOMAIN attempts' = 1..(n + 1)
      /\ attempts'[n + 1] = a /\ \A i \in 1..n : attempts'[i] = R[i]
  BY <1>1, <1>2, <1>3, <1>4
<1>6. /\ state' = "RUNNING" /\ attemptCount' = n + 1 /\ leaseToken' = n + 1
      /\ leaseExpires' = c.at + d /\ nextAttempt' = Null /\ n < MaxAttempts
  BY DEF Begins
<1>7. TypeOK'
  BY <1>1, <1>5, <1>6, OperationsAssumption
     DEF Inv, TypeOK, Returned, States, OperationsAssumption
<1>8. CallsEntered'
  <2>1. \A x \in calls : x.kind \in {"renew", "finish"} =>
            x.token \in DOMAIN attempts' /\ attempts'[x.token].acquired <= x.at
    BY <1>1, <1>3, <1>5 DEF Inv, CallsEntered
  <2> QED BY <2>1 DEF Inv, CallsEntered, Returned
<1>9. Timing'
  <2>1. \A i \in 1..n : attempts'[i].acquired < attempts'[i].expires
    <3>1. \A i \in 1..n : attempts[i].acquired < attempts[i].expires
      BY <1>1 DEF Inv, Timing
    <3>2. \A i \in 1..n : /\ attempts'[i].acquired = attempts[i].acquired
                         /\ attempts'[i].expires = attempts[i].expires
      BY <1>3, <1>5
    <3> QED BY <3>1, <3>2
  <2>2. attempts'[n + 1].acquired < attempts'[n + 1].expires
    BY <1>1, <1>5
  <2>3. \A i \in 1..(n + 1) : i \in 1..n \/ i = n + 1
    BY <1>1
  <2> QED BY <1>5, <1>6, <2>1, <2>2, <2>3 DEF Timing
<1>10. \A i \in 1..n : ~Open(i)' /\ attempts'[i].outcome # "OPEN" /\ attempts'[i].token = i
  BY <1>3, <1>5 DEF Open
<1>11. attempts'[n + 1].finished = Null /\ attempts'[n + 1].outcome = "OPEN" /\ attempts'[n + 1].token = n + 1
       /\ attempts'[n + 1].expires = c.at + d /\ attempts'[n + 1].acquired = c.at
  BY <1>5
<1>12. OneLiveAttempt'
  <2>1. \A i \in 1..(n + 1) : (i \in 1..n /\ i # n + 1) \/ i = n + 1
    BY <1>1
  <2> QED BY <1>1, <1>5, <1>6, <1>10, <1>11, <2>1 DEF OneLiveAttempt, Open, Leased
<1>13. AttemptsDisjoint'
  <2> SUFFICES ASSUME NEW i \in 1..(n + 1)
               PROVE  /\ ~Open(i)' => attempts'[i].acquired <= attempts'[i].finished
                      /\ \A j \in 1..(n + 1) : i < j =>
                            ~Open(i)' /\ attempts'[i].finished <= attempts'[j].acquired
    BY <1>5 DEF AttemptsDisjoint
  <2>1. CASE i = n + 1
    BY <1>1, <1>11, <2>1 DEF Open
  <2>2. CASE i \in 1..n
    <3>1. attempts'[i].acquired <= attempts'[i].finished /\ ~Open(i)'
      BY <1>3, <1>5, <1>10, <2>2
    <3>2. ASSUME NEW j \in 1..(n + 1), i < j PROVE attempts'[i].finished <= attempts'[j].acquired
      <4>1. CASE j = n + 1
        BY <1>3, <1>5, <1>11, <2>2, <4>1
      <4>2. CASE j \in 1..n
        BY <1>3, <1>5, <2>2, <3>2, <4>2
      <4> QED BY <1>1, <4>1, <4>2
    <3> QED BY <3>1, <3>2
  <2> QED BY <1>1, <2>1, <2>2
<1>14. WaitingHasBudget'
  BY <1>6 DEF WaitingHasBudget
<1>15. AcquiredPast'
  <2>1. c.at <= now /\ \A i \in 1..n : attempts[i].acquired <= now
    BY <1>1 DEF Inv, CallsEntered, AcquiredPast
  <2>2. \A i \in 1..(n + 1) : i \in 1..n \/ i = n + 1
    BY <1>1
  <2> QED BY <1>3, <1>5, <1>11, <2>1, <2>2 DEF AcquiredPast, Returned
<1> QED BY <1>7, <1>8, <1>9, <1>12, <1>13, <1>14, <1>15 DEF Inv

\* A renewal changes the end of the open attempt and of the lease together.
LEMMA ProlongedAttempts ==
    ASSUME Inv, NEW c \in calls, NEW d \in Lease, Prolongs(c, d)
    PROVE  /\ attempts' \in Seq(Attempt) /\ Len(attempts') = Len(attempts)
           /\ attemptCount \in DOMAIN attempts /\ c.at + d \in Nat
           /\ \A i \in DOMAIN attempts :
                 /\ attempts'[i].token = attempts[i].token
                 /\ attempts'[i].acquired = attempts[i].acquired
                 /\ attempts'[i].finished = attempts[i].finished
                 /\ attempts'[i].outcome = attempts[i].outcome
                 /\ i # attemptCount => attempts'[i] = attempts[i]
           /\ attempts'[attemptCount].expires = c.at + d
           /\ attempts[attemptCount].expires = leaseExpires
<1> DEFINE n == attemptCount
<1>1. /\ attempts \in Seq(Attempt) /\ n = Len(attempts) /\ n \in DOMAIN attempts
      /\ DOMAIN attempts = 1..n /\ attempts[n].finished = Null
      /\ leaseExpires = attempts[n].expires
      /\ \A i \in DOMAIN attempts : attempts[i] \in Attempt
  BY LeasedAttempt DEF Inv, TypeOK, OneLiveAttempt, Prolongs
<1>2. c.at + d \in Nat
  BY CallType, OperationsAssumption DEF Inv, Lease, OperationsAssumption
<1>3. DOMAIN attempts' = DOMAIN attempts
      /\ (\A i \in DOMAIN attempts : i # n => attempts'[i] = attempts[i])
      /\ attempts'[n] = [attempts[n] EXCEPT !.expires = c.at + d]
  BY <1>1 DEF Prolongs, Renewed
<1>4. attempts'[n] \in Attempt
  BY <1>1, <1>2, <1>3 DEF Attempt
<1>5. attempts' \in Seq(Attempt) /\ Len(attempts') = Len(attempts)
  <2>1. \A i \in 1..n : attempts'[i] \in Attempt
    BY <1>1, <1>3, <1>4
  <2>2. attempts' \in [1..n -> Attempt]
    BY <1>1, <2>1 DEF Prolongs, Renewed
  <2> QED BY <1>1, <2>2
<1>6. /\ attempts'[n].token = attempts[n].token /\ attempts'[n].acquired = attempts[n].acquired
      /\ attempts'[n].finished = attempts[n].finished /\ attempts'[n].outcome = attempts[n].outcome
      /\ attempts'[n].expires = c.at + d
  BY <1>1, <1>3 DEF Attempt
<1> QED BY <1>1, <1>2, <1>3, <1>5, <1>6

\* Renewing a lease keeps it.
LEMMA ProlongsInv ==
    ASSUME Inv, NEW c \in calls, Returned(c), NEW d \in Lease, Prolongs(c, d)
    PROVE  Inv'
<1> DEFINE n == attemptCount
<1>1. /\ attempts' \in Seq(Attempt) /\ Len(attempts') = Len(attempts)
      /\ n \in DOMAIN attempts /\ c.at + d \in Nat
      /\ \A i \in DOMAIN attempts :
            /\ attempts'[i].token = attempts[i].token
            /\ attempts'[i].acquired = attempts[i].acquired
            /\ attempts'[i].finished = attempts[i].finished
            /\ attempts'[i].outcome = attempts[i].outcome
            /\ i # n => attempts'[i] = attempts[i]
      /\ attempts'[n].expires = c.at + d /\ attempts[n].expires = leaseExpires
  BY ProlongedAttempts
<1>2. /\ attempts \in Seq(Attempt) /\ n = Len(attempts) /\ DOMAIN attempts' = DOMAIN attempts
      /\ leaseExpires' = c.at + d /\ attempts[n].expires <= c.at + d
      /\ UNCHANGED <<state, attemptCount, leaseToken, nextAttempt>>
  BY <1>1 DEF Inv, TypeOK, OneLiveAttempt, Prolongs, Renewed
<1>3. TypeOK'
  BY <1>1, <1>2 DEF Inv, TypeOK, Returned
<1>4. CallsEntered'
  BY <1>1, <1>2 DEF Inv, CallsEntered, Returned
<1>5. Timing'
  <2>0. attempts[n] \in Attempt
    BY <1>1, <1>2
  <2>1. attempts[n].acquired < attempts[n].expires
        /\ attempts[n].acquired \in Nat /\ attempts[n].expires \in Nat
    BY <1>1, <2>0 DEF Inv, Timing, Attempt
  <2>2. attempts'[n].acquired < attempts'[n].expires
    BY <1>1, <1>2, <2>1
  <2> QED BY <1>1, <1>2, <2>2 DEF Inv, Timing
<1>6. OneLiveAttempt'
  <2>1. \A i \in DOMAIN attempts :
          /\ attempts[i].token = i
          /\ attempts[i].finished = Null <=> attempts[i].outcome = "OPEN"
          /\ attempts[i].finished = Null <=> i = n /\ state \in Leased
          /\ attempts[i].finished = Null => leaseToken = attempts[i].token
    BY DEF Inv, OneLiveAttempt, Open
  <2>2. n = Len(attempts) /\ state \in Leased /\ n > 0
    BY DEF Inv, OneLiveAttempt, Prolongs
  <2> QED BY <1>1, <1>2, <2>1, <2>2 DEF OneLiveAttempt, Open
<1>7. AttemptsDisjoint'
  BY <1>1, <1>2 DEF Inv, AttemptsDisjoint, Open
<1>8. WaitingHasBudget' /\ AcquiredPast'
  BY <1>1, <1>2 DEF Inv, WaitingHasBudget, AcquiredPast, Returned
<1> QED BY <1>3, <1>4, <1>5, <1>6, <1>7, <1>8 DEF Inv

\* Cancelling keeps it.
LEMMA CancelInv ==
    ASSUME Inv, NEW c \in calls, Cancel(c)
    PROVE  Inv'
<1>1. CASE CancelIdle(c)
  BY <1>1 DEF CancelIdle, Inv, TypeOK, CallsEntered, AcquiredPast, Timing, OneLiveAttempt,
              AttemptsDisjoint, WaitingHasBudget, Open, Returned, States, Leased
<1>2. CASE CancelRunning(c)
  BY <1>2 DEF CancelRunning, Inv, TypeOK, CallsEntered, AcquiredPast, Timing, OneLiveAttempt,
              AttemptsDisjoint, WaitingHasBudget, Open, Returned, States, Leased
<1>3. CASE CancelNoop(c)
  BY <1>3, SameInv DEF CancelNoop, Same, Returned, Inv, TypeOK
<1> QED BY <1>1, <1>2, <1>3 DEF Cancel

\* Every step keeps it.
LEMMA NextInv == Inv /\ [Next]_vars => Inv'
<1> SUFFICES ASSUME Inv, [Next]_vars PROVE Inv'
  OBVIOUS
<1>a. now \in Nat /\ attempts \in Seq(Attempt) /\ calls \subseteq Call
  BY OperationsAssumption DEF Inv, TypeOK, Time, OperationsAssumption
<1>b. ASSUME NEW c \in calls, Returned(c), Same PROVE Inv'
  BY <1>a, <1>b, SameInv DEF Returned
<1>1. CASE CallAcquire
  <2>1. PICK w \in Workers : Enter([kind |-> "acquire", worker |-> w, at |-> now])
    BY <1>1 DEF CallAcquire
  <2>2. [kind |-> "acquire", worker |-> w, at |-> now] \in Call
    BY <1>a DEF Call
  <2> QED BY <1>a, <2>1, <2>2, SameInv DEF Enter, Same
<1>2. ASSUME NEW k \in {"renew", "finish"}, NEW i \in DOMAIN attempts,
             Enter([kind |-> k, token |-> attempts[i].token, at |-> now])
      PROVE  Inv'
  <2> DEFINE c == [kind |-> k, token |-> attempts[i].token, at |-> now]
  <2>1. attempts[i].token = i /\ i \in Nat
    BY <1>a DEF Inv, OneLiveAttempt
  <2>2. c \in Call
    BY <1>a, <2>1 DEF Call
  <2>3. attempts[i].acquired <= now
    BY DEF Inv, AcquiredPast
  <2> QED BY <1>a, <1>2, <2>1, <2>2, <2>3, SameInv DEF Enter, Same
<1>3. CASE CallRenew
  BY <1>2, <1>3 DEF CallRenew
<1>4. CASE CallFinish
  BY <1>2, <1>4 DEF CallFinish
<1>5. CASE CallCancel
  <2>1. [kind |-> "cancel", at |-> now] \in Call
    BY <1>a DEF Call
  <2> QED BY <1>5, <1>a, <2>1, SameInv DEF CallCancel, Enter, Same
<1>6. ASSUME NEW c \in calls, Acquire(c) PROVE Inv'
  BY <1>b, <1>6, AcquireEffect, EndsInv, BeginsInv DEF Outcomes
<1>7. ASSUME NEW c \in calls, Renew(c) PROVE Inv'
  BY <1>b, <1>7, RenewEffect, ProlongsInv
<1>8. ASSUME NEW c \in calls, Finish(c) PROVE Inv'
  <2>1. \A r \in Resolutions : OutcomeOf(FinalState(r)) \in Outcomes
    BY DEF OutcomeOf, FinalState, Outcomes, Resolutions
  <2> QED BY <1>b, <1>8, <2>1, FinishEffect, EndsInv
<1>9. CASE Tick
  <2>1. \A c \in calls : c.at \in Nat
    BY CallType DEF Inv
  <2>2. now' \in Time /\ now < now'
    BY <1>9, <1>a, OperationsAssumption DEF Tick, Time, OperationsAssumption
  <2>3. UNCHANGED <<operation, attempts, calls>>
    BY <1>9 DEF Tick
  <2>4. TypeOK'
    BY <2>2, <2>3 DEF Inv, TypeOK, operation
  <2>5. CallsEntered'
    BY <1>a, <1>9, <2>1, <2>3 DEF Inv, CallsEntered, Tick
  <2>6. AcquiredPast'
    <3>1. \A i \in DOMAIN attempts : attempts[i].acquired \in Nat
      <4>1. \A i \in DOMAIN attempts : attempts[i] \in Attempt
        BY <1>a
      <4> QED BY <4>1 DEF Attempt
    <3> QED BY <1>a, <1>9, <2>3, <3>1 DEF Inv, AcquiredPast, Tick
  <2>7. Timing' /\ OneLiveAttempt' /\ AttemptsDisjoint' /\ WaitingHasBudget'
    BY <2>3 DEF Inv, operation, Timing, OneLiveAttempt, AttemptsDisjoint, WaitingHasBudget, Open
  <2> QED BY <2>4, <2>5, <2>6, <2>7 DEF Inv
<1>10. CASE UNCHANGED vars
  BY <1>10 DEF vars, Inv, TypeOK, CallsEntered, AcquiredPast, Timing, OneLiveAttempt,
               AttemptsDisjoint, WaitingHasBudget, Open
<1> QED BY <1>1, <1>3, <1>4, <1>5, <1>6, <1>7, <1>8, <1>9, <1>10, CancelInv DEF Next

\* The invariant holds throughout.
LEMMA Invariance == Spec => []Inv
BY InitInv, NextInv, PTL DEF Spec

\* The columns keep their types, whatever calls race for the row.
THEOREM TypeCorrect == Spec => []TypeOK
<1>1. Inv => TypeOK
  BY DEF Inv
<1> QED BY <1>1, Invariance, PTL

\* operations and operation_attempts agree on which attempt runs, under which
\* token and until when.
THEOREM AttemptsAgree == Spec => []OneLiveAttempt
<1>1. Inv => OneLiveAttempt
  BY DEF Inv
<1> QED BY <1>1, Invariance, PTL

\* No two attempts overlap in recorded time, although every call reads its
\* clock before it gets the row lock.
THEOREM AttemptsNeverOverlap == Spec => []AttemptsDisjoint
<1>1. Inv => AttemptsDisjoint
  BY DEF Inv
<1> QED BY <1>1, Invariance, PTL

\* acquire_operation never runs into guard_operation_update: an Operation that
\* waits has an attempt left.
THEOREM WaitingCanRun == Spec => []WaitingHasBudget
<1>1. Inv => WaitingHasBudget
  BY DEF Inv
<1> QED BY <1>1, Invariance, PTL

-------------------------------------------------------------------------------
(* What a step may never do                                                *)

\* A step that changes a row is the return of one call.
Effect ==
    \/ Same
    \/ \E c \in calls : Returned(c) /\
         \/ /\ c.kind = "acquire" /\ leaseExpires <= c.at
            /\ \/ state = "CANCELLATION_REQUESTED" /\ state' = "CANCELLED" /\ Ends(c, "CANCELLED")
               \/ /\ state = "RUNNING" /\ state' = "FAILED" /\ attemptCount >= MaxAttempts
                  /\ Ends(c, "LEASE_EXPIRED")
         \/ c.kind = "acquire" /\ \E d \in Lease : Begins(c, d)
         \/ \E d \in Lease : Prolongs(c, d)
         \/ /\ c.kind = "finish" /\ leaseToken = c.token
            /\ \E r \in Resolutions : /\ Admitted(r) /\ state' = FinalState(r)
                                      /\ Ends(c, OutcomeOf(FinalState(r)))
         \/ CancelIdle(c) \/ CancelRunning(c)

\* A step is one of four effects on the row and its attempts.
LEMMA StepEffect == Inv /\ [Next]_vars => Effect
<1> SUFFICES ASSUME Inv, [Next]_vars PROVE Effect
  OBVIOUS
<1>1. CASE CallAcquire \/ CallRenew \/ CallFinish \/ CallCancel \/ Tick
  BY <1>1 DEF CallAcquire, CallRenew, CallFinish, CallCancel, Tick, Enter, Same, Effect
<1>2. ASSUME NEW c \in calls, Acquire(c) PROVE Effect
  BY <1>2, AcquireEffect DEF Effect
<1>3. ASSUME NEW c \in calls, Renew(c) PROVE Effect
  BY <1>3, RenewEffect DEF Effect
<1>4. ASSUME NEW c \in calls, Finish(c) PROVE Effect
  BY <1>4, FinishEffect DEF Effect
<1>5. ASSUME NEW c \in calls, Cancel(c) PROVE Effect
  BY <1>5 DEF Cancel, CancelNoop, CancelIdle, CancelRunning, Same, Effect
<1>6. CASE UNCHANGED vars
  BY <1>6 DEF vars, operation, Same, Effect
<1> QED BY <1>1, <1>2, <1>3, <1>4, <1>5, <1>6 DEF Next

\* A stale worker never decides the outcome of an attempt: finish closes the
\* attempt of its own token, acquire one whose recorded lease has run out.
THEOREM LeasesFence == Spec => Fenced
<1> DEFINE A == \A i \in DOMAIN attempts :
          Open(i) /\ attempts'[i].finished # Null =>
            \E c \in calls \ calls' :
               \/ c.kind = "finish" /\ c.token = attempts[i].token
                  /\ attempts'[i].outcome # "LEASE_EXPIRED"
               \/ c.kind = "acquire" /\ now >= attempts[i].expires
                  /\ attempts'[i].outcome \in {"LEASE_EXPIRED", "CANCELLED"}
<1>1. ASSUME Inv, [Next]_vars PROVE A
  <2> SUFFICES ASSUME NEW i \in DOMAIN attempts, Open(i), attempts'[i].finished # Null
               PROVE  \E c \in calls \ calls' :
                        \/ c.kind = "finish" /\ c.token = attempts[i].token
                           /\ attempts'[i].outcome # "LEASE_EXPIRED"
                        \/ c.kind = "acquire" /\ now >= attempts[i].expires
                           /\ attempts'[i].outcome \in {"LEASE_EXPIRED", "CANCELLED"}
    OBVIOUS
  <2>1. /\ i = attemptCount /\ state \in Leased /\ attempts \in Seq(Attempt)
        /\ DOMAIN attempts = 1..attemptCount /\ attemptCount \in Nat
        /\ now \in Nat /\ TypeOK /\ OneLiveAttempt
    <3>1. TypeOK /\ OneLiveAttempt
      BY <1>1 DEF Inv
    <3>2. attempts \in Seq(Attempt) /\ attemptCount = Len(attempts) /\ now \in Nat
      BY <3>1, OperationsAssumption DEF OneLiveAttempt, TypeOK, Time, OperationsAssumption
    <3>3. i = attemptCount /\ state \in Leased
      BY <3>1 DEF OneLiveAttempt
    <3> QED BY <3>1, <3>2, <3>3
  <2>2. /\ leaseToken = attempts[i].token /\ leaseExpires = attempts[i].expires
        /\ leaseExpires \in Nat
    BY <2>1, LeasedAttempt
  <2>3. ~Same
    BY DEF Same, Open
  <2>4. PICK c \in calls : Returned(c) /\
         \/ /\ c.kind = "acquire" /\ leaseExpires <= c.at
            /\ Ends(c, "CANCELLED") \/ Ends(c, "LEASE_EXPIRED")
         \/ c.kind = "acquire" /\ \E d \in Lease : Begins(c, d)
         \/ \E d \in Lease : Prolongs(c, d)
         \/ /\ c.kind = "finish" /\ leaseToken = c.token
            /\ \E r \in Resolutions : Ends(c, OutcomeOf(FinalState(r)))
         \/ CancelIdle(c) \/ CancelRunning(c)
    BY <1>1, <2>3, StepEffect DEF Effect
  <2>5. c.at \in Nat /\ c.at <= now /\ c \in calls \ calls'
    BY <2>1, <2>4, <1>1, CallType DEF Inv, CallsEntered, Returned
  <2>6. ASSUME NEW o \in Outcomes, Ends(c, o) PROVE attempts'[i].outcome = o
    BY <2>1, <2>5, <2>6, ClosedAttempts DEF Ends
  <2>7. CASE c.kind = "acquire" /\ leaseExpires <= c.at
             /\ (Ends(c, "CANCELLED") \/ Ends(c, "LEASE_EXPIRED"))
    <3>1. attempts'[i].outcome \in {"LEASE_EXPIRED", "CANCELLED"}
      BY <2>6, <2>7 DEF Outcomes
    <3>2. now >= attempts[i].expires
      BY <2>1, <2>2, <2>5, <2>7
    <3> QED BY <2>5, <2>7, <3>1, <3>2
  <2>8. ASSUME c.kind = "acquire", NEW d \in Lease, Begins(c, d)
        PROVE  now >= attempts[i].expires /\ attempts'[i].outcome = "LEASE_EXPIRED"
    <3>1. state = "RUNNING"
      BY <2>1, <2>8 DEF Begins, Leased
    <3>2. LET R == AttemptsClosed("LEASE_EXPIRED", c.at) IN
          /\ R \in Seq(Attempt) /\ Len(R) = attemptCount /\ R[i].outcome = "LEASE_EXPIRED"
      <4>1. "LEASE_EXPIRED" \in Outcomes
        BY DEF Outcomes
      <4>2. attemptCount = Len(attempts)
        BY <2>1 DEF OneLiveAttempt
      <4> QED BY <2>1, <2>5, <4>1, <4>2, ClosedAttempts
    <3>3. attempts'[i] = AttemptsClosed("LEASE_EXPIRED", c.at)[i]
      BY <2>1, <2>8, <3>1, <3>2 DEF Begins, Recovered
    <3>4. attempts[i].expires <= c.at
      BY <2>1, <2>8, <3>1 DEF Begins
    <3> QED BY <2>1, <2>2, <2>5, <3>2, <3>3, <3>4
  <2>9. ASSUME NEW d \in Lease, Prolongs(c, d) PROVE FALSE
    BY <1>1, <2>1, <2>9, ProlongedAttempts DEF Open
  <2>10. CASE c.kind = "finish" /\ leaseToken = c.token
              /\ \E r \in Resolutions : Ends(c, OutcomeOf(FinalState(r)))
    <3>1. \A r \in Resolutions : OutcomeOf(FinalState(r)) \in Outcomes \ {"LEASE_EXPIRED"}
      BY DEF OutcomeOf, FinalState, Outcomes, Resolutions
    <3>2. attempts'[i].outcome # "LEASE_EXPIRED"
      BY <2>6, <2>10, <3>1
    <3> QED BY <2>2, <2>5, <2>10, <3>2
  <2>11. ~CancelIdle(c) /\ ~CancelRunning(c)
    BY DEF CancelIdle, CancelRunning, Open
  <2> QED BY <2>4, <2>5, <2>7, <2>8, <2>9, <2>10, <2>11
<1>2. Spec => [][A]_vars
  BY <1>1, Invariance, PTL DEF Spec
<1> QED BY <1>2 DEF Fenced

\* Whatever renewals race, the end of a held lease only moves forward.
THEOREM LeaseMonotonic == Spec => LeaseNeverShrinks
<1> DEFINE A == leaseToken # Null /\ leaseToken' = leaseToken => leaseExpires' >= leaseExpires
<1>1. ASSUME Inv, [Next]_vars PROVE A
  <2> SUFFICES ASSUME leaseToken # Null, leaseToken' = leaseToken
               PROVE  leaseExpires' >= leaseExpires
    OBVIOUS
  <2>1. /\ TypeOK /\ OneLiveAttempt /\ state \in Leased
    BY <1>1 DEF Inv, OneLiveAttempt
  <2>2. leaseToken = attemptCount /\ leaseExpires \in Nat /\ attemptCount \in Nat
    BY <2>1, LeasedAttempt DEF TypeOK
  <2>3. CASE Same
    BY <2>2, <2>3 DEF Same, operation
  <2>4. ASSUME NEW c \in calls, NEW d \in Lease, Prolongs(c, d)
        PROVE  leaseExpires' >= leaseExpires
    <3>1. c.at + d \in Nat
      BY <1>1, <2>4, ProlongedAttempts
    <3> QED BY <2>2, <2>4, <3>1 DEF Prolongs, Renewed
  <2>5. ASSUME NEW c \in calls, NEW d \in Lease, Begins(c, d) PROVE FALSE
    BY <2>2, <2>5 DEF Begins
  <2>6. ASSUME NEW c \in calls, NEW o, Ends(c, o) PROVE FALSE
    BY <2>6 DEF Ends
  <2>7. ASSUME NEW c \in calls, CancelIdle(c) \/ CancelRunning(c) PROVE leaseExpires' >= leaseExpires
    BY <2>2, <2>7 DEF CancelIdle, CancelRunning
  <2> QED BY <1>1, <2>3, <2>4, <2>5, <2>6, <2>7, StepEffect DEF Effect
<1>2. Spec => [][A]_vars
  BY <1>1, Invariance, PTL DEF Spec
<1> QED BY <1>2 DEF LeaseNeverShrinks

-------------------------------------------------------------------------------
(* The refinement                                                          *)

outcomesOf == [i \in DOMAIN attempts |-> attempts[i].outcome]

\* The abstract history is as long as the attempts.
LEMMA OutcomesLen ==
    ASSUME Inv PROVE DOMAIN outcomesOf = 1..attemptCount /\ Len(outcomesOf) = attemptCount
<1>1. attempts \in Seq(Attempt) /\ attemptCount = Len(attempts) /\ attemptCount \in Nat
  BY DEF Inv, TypeOK, OneLiveAttempt
<1>2. DOMAIN attempts = 1..attemptCount
  BY <1>1
<1>3. outcomesOf \in [1..attemptCount -> {attempts[i].outcome : i \in 1..attemptCount}]
  BY <1>2 DEF outcomesOf
<1> QED BY <1>1, <1>3

\* Closing the last attempt sets the last outcome.
LEMMA EndedOutcomes ==
    ASSUME Inv, state \in Leased, NEW at \in Nat, NEW o \in Outcomes
    PROVE  LET A == AttemptsClosed(o, at) IN
           [i \in DOMAIN A |-> A[i].outcome] = [outcomesOf EXCEPT ![Len(outcomesOf)] = o]
<1> DEFINE A == AttemptsClosed(o, at)
<1>1. /\ A \in Seq(Attempt) /\ Len(A) = Len(attempts) /\ attemptCount \in DOMAIN attempts
      /\ \A i \in DOMAIN attempts : i # attemptCount => A[i] = attempts[i]
      /\ A[attemptCount].outcome = o
  BY ClosedAttempts DEF Inv
<1>2. DOMAIN A = DOMAIN attempts
  BY <1>1 DEF Inv, TypeOK
<1>3. Len(outcomesOf) = attemptCount
  BY OutcomesLen
<1> HIDE DEF A
<1> QED BY <1>1, <1>2, <1>3 DEF outcomesOf, A

\* Every step of the row-locked functions is a step of the lifecycle or leaves
\* the state and the outcomes of the attempts as they are.
THEOREM LifecycleImplemented == Spec => ImplementsLifecycle
<1>1. Init => Lifecycle!Init
  BY DEF Init, Lifecycle!Init
<1>2. ASSUME Inv, [Next]_vars PROVE [Lifecycle!Next]_(Lifecycle!vars)
  <2> DEFINE O == outcomesOf
  <2>1. /\ TypeOK /\ OneLiveAttempt /\ attemptCount \in Nat /\ MaxAttempts \in Nat
        /\ Len(O) = attemptCount /\ DOMAIN O = 1..attemptCount
    BY <1>2, OutcomesLen, OperationsAssumption DEF Inv, TypeOK, OperationsAssumption
  <2>2. Lifecycle!BudgetLeft <=> attemptCount < MaxAttempts
    BY <2>1 DEF Lifecycle!BudgetLeft, outcomesOf
  <2>3. \A o : Lifecycle!Ended(o) = [O EXCEPT ![Len(O)] = o]
    BY DEF Lifecycle!Ended, outcomesOf
  <2>4. CASE Same
    BY <2>4 DEF Same, operation, Lifecycle!vars
  <2>5. ASSUME NEW c \in calls, NEW o \in Outcomes, Ends(c, o)
        PROVE  O' = Lifecycle!Ended(o)
    <3>1. c.at \in Nat
      BY <2>1, CallType
    <3>2. LET A == AttemptsClosed(o, c.at) IN
          [i \in DOMAIN A |-> A[i].outcome] = [O EXCEPT ![Len(O)] = o]
      BY <1>2, <2>5, <3>1, EndedOutcomes DEF Ends
    <3>3. O' = [i \in DOMAIN attempts' |-> attempts'[i].outcome]
      BY DEF outcomesOf
    <3>4. attempts' = AttemptsClosed(o, c.at)
      BY <2>5 DEF Ends
    <3> HIDE DEF O
    <3> QED BY <2>3, <3>2, <3>3, <3>4
  <2>6. ASSUME NEW c \in calls, state = "CANCELLATION_REQUESTED", state' = "CANCELLED",
               Ends(c, "CANCELLED")
        PROVE  Lifecycle!FinishCancel
    BY <2>5, <2>6 DEF Lifecycle!FinishCancel, Outcomes, outcomesOf
  <2>7. ASSUME NEW c \in calls, state = "RUNNING", state' = "FAILED", attemptCount >= MaxAttempts,
               Ends(c, "LEASE_EXPIRED")
        PROVE  Lifecycle!Exhaust
    <3>1. ~Lifecycle!BudgetLeft
      BY <2>1, <2>2, <2>7
    <3> QED BY <2>5, <2>7, <3>1 DEF Lifecycle!Exhaust, Outcomes, outcomesOf
  <2>8. ASSUME NEW c \in calls, NEW r \in Resolutions, Admitted(r), state' = FinalState(r),
               Ends(c, OutcomeOf(FinalState(r)))
        PROVE  Lifecycle!Resolve \/ Lifecycle!FinishCancel
    <3>1. state \in {"RUNNING", "CANCELLATION_REQUESTED"}
      BY <2>8 DEF Ends, Leased
    <3>2. CASE state = "CANCELLATION_REQUESTED"
      <4>1. FinalState(r) = "CANCELLED" /\ OutcomeOf(FinalState(r)) = "CANCELLED"
        BY <2>8, <3>2 DEF Admitted, FinalState, OutcomeOf
      <4> QED BY <2>6, <2>8, <3>2, <4>1
    <3>3. CASE state = "RUNNING"
      <4>1. r \in {"SUCCEEDED", "RETRY", "FAILED"}
        BY <2>8, <3>3 DEF Admitted, Resolutions
      <4>2. \/ FinalState(r) = "SUCCEEDED"
            \/ FinalState(r) = "FAILED"
            \/ FinalState(r) = "RETRY_WAIT" /\ attemptCount < MaxAttempts
        BY <4>1 DEF FinalState
      <4>3. OutcomeOf(FinalState(r)) \in Outcomes
        BY <4>2 DEF OutcomeOf, Outcomes
      <4>4. O' = Lifecycle!Ended(OutcomeOf(FinalState(r)))
        BY <2>5, <2>8, <4>3
      <4> QED BY <2>2, <2>8, <3>3, <4>2, <4>4 DEF Lifecycle!Resolve, OutcomeOf, outcomesOf
    <3> QED BY <3>1, <3>2, <3>3
  <2>9. ASSUME NEW c \in calls, NEW d \in Lease, Begins(c, d)
        PROVE  Lifecycle!Start
    <3> DEFINE R == Recovered(c.at)
               W == [i \in DOMAIN R |-> R[i].outcome]
    <3>1. c.at \in Nat
      BY <2>1, CallType
    <3>2. R \in Seq(Attempt) /\ Len(R) = attemptCount
      BY <1>2, <2>9, RecoveredAttempts
    <3>3. W = IF state = "RUNNING" THEN Lifecycle!Ended("LEASE_EXPIRED") ELSE O
      <4>1. CASE state = "RUNNING"
        <5>1. R = AttemptsClosed("LEASE_EXPIRED", c.at)
          BY <4>1 DEF Recovered
        <5>2. state \in Leased /\ "LEASE_EXPIRED" \in Outcomes
          BY <4>1 DEF Leased, Outcomes
        <5>3. LET A == AttemptsClosed("LEASE_EXPIRED", c.at) IN
              [i \in DOMAIN A |-> A[i].outcome]
                = [outcomesOf EXCEPT ![Len(outcomesOf)] = "LEASE_EXPIRED"]
          BY <1>2, <3>1, <5>2, EndedOutcomes
        <5> HIDE DEF R
        <5>4. W = [outcomesOf EXCEPT ![Len(outcomesOf)] = "LEASE_EXPIRED"]
          BY <5>1, <5>3
        <5> QED BY <2>3, <4>1, <5>4
      <4>2. CASE state # "RUNNING"
        BY <4>2 DEF Recovered, outcomesOf
      <4> QED BY <4>1, <4>2
    <3>4. O' = Append(W, "OPEN")
      <4> DEFINE a == [worker |-> c.worker, token |-> attemptCount + 1, acquired |-> c.at,
                       expires |-> c.at + d, finished |-> Null, outcome |-> "OPEN"]
      <4>1. attempts' = Append(R, a)
        BY <2>9 DEF Begins
      <4>2. a.outcome = "OPEN"
        OBVIOUS
      <4> HIDE DEF R, a
      <4>3. DOMAIN R = 1..attemptCount /\ DOMAIN attempts' = 1..(attemptCount + 1)
        BY <2>1, <3>2, <4>1
      <4>4. /\ \A i \in 1..attemptCount : attempts'[i] = R[i]
            /\ attempts'[attemptCount + 1] = a
        BY <2>1, <3>2, <4>1
      <4>5. W \in [1..attemptCount -> {R[i].outcome : i \in 1..attemptCount}]
        BY <4>3
      <4>6. W \in Seq({R[i].outcome : i \in 1..attemptCount}) /\ Len(W) = attemptCount
        BY <2>1, <4>5
      <4>7. O' = [i \in 1..(attemptCount + 1) |-> attempts'[i].outcome]
        BY <4>3 DEF outcomesOf
      <4>8. Append(W, "OPEN") = [i \in 1..(attemptCount + 1) |-> IF i = attemptCount + 1
                                                             THEN "OPEN" ELSE W[i]]
        BY <2>1, <4>6
      <4>9. \A i \in 1..(attemptCount + 1) :
               attempts'[i].outcome = IF i = attemptCount + 1 THEN "OPEN" ELSE W[i]
        BY <2>1, <4>2, <4>3, <4>4
      <4> HIDE DEF W
      <4> QED BY <4>7, <4>8, <4>9
    <3> HIDE DEF R, W
    <3> QED BY <2>2, <2>9, <3>3, <3>4 DEF Begins, Lifecycle!Start, outcomesOf
  <2>10. ASSUME NEW c \in calls, NEW d \in Lease, Prolongs(c, d)
         PROVE  UNCHANGED Lifecycle!vars
    <3>1. /\ \A i \in DOMAIN attempts : attempts'[i].outcome = attempts[i].outcome
          /\ DOMAIN attempts' = DOMAIN attempts
      BY <1>2, <2>10, ProlongedAttempts DEF Prolongs, Renewed
    <3>2. O' = O
      BY <3>1 DEF outcomesOf
    <3> QED BY <2>10, <3>2 DEF Prolongs, Renewed, Lifecycle!vars, outcomesOf
  <2>11. ASSUME NEW c \in calls, CancelIdle(c) PROVE Lifecycle!CancelIdle
    BY <2>11 DEF CancelIdle, Lifecycle!CancelIdle
  <2>12. ASSUME NEW c \in calls, CancelRunning(c) PROVE Lifecycle!RequestCancel
    BY <2>12 DEF CancelRunning, Lifecycle!RequestCancel
  <2> QED BY <1>2, <2>4, <2>6, <2>7, <2>8, <2>9, <2>10, <2>11, <2>12, StepEffect
          DEF Effect, Lifecycle!Next
<1> QED BY <1>1, <1>2, Invariance, PTL DEF Spec, ImplementsLifecycle, Lifecycle!Spec
===============================================================================
