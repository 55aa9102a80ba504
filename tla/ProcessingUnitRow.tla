--------------------------- MODULE ProcessingUnitRow ---------------------------
(***************************************************************************)
(* The row of memoid.processing_units as a record, and what each function  *)
(* of migration 003 makes of it once it holds the row lock: the condition  *)
(* under which the function goes through and the row it writes.  The       *)
(* modules ProcessingUnit and SourceIngestion build their actions from     *)
(* these.                                                                  *)
(***************************************************************************)
EXTENDS Integers

Null == -1               \* SQL null of a timestamp, a token or a sequence

\* A unit nobody has asked anything of yet (the column defaults).
NewUnit == [desired |-> 0, processed |-> 0, followUp |-> FALSE,
            token |-> Null, target |-> Null, expires |-> Null,
            attempt |-> 0, next |-> Null]

Units == [desired : Nat, processed : Nat, followUp : BOOLEAN,
          token : Nat \cup {Null}, target : Nat \cup {Null},
          expires : Nat \cup {Null}, attempt : Nat, next : Nat \cup {Null}]

\* The check constraints processing_units_frontier, _follow_up, _lease_shape
\* and _lease_target, which abort the statement that would break one.
Constraints(u) ==
    /\ u.processed <= u.desired
    /\ u.followUp <=> u.desired > u.processed
    /\ (u.token = Null <=> u.target = Null) /\ (u.token = Null <=> u.expires = Null)
    /\ u.target # Null => u.processed < u.target /\ u.target <= u.desired

\* MUTANT: the desired frontier may move backwards.
CanAdvanceBackwards(u, n) == TRUE

\* advance_processing_desired
CanAdvance(u, n) == n >= u.desired
Advanced(u, n) == [u EXCEPT !.desired = n, !.followUp = n > u.processed]

\* MUTANT: a lease that ran out is never taken over.
CanAcquireUnleased(u, at) ==
    u.followUp /\ (u.next # Null => u.next <= at) /\ u.token = Null

\* acquire_processing_unit: something is desired, the retry is due, no lease lives.
CanAcquire(u, at) ==
    /\ u.followUp
    /\ u.next # Null => u.next <= at
    /\ u.token # Null => u.expires <= at
Acquired(u, token, expires) ==
    [u EXCEPT !.token = token, !.target = u.desired, !.expires = expires,
              !.attempt = u.attempt + 1, !.next = Null]

\* MUTANT: any lease that has not run out will do.
HoldsUnitAnyToken(u, token, at) == u.token # Null /\ u.expires > at

\* The check renew, complete and retry make on the row.
HoldsUnit(u, token, at) == u.token = token /\ u.expires > at

\* renew_processing_unit_lease
UnitRenewed(u, expires) == [u EXCEPT !.expires = expires]

UnitReleased(u, next) ==
    [u EXCEPT !.token = Null, !.target = Null, !.expires = Null, !.next = next]

\* complete_processing_unit: the sequence must be the leased target.
CanComplete(u, token, n, at) == HoldsUnit(u, token, at) /\ n = u.target

\* MUTANT: completing clears the lease before it reads the target.
CompletedAfterRelease(u, n) ==
    LET r == UnitReleased(u, Null)
    IN  [r EXCEPT !.processed = r.target, !.followUp = u.desired > r.target]

\* MUTANT: completing marks everything desired meanwhile as processed too.
CompletedAll(u, n) ==
    [UnitReleased(u, Null) EXCEPT !.processed = u.desired, !.followUp = FALSE]

Completed(u, n) ==
    [UnitReleased(u, Null) EXCEPT !.processed = n, !.followUp = u.desired > n]

\* retry_processing_unit: keeps the frontier, waits until next.
CanRetry(u, token, next, at) == next > at /\ HoldsUnit(u, token, at)
Retried(u, next) == UnitReleased(u, next)
===============================================================================
