---------------------------- MODULE ProcessingUnit ----------------------------
(***************************************************************************)
(* One row of memoid.processing_units under concurrent calls of the five   *)
(* functions of migration 003: advance_processing_desired,                 *)
(* acquire_processing_unit, renew_processing_unit_lease,                   *)
(* complete_processing_unit and retry_processing_unit.                     *)
(*                                                                         *)
(* As in Operations, a function reads the clock when it is entered and     *)
(* then waits for the row lock, so a call is a record that carries its     *)
(* entry time; a call that raises changes nothing; a crashed worker issues *)
(* no further call.  The token of a lease is a fresh UUID; its model value *)
(* is the number of leases granted before it plus one.                     *)
(***************************************************************************)
EXTENDS ProcessingUnitRow, FiniteSets, Sequences

CONSTANTS MaxSequence,   \* bound: the highest sequence anybody desires
          MaxTokens,     \* bound: leases granted
          MaxLease,      \* longest lease, in ticks
          MaxDelay,      \* longest retry delay, in ticks
          MaxTime,       \* bound: the clock stops there
          MaxCalls       \* bound: calls waiting for the row lock at once

ASSUME ProcessingUnitAssumption ==
    /\ MaxSequence \in Nat /\ MaxTokens \in Nat
    /\ MaxLease \in Nat \ {0} /\ MaxDelay \in Nat \ {0}
    /\ MaxTime \in Nat /\ MaxCalls \in Nat

VARIABLES unit,          \* the row
          calls,         \* calls entered and not yet returned
          granted,       \* the target each lease was granted for, by token
          now            \* clock_timestamp()

vars == <<unit, calls, granted, now>>

Call == [kind : {"advance"}, to : Nat, at : Nat]
          \cup [kind : {"acquire"}, at : Nat]
          \cup [kind : {"renew", "retry", "complete"}, token : Nat, at : Nat]

TypeOK ==
    /\ unit \in Units
    /\ calls \subseteq Call
    /\ granted \in Seq(Nat)
    /\ now \in 0..MaxTime

Init ==
    /\ unit = NewUnit
    /\ calls = {}
    /\ granted = << >>
    /\ now = 0

-------------------------------------------------------------------------------
(* Entering a call                                                         *)

Enter(c) ==
    /\ Cardinality(calls) < MaxCalls
    /\ calls' = calls \cup {c}
    /\ UNCHANGED <<unit, granted, now>>

CallAdvance == \E n \in 1..MaxSequence : Enter([kind |-> "advance", to |-> n, at |-> now])
CallAcquire == Enter([kind |-> "acquire", at |-> now])

\* Also with the token of a lease that is long gone.
CallHolder == \E k \in {"renew", "retry", "complete"}, t \in DOMAIN granted :
    Enter([kind |-> k, token |-> t, at |-> now])

-------------------------------------------------------------------------------
(* The functions, once they hold the row lock                              *)

Returned(c) == calls' = calls \ {c} /\ UNCHANGED now

\* A call that raises, or an acquire that returns was_acquired = false.
Unchanged == UNCHANGED <<unit, granted>>

Advance(c) ==
    /\ c.kind = "advance"
    /\ \/ CanAdvance(unit, c.to) /\ unit' = Advanced(unit, c.to) /\ UNCHANGED granted
       \/ ~CanAdvance(unit, c.to) /\ Unchanged
    /\ Returned(c)

Acquire(c) ==
    /\ c.kind = "acquire"
    /\ \/ /\ CanAcquire(unit, c.at)
          /\ Len(granted) < MaxTokens
          /\ \E d \in 1..MaxLease : unit' = Acquired(unit, Len(granted) + 1, c.at + d)
          /\ granted' = Append(granted, unit.desired)
       \/ ~CanAcquire(unit, c.at) /\ Unchanged
    /\ Returned(c)

Renew(c) ==
    /\ c.kind = "renew"
    /\ \/ /\ HoldsUnit(unit, c.token, c.at)
          /\ \E d \in 1..MaxLease : unit' = UnitRenewed(unit, c.at + d)
          /\ UNCHANGED granted
       \/ ~HoldsUnit(unit, c.token, c.at) /\ Unchanged
    /\ Returned(c)

\* The caller names the sequence; only the leased target is accepted.
Complete(c) ==
    /\ c.kind = "complete"
    /\ \E n \in 0..MaxSequence :
          \/ CanComplete(unit, c.token, n, c.at) /\ unit' = Completed(unit, n) /\ UNCHANGED granted
          \/ ~CanComplete(unit, c.token, n, c.at) /\ Unchanged
    /\ Returned(c)

Retry(c) ==
    /\ c.kind = "retry"
    /\ \E next \in c.at..(c.at + MaxDelay) :
          \/ CanRetry(unit, c.token, next, c.at) /\ unit' = Retried(unit, next) /\ UNCHANGED granted
          \/ ~CanRetry(unit, c.token, next, c.at) /\ Unchanged
    /\ Returned(c)

Tick ==
    /\ now < MaxTime
    /\ now' = now + 1
    /\ UNCHANGED <<unit, calls, granted>>

Next ==
    \/ CallAdvance \/ CallAcquire \/ CallHolder
    \/ \E c \in calls : Advance(c) \/ Acquire(c) \/ Renew(c) \/ Complete(c) \/ Retry(c)
    \/ Tick

Spec == Init /\ [][Next]_vars

-------------------------------------------------------------------------------
(* Properties                                                              *)

\* No function ever trips one of the table's check constraints, whatever calls
\* are interleaved: the row always has work flagged exactly when work is left,
\* and a lease always covers unprocessed work that was desired.  A token on the
\* row is the latest one granted, with the target its worker was told.
RowConstraintsHold ==
    /\ Constraints(unit)
    /\ unit.token # Null => unit.token = Len(granted) /\ unit.target = granted[unit.token]

\* The frontier moves only when the holder of the current lease completes, and
\* then to the sequence that holder was told, although stale holders, late
\* completions and newer desires wait for the same lock.
CompletesOwnTarget ==
    [][unit'.processed # unit.processed =>
         \E c \in calls \ calls' :
            /\ c.kind = "complete" /\ c.token = unit.token
            /\ unit'.processed = granted[c.token]
            /\ unit'.desired = unit.desired]_vars

\* A lease changes hands only after its recorded end; before that only its own
\* holder can give it up.
LeaseExclusive ==
    [][unit.token # Null /\ unit'.token # unit.token =>
         \/ now >= unit.expires
         \/ \E c \in calls \ calls' : c.kind \in {"complete", "retry"} /\ c.token = unit.token]_vars

Promise == INSTANCE LostWakeup WITH
    desired <- unit.desired,
    processed <- unit.processed,
    claim <- IF unit.target = Null THEN 0 ELSE unit.target

\* The row implements the lost-wakeup contract.
ImplementsLostWakeup == Promise!Spec
===============================================================================
