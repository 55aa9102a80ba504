------------------------- MODULE ProcessingUnitProofs -------------------------
(***************************************************************************)
(* Theorems about ProcessingUnit, for every value of its constants: the    *)
(* row's constraints are an invariant, the frontier and the lease move only*)
(* in the hands of the lease holder, and the row implements LostWakeup.    *)
(***************************************************************************)
EXTENDS ProcessingUnit, CandidateFrontier, FiniteSetTheorems, WellFoundedInduction, TLAPS

-------------------------------------------------------------------------------
(* What each function of migration 003 leaves on a processing_units row:   *)
(* a row of the right shape that meets the table's check constraints.      *)

\* The row that advance_processing_unit inserts meets the check constraints.
LEMMA NewUnitRow == NewUnit \in Units /\ Constraints(NewUnit)
<1>1. NewUnit \in Units
  <2>1. 0 \in Nat /\ FALSE \in BOOLEAN /\ Null \in Nat \cup {Null}
    OBVIOUS
  <2> QED BY <2>1, Zenon DEF Units, NewUnit
<1>2. Constraints(NewUnit)
  BY SMT DEF NewUnit, Constraints, Null
<1> QED BY <1>1, <1>2

\* advance_processing_desired keeps the row sound.
LEMMA AdvancedRow ==
    ASSUME NEW u \in Units, Constraints(u), NEW n \in Nat, CanAdvance(u, n)
    PROVE  /\ Advanced(u, n) \in Units /\ Constraints(Advanced(u, n))
           /\ Advanced(u, n).desired = n /\ Advanced(u, n).processed = u.processed
           /\ Advanced(u, n).token = u.token /\ Advanced(u, n).target = u.target
           /\ Advanced(u, n).expires = u.expires
<1>1. (n > u.processed) \in BOOLEAN
  BY SMT
<1>2. Advanced(u, n) \in Units
  BY <1>1, Zenon DEF Units, Advanced
<1>3. /\ Advanced(u, n).desired = n /\ Advanced(u, n).processed = u.processed
      /\ Advanced(u, n).token = u.token /\ Advanced(u, n).target = u.target
      /\ Advanced(u, n).expires = u.expires
  BY Zenon DEF Units, Advanced
<1>4. Advanced(u, n).followUp <=> n > u.processed
  BY Zenon DEF Units, Advanced
<1>5. Constraints(Advanced(u, n))
  <2>1. u.processed \in Nat /\ u.desired \in Nat /\ u.target \in Nat \cup {Null}
    BY DEF Units
  <2> QED BY <1>3, <1>4, <2>1, SMT DEF Constraints, CanAdvance, Null
<1> QED BY <1>2, <1>3, <1>5

\* acquire_processing_unit leases the row for all that is desired.
LEMMA AcquiredRow ==
    ASSUME NEW u \in Units, Constraints(u), u.followUp, NEW t \in Nat, NEW e \in Nat
    PROVE  /\ Acquired(u, t, e) \in Units /\ Constraints(Acquired(u, t, e))
           /\ Acquired(u, t, e).desired = u.desired
           /\ Acquired(u, t, e).processed = u.processed
           /\ Acquired(u, t, e).token = t /\ Acquired(u, t, e).target = u.desired
           /\ u.desired > u.processed
<1>1. u.attempt + 1 \in Nat /\ u.desired \in Nat
  BY SMT DEF Units
<1>2. Acquired(u, t, e) \in Units
  BY <1>1, Zenon DEF Units, Acquired
<1>3. /\ Acquired(u, t, e).desired = u.desired
      /\ Acquired(u, t, e).processed = u.processed
      /\ Acquired(u, t, e).token = t /\ Acquired(u, t, e).target = u.desired
  BY Zenon DEF Units, Acquired
<1>4. Constraints(Acquired(u, t, e)) /\ u.desired > u.processed
  BY SMT DEF Units, Constraints, Acquired, Null
<1> QED BY <1>2, <1>3, <1>4

\* renew_processing_unit_lease moves the lease end and nothing else.
LEMMA RenewedRow ==
    ASSUME NEW u \in Units, Constraints(u), u.token # Null, NEW e \in Nat
    PROVE  /\ UnitRenewed(u, e) \in Units /\ Constraints(UnitRenewed(u, e))
           /\ UnitRenewed(u, e).desired = u.desired
           /\ UnitRenewed(u, e).processed = u.processed
           /\ UnitRenewed(u, e).token = u.token /\ UnitRenewed(u, e).target = u.target
<1>1. UnitRenewed(u, e) \in Units
  BY Zenon DEF Units, UnitRenewed
<1>2. /\ UnitRenewed(u, e).desired = u.desired
      /\ UnitRenewed(u, e).processed = u.processed
      /\ UnitRenewed(u, e).followUp = u.followUp
      /\ UnitRenewed(u, e).token = u.token /\ UnitRenewed(u, e).target = u.target
      /\ UnitRenewed(u, e).expires = e
  BY Zenon DEF Units, UnitRenewed
<1>3. Constraints(UnitRenewed(u, e))
  BY <1>2, SMT DEF Units, Constraints, Null
<1> QED BY <1>1, <1>2, <1>3

\* complete_processing_unit: the leased target becomes the processed frontier.
LEMMA CompletedRow ==
    ASSUME NEW u \in Units, Constraints(u), u.token # Null, NEW n, n = u.target
    PROVE  /\ Completed(u, n) \in Units /\ Constraints(Completed(u, n))
           /\ Completed(u, n).desired = u.desired /\ Completed(u, n).processed = n
           /\ Completed(u, n).token = Null /\ Completed(u, n).target = Null
           /\ n > 0
<1>1. n \in Nat /\ u.processed < n /\ n <= u.desired /\ u.desired \in Nat /\ u.processed \in Nat
  BY SMT DEF Units, Constraints, Null
<1>2. (u.desired > n) \in BOOLEAN
  BY SMT
<1>3. UnitReleased(u, Null) \in Units
  <2>1. Null \in Nat \cup {Null}
    OBVIOUS
  <2> QED BY <2>1, Zenon DEF Units, UnitReleased
<1>4. Completed(u, n) \in Units
  BY <1>1, <1>2, <1>3, Zenon DEF Units, Completed
<1>5. /\ Completed(u, n).desired = u.desired /\ Completed(u, n).processed = n
      /\ Completed(u, n).token = Null /\ Completed(u, n).target = Null
      /\ Completed(u, n).expires = Null
  BY Zenon DEF Units, Completed, UnitReleased
<1>6. Completed(u, n).followUp <=> u.desired > n
  BY Zenon DEF Units, Completed, UnitReleased
<1>7. Constraints(Completed(u, n))
  BY <1>1, <1>5, <1>6, SMT DEF Constraints, Null
<1> QED BY <1>1, <1>4, <1>5, <1>7

\* retry_processing_unit gives the lease up and keeps the frontier.
LEMMA RetriedRow ==
    ASSUME NEW u \in Units, Constraints(u), NEW t \in Nat
    PROVE  /\ Retried(u, t) \in Units /\ Constraints(Retried(u, t))
           /\ Retried(u, t).desired = u.desired /\ Retried(u, t).processed = u.processed
           /\ Retried(u, t).token = Null /\ Retried(u, t).target = Null
<1>1. Retried(u, t) \in Units
  <2>1. t \in Nat \cup {Null} /\ Null \in Nat \cup {Null}
    OBVIOUS
  <2> QED BY <2>1, Zenon DEF Units, Retried, UnitReleased
<1>2. /\ Retried(u, t).desired = u.desired /\ Retried(u, t).processed = u.processed
      /\ Retried(u, t).followUp = u.followUp
      /\ Retried(u, t).token = Null /\ Retried(u, t).target = Null
      /\ Retried(u, t).expires = Null
  BY Zenon DEF Units, Retried, UnitReleased
<1>3. Constraints(Retried(u, t))
  BY <1>2, SMT DEF Units, Constraints, Null
<1> QED BY <1>1, <1>2, <1>3

-------------------------------------------------------------------------------
(* The invariant                                                           *)

\* Every call that waits was entered in the past.
CallsEntered == \A c \in calls : c.at <= now

\* The inductive invariant.
Inv == TypeOK /\ CallsEntered /\ RowConstraintsHold

\* A step that leaves the part of the row the contract is about as it is.
SameClaim == /\ unit'.processed = unit.processed
             /\ unit'.token = unit.token /\ unit'.target = unit.target
             /\ granted' = granted

RowSound == unit' \in Units /\ Constraints(unit')

-------------------------------------------------------------------------------
(* What each action does to the row                                        *)

\* A call that returns false leaves the row.
LEMMA UnchangedEffect ==
    ASSUME Inv, Unchanged
    PROVE  RowSound /\ SameClaim /\ unit'.desired = unit.desired
BY DEF Inv, TypeOK, RowConstraintsHold, Unchanged, RowSound, SameClaim

\* advance_processing_unit: what it does to frontier and state.
LEMMA AdvanceEffect ==
    ASSUME Inv, NEW c \in calls, Advance(c)
    PROVE  RowSound /\ SameClaim /\ unit'.desired \in Nat /\ unit'.desired >= unit.desired
<1>1. unit \in Units /\ Constraints(unit) /\ unit.desired \in Nat
  BY DEF Inv, TypeOK, RowConstraintsHold, Units
<1>2. c.to \in Nat
  BY DEF Inv, TypeOK, Call, Advance
<1>3. CASE CanAdvance(unit, c.to) /\ unit' = Advanced(unit, c.to) /\ UNCHANGED granted
  <2>1. c.to >= unit.desired
    BY <1>3 DEF CanAdvance
  <2> QED BY <1>1, <1>2, <1>3, <2>1, AdvancedRow DEF RowSound, SameClaim
<1>4. CASE Unchanged
  BY <1>1, <1>4, UnchangedEffect
<1> QED BY <1>3, <1>4 DEF Advance

\* The lease was free, or over, when the call was entered.
LEMMA AcquireEffect ==
    ASSUME Inv, NEW c \in calls, Acquire(c)
    PROVE  /\ RowSound /\ unit'.desired = unit.desired
           /\ \/ SameClaim
              \/ /\ unit'.processed = unit.processed /\ unit.desired > unit.processed
                 /\ unit'.token = Len(granted) + 1 /\ unit'.target = unit.desired
                 /\ granted' = Append(granted, unit.desired)
                 /\ unit.token # Null => unit.expires <= c.at
<1>1. unit \in Units /\ Constraints(unit) /\ unit.desired \in Nat /\ granted \in Seq(Nat)
  BY DEF Inv, TypeOK, RowConstraintsHold, Units
<1>2. c.at \in Nat
  BY DEF Inv, TypeOK, Call
<1>3. CASE CanAcquire(unit, c.at) /\ ~Unchanged
  <2>1. PICK d \in 1..MaxLease : unit' = Acquired(unit, Len(granted) + 1, c.at + d)
    BY <1>3 DEF Acquire
  <2>2. granted' = Append(granted, unit.desired)
    BY <1>3 DEF Acquire
  <2>3. Len(granted) + 1 \in Nat /\ c.at + d \in Nat
    BY <1>1, <1>2, <2>1, ProcessingUnitAssumption DEF ProcessingUnitAssumption
  <2>4. unit.followUp /\ (unit.token # Null => unit.expires <= c.at)
    BY <1>3 DEF CanAcquire
  <2> QED BY <1>1, <2>1, <2>2, <2>3, <2>4, AcquiredRow DEF RowSound
<1>4. CASE Unchanged
  BY <1>4, UnchangedEffect
<1> QED BY <1>3, <1>4 DEF Acquire

\* renew_processing_unit_lease: what it does.
LEMMA RenewEffect ==
    ASSUME Inv, NEW c \in calls, Renew(c)
    PROVE  RowSound /\ SameClaim /\ unit'.desired = unit.desired
<1>1. unit \in Units /\ Constraints(unit)
  BY DEF Inv, TypeOK, RowConstraintsHold
<1>2. c.at \in Nat /\ c.token \in Nat
  BY DEF Inv, TypeOK, Call, Renew
<1>3. CASE HoldsUnit(unit, c.token, c.at) /\ ~Unchanged
  <2>1. PICK d \in 1..MaxLease : unit' = UnitRenewed(unit, c.at + d)
    BY <1>3 DEF Renew
  <2>2. UNCHANGED granted
    BY <1>3 DEF Renew
  <2>3. c.at + d \in Nat
    BY <1>2, <2>1, ProcessingUnitAssumption DEF ProcessingUnitAssumption
  <2>4. unit.token # Null
    BY <1>2, <1>3 DEF HoldsUnit, Null
  <2> QED BY <1>1, <2>1, <2>2, <2>3, <2>4, RenewedRow DEF RowSound, SameClaim
<1>4. CASE Unchanged
  BY <1>4, UnchangedEffect
<1> QED BY <1>3, <1>4 DEF Renew

\* complete_processing_unit: what it does.
LEMMA CompleteEffect ==
    ASSUME Inv, NEW c \in calls, Complete(c)
    PROVE  /\ RowSound /\ unit'.desired = unit.desired
           /\ \/ SameClaim
              \/ /\ unit.token # Null /\ c.token = unit.token
                 /\ unit.target \in Nat /\ unit.target > 0
                 /\ unit'.processed = unit.target
                 /\ unit'.token = Null /\ unit'.target = Null
                 /\ granted' = granted
<1>1. unit \in Units /\ Constraints(unit)
  BY DEF Inv, TypeOK, RowConstraintsHold
<1>2. c.token \in Nat
  BY DEF Inv, TypeOK, Call, Complete
<1>3. PICK n \in 0..MaxSequence :
          \/ CanComplete(unit, c.token, n, c.at) /\ unit' = Completed(unit, n) /\ UNCHANGED granted
          \/ Unchanged
  BY DEF Complete
<1>4. CASE CanComplete(unit, c.token, n, c.at) /\ unit' = Completed(unit, n) /\ UNCHANGED granted
  <2>1. c.token = unit.token /\ unit.token # Null /\ n = unit.target
    BY <1>2, <1>4 DEF CanComplete, HoldsUnit, Null
  <2>2. n \in Nat
    BY ProcessingUnitAssumption DEF ProcessingUnitAssumption
  <2> QED BY <1>1, <1>4, <2>1, <2>2, CompletedRow DEF RowSound
<1>5. CASE Unchanged
  BY <1>5, UnchangedEffect
<1> QED BY <1>3, <1>4, <1>5

\* retry_processing_unit: what it does.
LEMMA RetryEffect ==
    ASSUME Inv, NEW c \in calls, Retry(c)
    PROVE  /\ RowSound /\ unit'.desired = unit.desired
           /\ \/ SameClaim
              \/ /\ unit.token # Null /\ c.token = unit.token
                 /\ unit'.processed = unit.processed
                 /\ unit'.token = Null /\ unit'.target = Null
                 /\ granted' = granted
<1>1. unit \in Units /\ Constraints(unit)
  BY DEF Inv, TypeOK, RowConstraintsHold
<1>2. c.token \in Nat /\ c.at \in Nat
  BY DEF Inv, TypeOK, Call, Retry
<1>3. PICK next \in c.at..(c.at + MaxDelay) :
          \/ CanRetry(unit, c.token, next, c.at) /\ unit' = Retried(unit, next) /\ UNCHANGED granted
          \/ Unchanged
  BY DEF Retry
<1>4. CASE CanRetry(unit, c.token, next, c.at) /\ unit' = Retried(unit, next) /\ UNCHANGED granted
  <2>1. c.token = unit.token /\ unit.token # Null
    BY <1>2, <1>4 DEF CanRetry, HoldsUnit, Null
  <2>2. next \in Nat
    BY <1>2, ProcessingUnitAssumption DEF ProcessingUnitAssumption
  <2> QED BY <1>1, <1>4, <2>1, <2>2, RetriedRow DEF RowSound
<1>5. CASE Unchanged
  BY <1>5, UnchangedEffect
<1> QED BY <1>3, <1>4, <1>5

-------------------------------------------------------------------------------
(* The invariant                                                           *)

\* A new unit satisfies the invariant.
LEMMA InitInv == Init => Inv
<1> SUFFICES ASSUME Init PROVE Inv
  OBVIOUS
<1>1. unit \in Units /\ Constraints(unit) /\ unit.token = Null
  BY NewUnitRow DEF Init, NewUnit
<1>2. granted \in Seq(Nat) /\ calls \subseteq Call /\ now \in 0..MaxTime
  BY ProcessingUnitAssumption DEF Init, ProcessingUnitAssumption
<1> QED BY <1>1, <1>2 DEF Inv, TypeOK, CallsEntered, RowConstraintsHold, Init

\* Entering a call records the current time and touches nothing else.
LEMMA EnterInv ==
    ASSUME Inv, NEW c \in Call, c.at = now, Enter(c)
    PROVE  Inv'
BY DEF Inv, TypeOK, CallsEntered, RowConstraintsHold, Enter

\* A returned call with a sound row and an unchanged claim keeps the invariant.
LEMMA SameClaimInv ==
    ASSUME Inv, NEW c \in calls, Returned(c), RowSound, SameClaim
    PROVE  Inv'
BY DEF Inv, TypeOK, CallsEntered, RowConstraintsHold, Returned, RowSound, SameClaim

\* Giving the lease back keeps it.
LEMMA ReleasedInv ==
    ASSUME Inv, NEW c \in calls, Returned(c), RowSound, unit'.token = Null,
           granted' = granted
    PROVE  Inv'
BY DEF Inv, TypeOK, CallsEntered, RowConstraintsHold, Returned, RowSound

\* Granting a lease with a fresh token keeps it.
LEMMA GrantedInv ==
    ASSUME Inv, NEW c \in calls, Returned(c), RowSound,
           unit'.token = Len(granted) + 1, unit'.target = unit.desired,
           granted' = Append(granted, unit.desired)
    PROVE  Inv'
<1>1. granted \in Seq(Nat) /\ unit.desired \in Nat
  BY DEF Inv, TypeOK, Units
<1>2. granted' \in Seq(Nat) /\ Len(granted') = Len(granted) + 1
      /\ granted'[Len(granted) + 1] = unit.desired
  BY <1>1
<1>3. RowConstraintsHold'
  BY <1>2 DEF RowSound, RowConstraintsHold
<1> QED BY <1>2, <1>3 DEF Inv, TypeOK, CallsEntered, Returned, RowSound

\* Every step keeps it.
LEMMA NextInv == Inv /\ [Next]_vars => Inv'
<1> SUFFICES ASSUME Inv, [Next]_vars PROVE Inv'
  OBVIOUS
<1>a. now \in Nat
  BY ProcessingUnitAssumption DEF Inv, TypeOK, ProcessingUnitAssumption
<1>1. CASE CallAdvance
  <2>1. PICK n \in 1..MaxSequence : Enter([kind |-> "advance", to |-> n, at |-> now])
    BY <1>1 DEF CallAdvance
  <2>2. [kind |-> "advance", to |-> n, at |-> now] \in Call
    BY <1>a DEF Call
  <2> QED BY <2>1, <2>2, EnterInv
<1>2. CASE CallAcquire
  <2>1. [kind |-> "acquire", at |-> now] \in Call
    BY <1>a DEF Call
  <2> QED BY <1>2, <2>1, EnterInv DEF CallAcquire
<1>3. CASE CallHolder
  <2>1. PICK k \in {"renew", "retry", "complete"}, t \in DOMAIN granted :
            Enter([kind |-> k, token |-> t, at |-> now])
    BY <1>3 DEF CallHolder
  <2>2. t \in Nat
    BY DEF Inv, TypeOK
  <2>3. [kind |-> k, token |-> t, at |-> now] \in Call
    BY <1>a, <2>2 DEF Call
  <2> QED BY <2>1, <2>3, EnterInv
<1>4. ASSUME NEW c \in calls, Advance(c) PROVE Inv'
  BY <1>4, AdvanceEffect, SameClaimInv DEF Advance
<1>5. ASSUME NEW c \in calls, Acquire(c) PROVE Inv'
  BY <1>5, AcquireEffect, SameClaimInv, GrantedInv DEF Acquire
<1>6. ASSUME NEW c \in calls, Renew(c) PROVE Inv'
  BY <1>6, RenewEffect, SameClaimInv DEF Renew
<1>7. ASSUME NEW c \in calls, Complete(c) PROVE Inv'
  BY <1>7, CompleteEffect, SameClaimInv, ReleasedInv DEF Complete
<1>8. ASSUME NEW c \in calls, Retry(c) PROVE Inv'
  BY <1>8, RetryEffect, SameClaimInv, ReleasedInv DEF Retry
<1>9. CASE Tick
  <2>1. \A c \in calls : c.at \in Nat
    BY DEF Inv, TypeOK, Call
  <2> QED BY <1>9, <1>a, <2>1, ProcessingUnitAssumption
          DEF Inv, TypeOK, CallsEntered, RowConstraintsHold, Tick, ProcessingUnitAssumption
<1>10. CASE UNCHANGED vars
  BY <1>10 DEF Inv, TypeOK, CallsEntered, RowConstraintsHold, vars
<1> QED BY <1>1, <1>2, <1>3, <1>4, <1>5, <1>6, <1>7, <1>8, <1>9, <1>10 DEF Next

\* The invariant holds throughout.
LEMMA Invariance == Spec => []Inv
BY InitInv, NextInv, PTL DEF Spec

-------------------------------------------------------------------------------
(* The theorems                                                            *)

\* The row, the calls and the leases always have the shape the table and the
\* signatures of the five functions give them.
THEOREM TypeCorrect == Spec => []TypeOK
<1>1. Inv => TypeOK
  BY DEF Inv
<1> QED BY <1>1, Invariance, PTL

\* The check constraints of processing_units are never what stops a call, and
\* a leased row carries the target its latest lease was granted for.
THEOREM RowConstraintsCorrect == Spec => []RowConstraintsHold
<1>1. Inv => RowConstraintsHold
  BY DEF Inv
<1> QED BY <1>1, Invariance, PTL

\* The steps that change neither the row nor the leases.
LEMMA OtherStep ==
    ASSUME CallAdvance \/ CallAcquire \/ CallHolder \/ Tick \/ UNCHANGED vars
    PROVE  UNCHANGED <<unit, granted>>
BY DEF CallAdvance, CallAcquire, CallHolder, Enter, Tick, vars

\* The frontier moves only by the completion of the current lease, to the
\* target its holder was told: a stale holder never moves it.
THEOREM CompletionCorrect == Spec => CompletesOwnTarget
<1> DEFINE Own == unit'.processed # unit.processed =>
              \E c \in calls \ calls' :
                 /\ c.kind = "complete" /\ c.token = unit.token
                 /\ unit'.processed = granted[c.token]
                 /\ unit'.desired = unit.desired
<1>1. Inv /\ [Next]_vars => Own
  <2> SUFFICES ASSUME Inv, [Next]_vars, unit'.processed # unit.processed PROVE Own
    OBVIOUS
  <2>1. PICK c \in calls : Advance(c) \/ Acquire(c) \/ Renew(c) \/ Complete(c) \/ Retry(c)
    BY OtherStep DEF Next
  <2>2. Complete(c)
    BY <2>1, AdvanceEffect, AcquireEffect, RenewEffect, RetryEffect DEF SameClaim
  <2>3. /\ unit'.desired = unit.desired
        /\ unit.token # Null /\ c.token = unit.token /\ unit'.processed = unit.target
    BY <2>2, CompleteEffect DEF SameClaim
  <2>4. unit.target = granted[unit.token]
    BY <2>3 DEF Inv, RowConstraintsHold
  <2>5. c \in calls \ calls' /\ c.kind = "complete"
    BY <2>2 DEF Complete, Returned
  <2> QED BY <2>3, <2>4, <2>5
<1>2. Inv /\ [Next]_vars => [Own]_vars
  BY <1>1
<1> QED BY <1>2, Invariance, PTL DEF Spec, CompletesOwnTarget

\* A lease is taken over only after its recorded end; before that only its own
\* holder gives it up.
THEOREM LeaseCorrect == Spec => LeaseExclusive
<1> DEFINE Exclusive == unit.token # Null /\ unit'.token # unit.token =>
              \/ now >= unit.expires
              \/ \E c \in calls \ calls' : c.kind \in {"complete", "retry"} /\ c.token = unit.token
<1>1. Inv /\ [Next]_vars => Exclusive
  <2> SUFFICES ASSUME Inv, [Next]_vars, unit.token # Null, unit'.token # unit.token
               PROVE  Exclusive
    OBVIOUS
  <2>1. PICK c \in calls : Advance(c) \/ Acquire(c) \/ Renew(c) \/ Complete(c) \/ Retry(c)
    BY OtherStep DEF Next
  <2>2. CASE Acquire(c)
    <3>1. unit.expires <= c.at
      BY <2>2, AcquireEffect DEF SameClaim
    <3>2. c.at <= now /\ c.at \in Nat /\ now \in Nat
      BY ProcessingUnitAssumption
         DEF Inv, CallsEntered, TypeOK, Call, ProcessingUnitAssumption
    <3>3. unit.expires \in Int
      BY DEF Inv, TypeOK, Units, Null
    <3> QED BY <3>1, <3>2, <3>3
  <2>3. CASE Complete(c)
    <3>1. c.token = unit.token
      BY <2>3, CompleteEffect DEF SameClaim
    <3>2. c \in calls \ calls' /\ c.kind = "complete"
      BY <2>3 DEF Complete, Returned
    <3> QED BY <3>1, <3>2
  <2>4. CASE Retry(c)
    <3>1. c.token = unit.token
      BY <2>4, RetryEffect DEF SameClaim
    <3>2. c \in calls \ calls' /\ c.kind = "retry"
      BY <2>4 DEF Retry, Returned
    <3> QED BY <3>1, <3>2
  <2> QED BY <2>1, <2>2, <2>3, <2>4, AdvanceEffect, RenewEffect DEF SameClaim
<1>2. Inv /\ [Next]_vars => [Exclusive]_vars
  BY <1>1
<1> QED BY <1>2, Invariance, PTL DEF Spec, LeaseExclusive

-------------------------------------------------------------------------------
(* Refinement                                                              *)

\* A new unit has nothing desired and nothing done.
LEMMA InitRefines == Init => Promise!Init
BY DEF Init, NewUnit, Promise!Init

\* A step is a desire, a claim, progress, or nothing to the promise.
LEMMA StepRefines == Inv /\ [Next]_vars => [Promise!Next]_(Promise!vars)
<1> SUFFICES ASSUME Inv, [Next]_vars PROVE Promise!Next \/ UNCHANGED Promise!vars
  OBVIOUS
<1> USE DEF Promise!vars, Promise!Next
<1>a. /\ unit.desired \in Nat /\ unit.processed \in Nat
      /\ unit.target \in Nat \cup {Null} /\ (unit.token = Null <=> unit.target = Null)
  BY DEF Inv, TypeOK, Units, RowConstraintsHold, Constraints
<1>1. ASSUME NEW c \in calls, Advance(c) PROVE Promise!Desire \/ UNCHANGED Promise!vars
  <2>1. SameClaim /\ unit'.desired \in Nat /\ unit'.desired >= unit.desired
    BY <1>1, AdvanceEffect
  <2> QED BY <1>a, <2>1 DEF Promise!Desire, SameClaim
<1>2. ASSUME NEW c \in calls, Acquire(c) PROVE Promise!Take \/ UNCHANGED Promise!vars
  BY <1>2, <1>a, AcquireEffect DEF Promise!Take, SameClaim, Null
<1>3. ASSUME NEW c \in calls, Renew(c) PROVE UNCHANGED Promise!vars
  BY <1>3, RenewEffect DEF SameClaim
<1>4. ASSUME NEW c \in calls, Complete(c) PROVE Promise!Finish \/ UNCHANGED Promise!vars
  BY <1>4, <1>a, CompleteEffect DEF Promise!Finish, SameClaim, Null
<1>5. ASSUME NEW c \in calls, Retry(c) PROVE Promise!GiveUp \/ UNCHANGED Promise!vars
  <2>1. CASE SameClaim
    BY <1>5, <2>1, RetryEffect DEF SameClaim
  <2>2. CASE ~SameClaim
    <3>1. /\ unit.token # Null /\ unit'.processed = unit.processed
          /\ unit'.desired = unit.desired /\ unit'.target = Null
      BY <1>5, <2>2, RetryEffect
    <3>2. unit.target # Null /\ unit.target > 0
      BY <1>a, <3>1 DEF Inv, RowConstraintsHold, Constraints, Null
    <3> QED BY <1>a, <3>1, <3>2 DEF Promise!GiveUp
  <2> QED BY <2>1, <2>2
<1>6. ASSUME UNCHANGED <<unit, granted>> PROVE UNCHANGED Promise!vars
  BY <1>6
<1> QED BY <1>1, <1>2, <1>3, <1>4, <1>5, <1>6, OtherStep DEF Next

\* The row-locked functions implement the lost-wakeup contract: work desired
\* while a lease is held is never taken for done.
THEOREM LostWakeupImplemented == Spec => ImplementsLostWakeup
BY InitRefines, StepRefines, Invariance, PTL DEF Spec, ImplementsLostWakeup, Promise!Spec
-------------------------------------------------------------------------------
(***************************************************************************)
(* Candidate frontiers                                                     *)
(*                                                                         *)
(* The other frontier of a project: migration 002 keeps how far candidates *)
(* were accepted and through where they are stable, in the module          *)
(* CandidateFrontier.  Its watermark is exact at every commit, for any     *)
(* number of transactions and submissions.                                 *)
(***************************************************************************)
\* A set of naturals that is not empty has a least element, which Min finds.
LEMMA LeastExists ==
    ASSUME NEW S, S \subseteq Nat, S # {}
    PROVE  Min(S) \in S /\ \A x \in S : Min(S) <= x
<1>1. PICK m \in S : \A y \in S : ~ (<<y, m>> \in OpToRel(<, Nat))
  BY NatLessThanWellFounded, WFMin, Zenon
<1>2. \A y \in S : ~ (y < m)
  BY <1>1, Zenon DEF OpToRel
<1>3. \A y \in S : m =< y
  BY <1>2, SMT
<1> QED  BY <1>3, Zenon DEF Min

-------------------------------------------------------------------------------
(* The invariant: the frontier is exact for what is committed, and for     *)
(* the holder of its row for what the holder will commit.                  *)

\* The frontier f is exact for these submissions and dispositions.
Exact(f, S, D) ==
    /\ f \in Frontiers
    /\ S = 1..f.accepted /\ D \subseteq S
    /\ f.reconciled <= f.accepted
    /\ 1..f.reconciled \subseteq D
    /\ f.reconciled + 1 \notin D

Transactions ==
    [pc : {"OPEN", "ACCEPT", "REFRESH"}, row : 0..MaxSubmissions,
     submitted : SUBSET Sequences, stable : SUBSET Sequences, locked : BOOLEAN, frontier : Frontiers]

\* A transaction t over the committed S and D: only the holder of the row has
\* rows of its own, and its frontier counts them.
Consistent(t, S, D) ==
    /\ t \in Transactions
    /\ t.pc = "OPEN" => t.row = 0
    /\ t.pc = "REFRESH" => t.row \in S \cup t.submitted
    /\ ~t.locked => t.submitted = {} /\ t.stable = {}
    /\ t.locked => Exact(t.frontier, S \cup t.submitted, D \cup t.stable)

OneHolder == \A v, w \in Workers : tx[v].locked /\ tx[w].locked => v = w

FrontierInv ==
    /\ submitted \subseteq Sequences
    /\ Exact(frontier, submitted, stable)
    /\ tx \in [Workers -> Transactions]
    /\ \A w \in Workers : Consistent(tx[w], submitted, stable)
    /\ OneHolder

-------------------------------------------------------------------------------
(* Frontiers                                                               *)

\* The refresh is exact again after dispositions R of what was submitted.
LEMMA WatermarkIsExact ==
    ASSUME NEW f, NEW S, NEW D, Exact(f, S, D), NEW R, R \subseteq S,
           NEW g, g = [f EXCEPT !.reconciled =
                          IF Watermark(f, S, D \cup R) > f.reconciled
                          THEN Watermark(f, S, D \cup R) ELSE f.reconciled]
    PROVE  Exact(g, S, D \cup R)
<1> DEFINE E == D \cup R
           U == {n \in S \ E : f.reconciled < n /\ n <= f.accepted}
           next == Watermark(f, S, E)
<1>1. /\ f.accepted \in 0..MaxSubmissions /\ f.reconciled \in 0..MaxSubmissions /\ MaxSubmissions \in Nat
      /\ S = 1..f.accepted /\ E \subseteq S /\ 1..f.reconciled \subseteq E
      /\ f.reconciled <= f.accepted /\ f \in Frontiers
  BY CandidateFrontierAssumption, Zenon DEF Exact, Frontiers
<1>2. next = IF U = {} THEN f.accepted ELSE Min(U) - 1
  BY Zenon DEF Watermark
<1> HIDE DEF next, E
<1>3. /\ next \in 0..MaxSubmissions /\ f.reconciled <= next /\ next <= f.accepted
      /\ 1..next \subseteq E /\ next + 1 \notin E
  <2>1. CASE U = {}
    BY <1>1, <1>2, <2>1, SMT
  <2>2. CASE U # {}
    <3>1. U \subseteq Nat
      BY <1>1, SMT
    <3> DEFINE m == Min(U)
    <3>2. m \in U /\ \A x \in U : m <= x
      BY <3>1, <2>2, LeastExists, Zenon
    <3> HIDE DEF m
    <3>3. m \in Nat /\ f.reconciled < m /\ m <= f.accepted /\ m \notin E
      BY <3>1, <3>2, SMT
    <3>4. \A n \in 1..(m - 1) : n \in E
      BY <1>1, <3>2, <3>3, SMT
    <3>5. next = m - 1
      BY <1>2, <2>2, Zenon DEF m
    <3> QED  BY <1>1, <3>3, <3>4, <3>5, SMT
  <2> QED  BY <2>1, <2>2, Zenon
<1>4. g = [f EXCEPT !.reconciled = IF next > f.reconciled THEN next ELSE f.reconciled]
  BY Zenon DEF next, E
<1>5. g \in Frontiers /\ g.accepted = f.accepted /\ g.reconciled = next
  BY <1>1, <1>3, <1>4, SMT DEF Frontiers
<1> QED  BY <1>1, <1>3, <1>5, Zenon DEF Exact, E

\* What the guard lets pass changes nothing where the frontier is exact.
LEMMA GuardedIsExact ==
    ASSUME NEW f, NEW S, NEW D, Exact(f, S, D), NEW to \in Frontiers,
           f.accepted <= to.accepted, f.reconciled <= to.reconciled,
           Cardinality(S \cap (f.accepted + 1)..to.accepted) = to.accepted - f.accepted,
           Cardinality(D \cap (f.reconciled + 1)..to.reconciled) = to.reconciled - f.reconciled
    PROVE  Exact(to, S, D)
<1>1. /\ f.accepted \in Nat /\ f.reconciled \in Nat /\ to.accepted \in Nat /\ to.reconciled \in Nat
      /\ S = 1..f.accepted
  BY CandidateFrontierAssumption, SMT DEF Exact, Frontiers
<1>2. to.accepted = f.accepted
  <2>1. S \cap (f.accepted + 1)..to.accepted = {}
    BY <1>1, SMT
  <2>2. Cardinality(S \cap (f.accepted + 1)..to.accepted) = 0
    BY <2>1, FS_EmptySet, Zenon
  <2> QED  BY <1>1, <2>2, SMT
<1>3. to.reconciled = f.reconciled
  <2> SUFFICES ASSUME f.reconciled < to.reconciled PROVE FALSE
    BY <1>1, SMT
  <2> DEFINE I == (f.reconciled + 1)..to.reconciled
  <2>1. IsFiniteSet(I) /\ Cardinality(I) = to.reconciled - f.reconciled
    <3>1. f.reconciled + 1 \in Int /\ to.reconciled \in Int /\ ~(f.reconciled + 1 > to.reconciled)
      BY <1>1, SMT
    <3>2. IsFiniteSet(I) /\ Cardinality(I) = to.reconciled - (f.reconciled + 1) + 1
      BY <3>1, FS_Interval, Zenon
    <3> QED  BY <1>1, <3>2, SMT
  <2>2. D \cap I \in SUBSET I
    OBVIOUS
  <2>3. Cardinality(I) = Cardinality(D \cap I)
    BY <2>1, Zenon
  <2>4. I = D \cap I
    BY <2>1, <2>2, <2>3, FS_Subset, Zenon
  <2>5. f.reconciled + 1 \in I
    BY <1>1, SMT
  <2> QED  BY <2>4, <2>5, Zenon DEF Exact
<1> QED  BY <1>2, <1>3, Zenon DEF Exact

-------------------------------------------------------------------------------
(* Steps                                                                   *)

\* A transaction that goes on, without taking the row from another.
LEMMA GoesOn ==
    ASSUME FrontierInv, NEW w \in Workers, NEW t, Consistent(t, submitted, stable),
           t.locked => RowFree(w),
           tx' = [tx EXCEPT ![w] = t], UNCHANGED <<submitted, stable, frontier>>
    PROVE  FrontierInv'
<1>1. tx \in [Workers -> Transactions] /\ t \in Transactions
  BY Zenon DEF FrontierInv, Consistent
<1>2. tx' \in [Workers -> Transactions]
  BY <1>1, Zenon
<1>3. /\ tx'[w] = t /\ \A v \in Workers \ {w} : tx'[v] = tx[v]
  BY <1>1, Zenon
<1>4. \A v \in Workers : Consistent(tx'[v], submitted, stable)
  BY <1>3, Zenon DEF FrontierInv
<1>5. \A u, v \in Workers : tx'[u].locked /\ tx'[v].locked => u = v
  <2> TAKE u, v \in Workers
  <2>1. CASE u = w
    BY <2>1, <1>3, Zenon DEF RowFree
  <2>2. CASE v = w
    BY <2>2, <1>3, Zenon DEF RowFree
  <2>3. CASE u # w /\ v # w
    BY <2>3, <1>3, Zenon DEF FrontierInv, OneHolder
  <2> QED  BY <2>1, <2>2, <2>3
<1>6. submitted' = submitted /\ stable' = stable /\ frontier' = frontier
  OBVIOUS
<1> QED  BY <1>2, <1>4, <1>5, <1>6, Zenon DEF FrontierInv, OneHolder

\* What a transaction finds in the row once it has it is exact for what it sees.
LEMMA Found ==
    ASSUME FrontierInv, NEW w \in Workers
    PROVE  Exact(FrontierOf(w), SeesSubmitted(w), SeesStable(w))
<1>1. Consistent(tx[w], submitted, stable)
  BY Zenon DEF FrontierInv
<1>2. CASE tx[w].locked
  BY <1>1, <1>2, Zenon DEF Consistent, FrontierOf, SeesSubmitted, SeesStable
<1>3. CASE ~tx[w].locked
  <2>1. SeesSubmitted(w) = submitted /\ SeesStable(w) = stable
    BY <1>1, <1>3 DEF Consistent, SeesSubmitted, SeesStable
  <2> QED  BY <2>1, <1>3, Zenon DEF FrontierInv, FrontierOf
<1> QED  BY <1>2, <1>3

\* A transaction that is not open yet is consistent with anything.
LEMMA IdleConsistent == ASSUME NEW S, NEW D PROVE Consistent(Idle, S, D)
  BY CandidateFrontierAssumption, SMT DEF Consistent, Idle, Transactions, Frontiers, Sequences

\* An insert whose trigger is still to come.
LEMMA InsertKeeps ==
    ASSUME FrontierInv, NEW w \in Workers, NEW n \in Sequences, NEW pc \in {"ACCEPT", "REFRESH"},
           tx[w].pc = "OPEN", pc = "REFRESH" => n \in SeesSubmitted(w),
           tx' = [tx EXCEPT ![w].pc = pc, ![w].row = n], UNCHANGED <<submitted, stable, frontier>>
    PROVE  FrontierInv'
<1> DEFINE t == [tx[w] EXCEPT !.pc = pc, !.row = n]
<1>1. Consistent(tx[w], submitted, stable) /\ tx \in [Workers -> Transactions]
  BY Zenon DEF FrontierInv
<1>2. tx' = [tx EXCEPT ![w] = t]
  BY <1>1, Zenon
<1>3. n \in 0..MaxSubmissions
  BY CandidateFrontierAssumption, SMT DEF Sequences
<1>4. tx[w] \in Transactions
  BY <1>1, Zenon
<1>5. /\ t \in Transactions /\ t.pc = pc /\ t.row = n /\ t.locked = tx[w].locked
      /\ t.submitted = tx[w].submitted /\ t.stable = tx[w].stable /\ t.frontier = tx[w].frontier
  <2>1. pc \in {"OPEN", "ACCEPT", "REFRESH"}
    OBVIOUS
  <2> QED  BY <1>3, <1>4, <2>1, Zenon DEF Transactions
<1>6. Consistent(t, submitted, stable)
  BY <1>1, <1>5, Zenon DEF Consistent, SeesSubmitted
<1>7. t.locked => RowFree(w)
  BY <1>5, Zenon DEF FrontierInv, OneHolder, RowFree
<1> QED  BY <1>2, <1>6, <1>7, GoesOn, Zenon

\* A trigger or an update that has the row and writes it.
LEMMA WriteKeeps ==
    ASSUME FrontierInv, NEW w \in Workers, RowFree(w), NEW t \in Transactions,
           t.pc = "OPEN", t.row = 0, t.locked,
           Exact(t.frontier, submitted \cup t.submitted, stable \cup t.stable),
           tx' = [tx EXCEPT ![w] = t], UNCHANGED <<submitted, stable, frontier>>
    PROVE  FrontierInv'
<1>1. Consistent(t, submitted, stable)
  BY Zenon DEF Consistent
<1> QED  BY <1>1, GoesOn, Zenon

\* The trigger of a submission.
LEMMA AdvanceKeeps == ASSUME FrontierInv, NEW w \in Workers, AdvanceAccepted(w) PROVE FrontierInv'
<1> DEFINE f == FrontierOf(w)
           g == [f EXCEPT !.accepted = tx[w].row]
           t == [tx[w] EXCEPT !.pc = "OPEN", !.row = 0, !.locked = TRUE,
                              !.submitted = tx[w].submitted \cup {tx[w].row}, !.frontier = g]
<1>1. /\ tx \in [Workers -> Transactions] /\ tx[w] \in Transactions
      /\ submitted \subseteq Sequences
  BY Zenon DEF FrontierInv
<1>2. Exact(f, SeesSubmitted(w), SeesStable(w))
  BY Found, Zenon
<1>3. /\ tx[w].row = f.accepted + 1 /\ tx[w].row \in 0..MaxSubmissions
      /\ f \in Frontiers /\ f.accepted \in Nat /\ f.reconciled \in Nat
  BY <1>1, <1>2, CandidateFrontierAssumption, SMT DEF AdvanceAccepted, Exact, Frontiers, Transactions
<1>4. g \in Frontiers /\ g.accepted = f.accepted + 1 /\ g.reconciled = f.reconciled
  BY <1>3, SMT DEF Frontiers
<1>5. tx[w].row \in Sequences
  BY <1>3, SMT DEF Sequences
<1>6. /\ t \in Transactions /\ t.pc = "OPEN" /\ t.row = 0 /\ t.locked
      /\ t.submitted = tx[w].submitted \cup {tx[w].row} /\ t.stable = tx[w].stable /\ t.frontier = g
  <2>1. 0 \in 0..MaxSubmissions
    BY CandidateFrontierAssumption, SMT
  <2>2. tx[w].submitted \cup {tx[w].row} \in SUBSET Sequences
    BY <1>1, <1>5, Zenon DEF Transactions
  <2> HIDE DEF g
  <2> QED  BY <1>1, <1>4, <2>1, <2>2, Zenon DEF Transactions
<1>7. submitted \cup t.submitted = SeesSubmitted(w) \cup {tx[w].row} /\ stable \cup t.stable = SeesStable(w)
  BY <1>6, Zenon DEF SeesSubmitted, SeesStable
<1>8. SeesSubmitted(w) \cup {tx[w].row} = 1..g.accepted
  <2>1. SeesSubmitted(w) = 1..f.accepted
    BY <1>2, Zenon DEF Exact
  <2> QED  BY <2>1, <1>3, <1>4, SMT
<1>9. Exact(g, SeesSubmitted(w) \cup {tx[w].row}, SeesStable(w))
  <2>1. g.reconciled <= g.accepted
    BY <1>2, <1>3, <1>4, SMT DEF Exact
  <2> QED  BY <1>2, <1>4, <1>8, <2>1, Zenon DEF Exact
<1>10. tx' = [tx EXCEPT ![w] = t] /\ RowFree(w) /\ UNCHANGED <<submitted, stable, frontier>>
  <2>1. tx' = [tx EXCEPT ![w] = [tx[w] EXCEPT !.pc = "OPEN", !.row = 0, !.locked = TRUE,
                                    !.submitted = tx[w].submitted \cup {tx[w].row}, !.frontier = g]]
    BY <1>1 DEF AdvanceAccepted
  <2> QED  BY <2>1, Zenon DEF AdvanceAccepted
<1> QED  BY <1>6, <1>7, <1>9, <1>10, WriteKeeps, ZenonT(40)

\* The trigger of a disposition, and a refresh on its own.
LEMMA RefreshKeeps == ASSUME FrontierInv, NEW w \in Workers, Refresh(w) PROVE FrontierInv'
<1> DEFINE f == FrontierOf(w)
           R == {tx[w].row} \ {0}
           next == Watermark(f, SeesSubmitted(w), SeesStable(w) \cup R)
           g == [f EXCEPT !.reconciled = IF next > f.reconciled THEN next ELSE f.reconciled]
           t == [tx[w] EXCEPT !.pc = "OPEN", !.row = 0, !.locked = TRUE,
                              !.stable = tx[w].stable \cup R, !.frontier = g]
<1>1. /\ tx \in [Workers -> Transactions] /\ tx[w] \in Transactions
      /\ Consistent(tx[w], submitted, stable)
  BY Zenon DEF FrontierInv
<1>2. Exact(f, SeesSubmitted(w), SeesStable(w))
  BY Found, Zenon
<1>3. R \subseteq SeesSubmitted(w)
  BY <1>1, Zenon DEF Refresh, Consistent, SeesSubmitted
<1>4. Exact(g, SeesSubmitted(w), SeesStable(w) \cup R)
  BY <1>2, <1>3, WatermarkIsExact, Zenon
<1>5. g \in Frontiers /\ R \subseteq Sequences
  <2>1. g \in Frontiers
    BY <1>4, Zenon DEF Exact
  <2>2. tx[w].row \in 0..MaxSubmissions
    BY <1>1, Zenon DEF Transactions
  <2> QED  BY <2>1, <2>2, CandidateFrontierAssumption, SMT DEF Sequences
<1> HIDE DEF g, R
<1>6. /\ t \in Transactions /\ t.pc = "OPEN" /\ t.row = 0 /\ t.locked
      /\ t.submitted = tx[w].submitted /\ t.stable = tx[w].stable \cup R /\ t.frontier = g
  <2>1. 0 \in 0..MaxSubmissions
    BY CandidateFrontierAssumption, SMT
  <2>2. tx[w].stable \cup R \in SUBSET Sequences
    BY <1>1, <1>5, Zenon DEF Transactions
  <2> QED  BY <1>1, <1>5, <2>1, <2>2, Zenon DEF Transactions
<1>7. submitted \cup t.submitted = SeesSubmitted(w) /\ stable \cup t.stable = SeesStable(w) \cup R
  BY <1>6, Zenon DEF SeesSubmitted, SeesStable
<1>8. tx' = [tx EXCEPT ![w] = t] /\ RowFree(w) /\ UNCHANGED <<submitted, stable, frontier>>
  <2>1. tx' = [tx EXCEPT ![w] = [tx[w] EXCEPT !.pc = "OPEN", !.row = 0, !.locked = TRUE,
                                    !.stable = tx[w].stable \cup R, !.frontier = g]]
    BY <1>1 DEF Refresh, g, R
  <2> QED  BY <2>1, Zenon DEF Refresh
<1> QED  BY <1>4, <1>6, <1>7, <1>8, WriteKeeps, Zenon

\* A direct update that passes the guard.
LEMMA UpdateKeeps ==
    ASSUME FrontierInv, NEW w \in Workers, NEW to \in Frontiers, Update(w, to)
    PROVE  FrontierInv'
<1> DEFINE t == [tx[w] EXCEPT !.locked = TRUE, !.frontier = to]
<1>1. /\ tx \in [Workers -> Transactions] /\ tx[w] \in Transactions
      /\ Consistent(tx[w], submitted, stable)
  BY Zenon DEF FrontierInv
<1>2. Exact(FrontierOf(w), SeesSubmitted(w), SeesStable(w))
  BY Found, Zenon
<1>3. Exact(to, SeesSubmitted(w), SeesStable(w))
  BY <1>2, GuardedIsExact, Zenon DEF Update, Guard
<1>4. /\ t \in Transactions /\ t.pc = "OPEN" /\ t.row = 0 /\ t.locked
      /\ t.submitted = tx[w].submitted /\ t.stable = tx[w].stable /\ t.frontier = to
  <2>1. tx[w].pc = "OPEN" /\ tx[w].row = 0
    BY <1>1, Zenon DEF Update, Consistent
  <2> QED  BY <1>1, <2>1, Zenon DEF Transactions
<1>5. submitted \cup t.submitted = SeesSubmitted(w) /\ stable \cup t.stable = SeesStable(w)
  BY <1>4, Zenon DEF SeesSubmitted, SeesStable
<1>6. tx' = [tx EXCEPT ![w] = t] /\ RowFree(w) /\ UNCHANGED <<submitted, stable, frontier>>
  BY <1>1, Zenon DEF Update
<1> QED  BY <1>3, <1>4, <1>5, <1>6, WriteKeeps, Zenon

\* A commit; without the row there is nothing to commit.
LEMMA CommitKeeps == ASSUME FrontierInv, NEW w \in Workers, Commit(w) PROVE FrontierInv'
<1>1. /\ submitted' = SeesSubmitted(w) /\ stable' = SeesStable(w) /\ frontier' = FrontierOf(w)
      /\ tx' = [tx EXCEPT ![w] = Idle] /\ tx \in [Workers -> Transactions]
  BY Zenon DEF Commit, FrontierInv
<1>2. Exact(frontier', submitted', stable')
  BY <1>1, Found, Zenon
<1>3. Consistent(Idle, submitted', stable')
  BY IdleConsistent
<1>4. tx' \in [Workers -> Transactions] /\ tx'[w] = Idle /\ \A v \in Workers \ {w} : tx'[v] = tx[v]
  BY <1>1, <1>3, Zenon DEF Consistent
<1>5. submitted' \subseteq Sequences
  <2>1. tx[w] \in Transactions /\ submitted \subseteq Sequences
    BY Zenon DEF FrontierInv
  <2>2. tx[w].submitted \subseteq Sequences
    BY <2>1, Zenon DEF Transactions
  <2> QED  BY <1>1, <2>1, <2>2, Zenon DEF SeesSubmitted
<1>6. \A v \in Workers : Consistent(tx'[v], submitted', stable')
  <2> TAKE v \in Workers
  <2>1. CASE v = w
    BY <1>3, <1>4, <2>1, Zenon
  <2>2. CASE v # w /\ tx[w].locked
    <3>1. tx'[v] = tx[v] /\ ~tx[v].locked /\ Consistent(tx[v], submitted, stable)
      BY <1>4, <2>2, Zenon DEF FrontierInv, OneHolder
    <3>2. submitted \subseteq submitted'
      BY <1>1, Zenon DEF SeesSubmitted
    <3> QED  BY <3>1, <3>2, Zenon DEF Consistent
  <2>3. CASE v # w /\ ~tx[w].locked
    <3>1. Consistent(tx[w], submitted, stable)
      BY Zenon DEF FrontierInv
    <3>2. submitted' = submitted /\ stable' = stable
      BY <3>1, <1>1, <2>3 DEF Consistent, SeesSubmitted, SeesStable
    <3>3. tx'[v] = tx[v] /\ Consistent(tx[v], submitted, stable)
      BY <1>4, <2>3, Zenon DEF FrontierInv
    <3> QED  BY <3>2, <3>3, Zenon
  <2> QED  BY <2>1, <2>2, <2>3
<1>7. OneHolder'
  <2>1. ~Idle.locked
    BY DEF Idle
  <2> QED  BY <1>4, <2>1, Zenon DEF FrontierInv, OneHolder
<1> QED  BY <1>2, <1>4, <1>5, <1>6, <1>7, Zenon DEF FrontierInv

\* A rollback.
LEMMA RollbackKeeps == ASSUME FrontierInv, NEW w \in Workers, Rollback(w) PROVE FrontierInv'
<1>1. Consistent(Idle, submitted, stable) /\ ~Idle.locked
  BY IdleConsistent DEF Idle
<1> QED  BY <1>1, GoesOn, Zenon DEF Rollback

\* The invariant holds at first.
LEMMA FrontierInitially == FrontierInit => FrontierInv
<1> SUFFICES ASSUME FrontierInit PROVE FrontierInv
  OBVIOUS
<1>1. Exact(frontier, submitted, stable)
  BY CandidateFrontierAssumption, SMT DEF FrontierInit, Exact, Frontiers
<1>2. \A w \in Workers : tx[w] = Idle
  BY Zenon DEF FrontierInit
<1>3. Idle \in Transactions /\ ~Idle.locked
  BY CandidateFrontierAssumption, SMT DEF Idle, Transactions, Frontiers, Sequences
<1>4. tx \in [Workers -> Transactions]
  BY <1>3, Zenon DEF FrontierInit
<1>5. \A w \in Workers : Consistent(tx[w], submitted, stable)
  BY <1>2, IdleConsistent, Zenon
<1>6. OneHolder /\ submitted \subseteq Sequences
  BY <1>2, <1>3 DEF OneHolder, FrontierInit
<1> QED  BY <1>1, <1>4, <1>5, <1>6, Zenon DEF FrontierInv

\* Every step keeps the invariant.
LEMMA FrontierStepwise == FrontierInv /\ [FrontierNext]_frontierVars => FrontierInv'
<1> SUFFICES ASSUME FrontierInv, [FrontierNext]_frontierVars PROVE FrontierInv'
  OBVIOUS
<1>1. CASE UNCHANGED frontierVars
  BY <1>1, Zenon DEF frontierVars, FrontierInv, OneHolder
<1>2. ASSUME NEW w \in Workers, NEW n \in Sequences, Submit(w, n) PROVE FrontierInv'
  BY <1>2, InsertKeeps, Zenon DEF Submit
<1>3. ASSUME NEW w \in Workers, NEW n \in Sequences, Dispose(w, n) PROVE FrontierInv'
  <2>1. n \in SeesSubmitted(w)
    BY <1>3, Zenon DEF Dispose
  <2> QED  BY <1>3, <2>1, InsertKeeps, Zenon DEF Dispose
<1> QED
  BY <1>1, <1>2, <1>3, AdvanceKeeps, RefreshKeeps, UpdateKeeps, CommitKeeps, RollbackKeeps, Zenon DEF FrontierNext

\* The invariant holds throughout.
LEMMA FrontierInvariance == FrontierSpec => []FrontierInv
  BY FrontierInitially, FrontierStepwise, PTL DEF FrontierSpec

-------------------------------------------------------------------------------

\* The columns keep their types, what is stable was submitted, and one
\* transaction at most holds the frontier row.
THEOREM FrontierTypeCorrect == FrontierSpec => []FrontierTypeOK
<1>1. FrontierInv => FrontierTypeOK
  BY Zenon DEF FrontierInv, FrontierTypeOK, Exact, OneHolder, Transactions
<1> QED  BY <1>1, FrontierInvariance, PTL

\* However transactions interleave and whoever updates the row directly, what
\* is accepted has no gap and the watermark of the triggers is exact.
THEOREM WatermarkCorrect == FrontierSpec => []WatermarkExact
<1>1. FrontierInv => WatermarkExact
  BY Zenon DEF FrontierInv, WatermarkExact, Exact
<1> QED  BY <1>1, FrontierInvariance, PTL
===============================================================================
