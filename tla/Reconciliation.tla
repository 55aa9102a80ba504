--------------------------- MODULE Reconciliation ---------------------------
(***************************************************************************)
(* Reconciliation of candidates with what a project knows: application/    *)
(* reconciliation.ts over adapters/reconciliation.ts and migration 012.    *)
(*                                                                         *)
(* A call loads its material in a READ COMMITTED transaction, statement by *)
(* statement: the basis with most facts first, the qualification of the    *)
(* evidence after it.  Rules decide or a model is asked, which takes as    *)
(* long as it takes, and the result is committed under the project row in  *)
(* a later transaction that compares the basis again.  Any number of calls *)
(* run at once, and each may end anywhere.                                 *)
(*                                                                         *)
(* commit_reconciliation_result is one step, at its comparison of the      *)
(* frontier: the other versions are compared later, but never move back,   *)
(* or only under the project row.                                          *)
(***************************************************************************)
EXTENDS ConflictUncertainty

CONSTANTS Workers,       \* callers of the service
          Route,         \* for each model of the route: is it usable?
          MaxAttempts,   \* attempts at each model of the route
          ModelClasses,  \* classes a valid answer of a model may have
          MaxDecisions,  \* bound: reconciliation records
          MaxWrites      \* bound: writes to what reconciliation decides on

ASSUME ReconciliationAssumption ==
    /\ Route \in Seq(BOOLEAN) /\ Len(Route) > 0
    /\ MaxAttempts \in 1..5
    /\ ModelClasses \subseteq {"NEW", "CHANGED", "SUPERSEDED", "CONFLICTING", "OBSOLETE",
                               "UNCERTAIN", "UNCHANGED"}
    /\ {MaxDecisions, MaxWrites} \subseteq Nat

VARIABLES records,   \* reconciliation_records in the order of their commits
          current,   \* reconciliation_current_states: an index into records, or 0
          invoked,   \* model_invocation_attempts
          call       \* the call each worker is in

vars == <<knowledge, records, current, invoked, call>>

Classes == {"NEW", "CHANGED", "SUPERSEDED", "CONFLICTING", "OBSOLETE", "UNCERTAIN", "UNCHANGED"}
Bases == [record : Nat, version : Nat, working : Nat, authority : Nat, frontier : Nat, integrity : Nat]
FactKinds == {"DUPLICATE", "EXACT", "CONFLICT", "UNCERTAINTY", "HISTORICAL", "NO_CURRENT"}
Results == {r \in [path : {"DETERMINISTIC", "MODEL"}, class : Classes, claim : Claims \cup {"none"}] :
               r.class = "UNCHANGED" <=> r.claim = "none"}

NoBasis == [record |-> 0, version |-> 0, working |-> 0, authority |-> 0, frontier |-> 0,
            integrity |-> 0]
NoResult == [path |-> "NONE", class |-> "NONE", claim |-> "none"]
Idle == [pc |-> "IDLE", candidate |-> "none", basis |-> NoBasis, facts |-> {},
         connected |-> FALSE, attempt |-> 0, result |-> NoResult]

\* The columns keep their types, and a call has what its place in the code needs.
TypeOK ==
    /\ KnowledgeTypeOK
    /\ records \in Seq([candidate : Candidates, basis : Bases, result : Results])
    /\ current \in [Candidates -> 0..Len(records)]
    /\ invoked \subseteq [candidate : Candidates, basis : Bases, attempt : Nat, succeeded : BOOLEAN]
    /\ \A w \in Workers :
          \/ call[w] = Idle
          \/ call[w] \in [pc : {"READ", "ASK", "COMMIT"}, candidate : Candidates, basis : Bases,
                          facts : SUBSET FactKinds, connected : BOOLEAN,
                          attempt : 0..Len(Route) * MaxAttempts, result : Results \cup {NoResult}]

Init ==
    /\ KnowledgeInit
    /\ records = << >>
    /\ current = [c \in Candidates |-> 0]
    /\ invoked = {}
    /\ call = [w \in Workers |-> Idle]

-------------------------------------------------------------------------------
(* Basis, facts and the deterministic rules                                *)

\* The newest instant of the identity's Working items.
WorkingVersion(i) == Max({0} \cup {item[c].at : c \in {d \in Candidates : IdentityOf[d] = i}})

Basis(i) ==
    [record |-> Current(i), version |-> identity[i].version, working |-> WorkingVersion(i),
     authority |-> source.authority, frontier |-> 2 * source.desired + source.ingested,
     integrity |-> IntegrityVersion(i)]

\* Another candidate with this assertion, whatever became of it.
Duplicate(c) ==
    \E d \in Candidates \ {c} :
        IdentityOf[d] = IdentityOf[c] /\ Claim[d] = Claim[c] /\ item[d].trust # "NONE"

\* What the main statement tells about the candidate c.
Facts(c) ==
    LET i == IdentityOf[c]
        past == identity[i].records IN
    {f \in FactKinds :
        \/ f = "DUPLICATE" /\ Duplicate(c)
        \/ f = "EXACT" /\ past # << >> /\ past[Len(past)] = Claim[c]
        \/ f = "CONFLICT" /\ ActiveConflict(i)
        \/ f = "UNCERTAINTY" /\ ActiveUncertainty(i)
        \/ f = "HISTORICAL" /\ \E n \in 1..(Len(past) - 1) : past[n] = Claim[c]
        \/ f = "NO_CURRENT" /\ past = << >>}

Qualified(c, connected) ==
    c \in SourceDerived => EvidenceQualification(connected) = "EFFECTIVE"

\* deterministicReconciliation: the first rule that applies decides.
Verdict(facts, qualified) ==
    IF facts \cap {"DUPLICATE", "EXACT"} # {} THEN "UNCHANGED"
    ELSE IF ~qualified THEN "UNCERTAIN"
    ELSE IF "CONFLICT" \in facts THEN "CONFLICTING"
    ELSE IF "UNCERTAINTY" \in facts THEN "UNCERTAIN"
    ELSE IF "HISTORICAL" \in facts THEN "SUPERSEDED"
    ELSE IF "NO_CURRENT" \in facts THEN "NEW"
    ELSE "OPEN"

\* MUTANT: what did not change goes with its assertion all the same.
ResultWithClaim(path, class, claim) == [path |-> path, class |-> class, claim |-> claim]

\* An assertion goes with every class but UNCHANGED.
Result(path, class, claim) ==
    [path |-> path, class |-> class, claim |-> IF class = "UNCHANGED" THEN "none" ELSE claim]

-------------------------------------------------------------------------------
(* Loading                                                                 *)

\* The main statement finds the candidate with an active identity.
LoadCandidate(w, c) ==
    /\ call[w].pc = "IDLE"
    /\ item[c].trust # "NONE" /\ identity[IdentityOf[c]].state = "ACTIVE"
    /\ call' = [call EXCEPT ![w] = [Idle EXCEPT !.pc = "READ", !.candidate = c,
                                        !.basis = Basis(IdentityOf[c]), !.facts = Facts(c)]]
    /\ UNCHANGED <<knowledge, records, current, invoked>>

\* The attempt a is the next at the model it falls to; a model of the wrong
\* privacy class or without a provider ends the call, and so does the end of
\* the route.
Attempt(material, a) ==
    IF a <= Len(Route) * MaxAttempts /\ Route[((a - 1) \div MaxAttempts) + 1]
    THEN [material EXCEPT !.pc = "ASK", !.attempt = a, !.result = NoResult]
    ELSE Idle

\* The evidence of a candidate that has some, as it is now; then the rules.
LoadEvidence(w) ==
    LET c == call[w].candidate
        material == [call[w] EXCEPT !.connected = source.connected, !.facts = {}]
        verdict == Verdict(call[w].facts, Qualified(c, source.connected)) IN
    /\ call[w].pc = "READ"
    /\ call' = [call EXCEPT ![w] =
                   IF verdict = "OPEN" THEN Attempt(material, 1)
                   ELSE [material EXCEPT !.pc = "COMMIT",
                                         !.result = Result("DETERMINISTIC", verdict, Claim[c])]]
    /\ UNCHANGED <<knowledge, records, current, invoked>>

-------------------------------------------------------------------------------
(* Asking a model                                                          *)

Invocation(w, succeeded) ==
    [candidate |-> call[w].candidate, basis |-> call[w].basis, attempt |-> call[w].attempt,
     succeeded |-> succeeded]

\* record_model_invocation_attempt: a row with this number stays as it is.
Accounted(row) ==
    IF \E old \in invoked : [old EXCEPT !.succeeded = row.succeeded] = row
    THEN invoked ELSE invoked \cup {row}

\* What the schema accepts of an answer: any class, and a claim that goes with it.
Accepted == {Result("MODEL", class, claim) : class \in ModelClasses, claim \in Claims}

\* An accepted answer is accounted for before it is committed.
Answer(w) ==
    /\ call[w].pc = "ASK"
    /\ invoked' = Accounted(Invocation(w, TRUE))
    /\ \E result \in Accepted :
          call' = [call EXCEPT ![w].pc = "COMMIT", ![w].result = result]
    /\ UNCHANGED <<knowledge, records, current>>

\* A timeout or an outage is tried again; a refusal or a malformed answer is not.
Fail(w) ==
    /\ call[w].pc = "ASK"
    /\ invoked' = Accounted(Invocation(w, FALSE))
    /\ \E next \in {Attempt(call[w], call[w].attempt + 1), Idle} : call' = [call EXCEPT ![w] = next]
    /\ UNCHANGED <<knowledge, records, current>>

\* The caller goes away, or a statement fails.
Abandon(w) ==
    /\ call[w].pc # "IDLE"
    /\ call' = [call EXCEPT ![w] = Idle]
    /\ UNCHANGED <<knowledge, records, current, invoked>>

-------------------------------------------------------------------------------
(* commit_reconciliation_result                                            *)

Decided(c, basis) == \E n \in DOMAIN records : records[n].candidate = c /\ records[n].basis = basis

\* MUTANT: the authority of the source is not compared.
FreshWithoutAuthority(c, basis) ==
    /\ identity[IdentityOf[c]].state = "ACTIVE"
    /\ [basis EXCEPT !.authority = source.authority] = Basis(IdentityOf[c])

\* Every version of the basis is the present one.
Fresh(c, basis) == identity[IdentityOf[c]].state = "ACTIVE" /\ basis = Basis(IdentityOf[c])

\* A basis that was decided before answers with that decision.
Replay(w) ==
    /\ call[w].pc = "COMMIT" /\ Decided(call[w].candidate, call[w].basis)
    /\ call' = [call EXCEPT ![w] = Idle]
    /\ UNCHANGED <<knowledge, records, current, invoked>>

\* STALE_*_BASIS: a deterministic call ends with it, a model's is counted as a
\* failure of transport and asked again about the same material.
CommitStale(w) ==
    /\ call[w].pc = "COMMIT"
    /\ ~Decided(call[w].candidate, call[w].basis) /\ ~Fresh(call[w].candidate, call[w].basis)
    /\ IF call[w].result.path = "MODEL"
       THEN /\ invoked' = Accounted(Invocation(w, FALSE))
            /\ call' = [call EXCEPT ![w] = Attempt(call[w], call[w].attempt + 1)]
       ELSE UNCHANGED invoked /\ call' = [call EXCEPT ![w] = Idle]
    /\ UNCHANGED <<knowledge, records, current>>

\* MUTANT: an unchanged assertion is written too.
Worked(c, result) == [item EXCEPT ![c] = [trust |-> "RECONCILED", claim |-> result.claim, at |-> clock']]

\* The Working item takes the assertion, unless nothing changed.
Reconciled(c, result) == IF result.class = "UNCHANGED" THEN item ELSE Worked(c, result)

Commit(w) ==
    LET c == call[w].candidate IN
    /\ call[w].pc = "COMMIT" /\ Len(records) < MaxDecisions
    /\ ~Decided(c, call[w].basis) /\ Fresh(c, call[w].basis)
    /\ clock' = clock + 1
    /\ item' = Reconciled(c, call[w].result)
    /\ records' = Append(records, [candidate |-> c, basis |-> call[w].basis, result |-> call[w].result])
    /\ current' = [current EXCEPT ![c] = Len(records')]
    /\ call' = [call EXCEPT ![w] = Idle]
    /\ UNCHANGED <<identity, source, integrity, invoked>>

-------------------------------------------------------------------------------
\* The writes so far; being disconnected counts for one as well.
Written ==
    (IF source.connected THEN 0 ELSE 1) + source.authority + source.desired + source.ingested - 3
    + MapThenSumSet(LAMBDA i : identity[i].version - 1 + IntegrityVersion(i), Identities)
    + Cardinality({c \in Candidates : item[c].trust # "NONE"})

\* A write of the rest of the system: of those that hold the project row, then
\* of those that take no notice of it.
Write(action) == Written < MaxWrites /\ action /\ UNCHANGED <<records, current, invoked, call>>

Next ==
    \/ \E i \in Identities : Write(PutRecord(i)) \/ Write(EndIdentity(i))
    \/ \E s \in Subjects :
          \/ Write(EstablishConflict(s)) \/ Write(EndConflict(s))
          \/ Write(EstablishUncertainty(s)) \/ Write(EndUncertainty(s))
    \/ Write(DecideAuthority)
    \/ Write(Observe) \/ Write(CompleteIngestion) \/ Write(ToggleConnection)
    \/ \E c \in Candidates : Write(Intake(c))
    \/ \E w \in Workers :
          \/ \E c \in Candidates : LoadCandidate(w, c)
          \/ LoadEvidence(w) \/ Answer(w) \/ Fail(w) \/ Abandon(w)
          \/ Replay(w) \/ CommitStale(w) \/ Commit(w)

Spec == Init /\ [][Next]_vars

-------------------------------------------------------------------------------

\* A decision rests on what is true when it is committed: the rules, applied to
\* the present facts, say what was committed, and a model's answer counts only
\* where the rules leave the question open.  (The connection is as it was read:
\* the basis does not include it.)  Between the two transactions records,
\* authority, observations, other candidates, conflicts and decisions come and go.
DecidedOnPresentFacts ==
    [][\A w \in Workers :
          records' # records /\ call'[w] # call[w] =>
              LET c == call[w].candidate
                  verdict == Verdict(Facts(c), Qualified(c, call[w].connected)) IN
              IF call[w].result.path = "MODEL" THEN verdict = "OPEN"
              ELSE verdict = call[w].result.class]_vars

\* The two projections agree with the history: the current row of a candidate is
\* its latest decision, its Working item the latest one that was not UNCHANGED.
\* Calls with one basis, of which one replays, must not disturb either.
ProjectionsFollowRecords ==
    \A c \in Candidates :
        LET all == {n \in DOMAIN records : records[n].candidate = c}
            changing == {n \in all : records[n].result.class # "UNCHANGED"} IN
        /\ current[c] = Max({0} \cup all)
        /\ IF changing = {} THEN item[c].trust # "RECONCILED"
           ELSE item[c].trust = "RECONCILED" /\ item[c].claim = records[Max(changing)].result.claim
===============================================================================
