---------------------------- MODULE SourceAuthority ----------------------------
(***************************************************************************)
(* Who may speak for what: the reviewed source authority of one project    *)
(* (migration 008), the live state of the sources it names, and the        *)
(* resolver of migration 010 that reads both.                              *)
(*                                                                         *)
(* Connections, frontiers and evidence belong to GitHubConnection and      *)
(* SourceIngestion; here each of their transactions is one action on the   *)
(* columns the resolver looks at.  set_source_authority and its kin hold   *)
(* the project row "for update" until they commit: `lock` says which       *)
(* client's open transaction does (see ContextRecords).                    *)
(***************************************************************************)
EXTENDS Integers, Sequences, FiniteSets

CONSTANTS Clients,
          Sources, Refs,
          FirstBranch,   \* the default branch each source was connected with
          Scopes,        \* [facet, path, selector, ref], the identity of a scope row
          Files,         \* <<source, ref, repository path>> that ingestion finds
          MaxDecisions,  \* bound: assignments and revocations
          MaxSequence,   \* bound: observations of each ref of a source
          MaxChanges     \* bound: losses and verifications of connections

NoRef == "none"

Selectors == {"ANY_REF", "DEFAULT_BRANCH", "EXACT_REF"}

\* Paths are sequences of characters, << >> is the scope key "/" of a project.
\* The table's checks: an exact selector has a ref, the others have none.
ASSUME SourceAuthorityAssumption ==
    /\ NoRef \notin Refs
    /\ Scopes \subseteq [facet : STRING, path : Seq(STRING), selector : Selectors,
                        ref : Refs \cup {NoRef}]
    /\ \A s \in Scopes : s.selector # "EXACT_REF" => s.ref = NoRef
    /\ Files \subseteq Sources \X Refs \X Seq(STRING)
    /\ FirstBranch \in [Sources -> Refs]
    /\ MaxDecisions \in Nat /\ MaxChanges \in Nat /\ MaxSequence \in [Sources \X Refs -> Nat]

VARIABLES lock,          \* clients whose transaction holds the project row, at most one
          scope,         \* source_authority_scopes: version, current_assignment
          assignments,   \* source_authority_assignments
          endings,       \* source_authority_assignment_endings
          connection,    \* github_source_connections: state, default branch
          frontier,      \* source_frontier_states of each ref of a source
          evidence,      \* evidence_references
          changes        \* connection changes so far, only for the bound

reviewed == <<scope, assignments, endings>>
observed == <<connection, frontier, evidence, changes>>

Units == Sources \X Refs
Facets == {s.facet : s \in Scopes}

\* An assignment's id is its scope and version, which are unique together.
Nobody == 0
Assignments == [scope : Scopes, version : Nat \ {0}, source : Sources,
                snapshot : Refs \cup {NoRef}, supersedes : Nat]
Endings == [scope : Scopes, ended : Nat \ {0}, version : Nat \ {0}, successor : Nat]

TheAssignment(s, v) == CHOOSE a \in assignments : a.scope = s /\ a.version = v
CurrentAssignment(s) == TheAssignment(s, scope[s].current)

AuthorityTypeOK ==
    /\ lock \subseteq Clients /\ Cardinality(lock) <= 1
    /\ scope \in [Scopes -> [version : Nat, current : Nat]]
    /\ assignments \subseteq Assignments /\ endings \subseteq Endings
    /\ connection \in [Sources -> [state : {"ACTIVE", "LOST"}, branch : Refs]]
    /\ frontier \in [Units -> [desired : Nat, ingested : Nat]]
    /\ \A e \in evidence : /\ <<e.source, e.ref, e.path>> \in Files
                           /\ e.sequence \in 1..frontier[<<e.source, e.ref>>].desired
    /\ changes \in 0..MaxChanges

\* The sources are connected and nothing has been reviewed or observed.
AuthorityInit ==
    /\ lock = {}
    /\ scope = [s \in Scopes |-> [version |-> 0, current |-> Nobody]]
    /\ assignments = {} /\ endings = {}
    /\ connection = [s \in Sources |-> [state |-> "ACTIVE", branch |-> FirstBranch[s]]]
    /\ frontier = [u \in Units |-> [desired |-> 0, ingested |-> 0]]
    /\ evidence = {} /\ changes = 0

-------------------------------------------------------------------------------
(* Source authority decisions                                              *)

\* MUTANT: the mutation does not wait for the project row.
ProjectNeverHeld == TRUE

ProjectFree == lock = {}

Decisions == Cardinality(assignments) + Cardinality({e \in endings : e.successor = Nobody})

\* MUTANT: the assignment that is replaced gets no ending.
EndedBySilently(s, successor) == endings

EndedBy(s, successor) ==
    IF scope[s].current = Nobody THEN endings
    ELSE endings \cup {[scope |-> s, ended |-> scope[s].current,
                        version |-> scope[s].version + 1, successor |-> successor]}

\* set_source_authority: a new version of the scope, ending the one before.
\* The version the reviewer expects is the scope's, all others are refused.
SetSourceAuthority ==
    \E s \in Scopes, src \in Sources :
        /\ ProjectFree /\ connection[src].state = "ACTIVE"
        /\ Decisions < MaxDecisions
        /\ assignments' = assignments \cup
              {[scope |-> s, version |-> scope[s].version + 1, source |-> src,
                snapshot |-> IF s.selector = "DEFAULT_BRANCH" THEN connection[src].branch ELSE NoRef,
                supersedes |-> scope[s].current]}
        /\ endings' = EndedBy(s, scope[s].version + 1)
        /\ scope' = [scope EXCEPT ![s] = [version |-> scope[s].version + 1,
                                          current |-> scope[s].version + 1]]
        /\ UNCHANGED <<lock, observed>>

\* revoke_source_authority: nothing takes the place of the current assignment.
RevokeSourceAuthority ==
    \E s \in Scopes :
        /\ ProjectFree /\ scope[s].current # Nobody
        /\ Decisions < MaxDecisions
        /\ endings' = EndedBy(s, Nobody)
        /\ scope' = [scope EXCEPT ![s] = [version |-> scope[s].version + 1, current |-> Nobody]]
        /\ UNCHANGED <<lock, assignments, observed>>

-------------------------------------------------------------------------------
(* Connections, frontiers and evidence, none of which waits for reviewers  *)
(* except the verification of a connection, which holds the project row.   *)

Bounded == changes < MaxChanges /\ changes' = changes + 1

\* apply_github_lifecycle_signal: any of the states that are not ACTIVE, which the
\* update writes to every connection of the Project of a source it is about.
LoseSources ==
    /\ (\E src \in Sources : connection[src].state = "ACTIVE") /\ Bounded
    /\ connection' = [src \in Sources |-> [connection[src] EXCEPT !.state = "LOST"]]
    /\ UNCHANGED <<lock, reviewed, frontier, evidence>>

\* connect_github_repository, again for the same repository: what GitHub says
\* of it now, its default branch too, replaces what was known.
VerifySource(src, branch) ==
    /\ ProjectFree /\ Bounded
    /\ connection' = [connection EXCEPT ![src] = [state |-> "ACTIVE", branch |-> branch]]
    /\ UNCHANGED <<lock, reviewed, frontier, evidence>>

\* schedule_source_observation: a new revision of the ref is desired.
Observe(u) ==
    /\ connection[u[1]].state = "ACTIVE" /\ frontier[u].desired < MaxSequence[u]
    /\ frontier' = [frontier EXCEPT ![u].desired = @ + 1]
    /\ UNCHANGED <<lock, reviewed, connection, evidence, changes>>

\* record_evidence_reference, while the observation is being ingested.
RecordEvidence(u) ==
    /\ connection[u[1]].state = "ACTIVE"
    /\ \E n \in frontier[u].ingested + 1..frontier[u].desired, f \in Files :
          /\ <<f[1], f[2]>> = u
          /\ evidence' = evidence \cup
                {[source |-> u[1], ref |-> u[2], sequence |-> n, path |-> f[3]]}
    /\ UNCHANGED <<lock, reviewed, connection, frontier, changes>>

\* MUTANT: evidence of observations ingested earlier is deleted too.
CoalescedFromStart(u, target) ==
    {e \in evidence : <<e.source, e.ref>> = u /\ e.sequence < target}

Coalesced(u, target) ==
    {e \in evidence : <<e.source, e.ref>> = u /\ e.sequence \in frontier[u].ingested + 1..target - 1}

\* complete_source_ingestion: evidence of the observations skipped goes away.
CompleteIngestion(u) ==
    /\ connection[u[1]].state = "ACTIVE"
    /\ \E target \in frontier[u].ingested + 1..frontier[u].desired :
          /\ frontier' = [frontier EXCEPT ![u].ingested = target]
          /\ evidence' = evidence \ Coalesced(u, target)
    /\ UNCHANGED <<lock, reviewed, connection, changes>>

SourceStep ==
    \/ LoseSources
    \/ \E src \in Sources, b \in Refs : VerifySource(src, b)
    \/ \E u \in Units : Observe(u) \/ RecordEvidence(u) \/ CompleteIngestion(u)

AuthorityStep == SetSourceAuthority \/ RevokeSourceAuthority

-------------------------------------------------------------------------------
(* qualify_source_authority_assignment and resolve_effective_source_authority *)

Current(u) == frontier[u].desired # 0 /\ frontier[u].desired <= frontier[u].ingested

\* The ref of the question, else the one the scope implies, else none.
TargetRef(a, ref) ==
    CASE ref # NoRef -> ref
      [] ref = NoRef /\ a.scope.selector = "DEFAULT_BRANCH" -> connection[a.source].branch
      [] OTHER -> a.scope.ref

\* The refs one of which has to be current.
Applicable(a, ref) ==
    IF TargetRef(a, ref) # NoRef THEN {<<a.source, TargetRef(a, ref)>>}
    ELSE {u \in Units : u[1] = a.source}

\* The connection is gone, or its default branch is not the one reviewed.
Degraded(a) ==
    CASE connection[a.source].state # "ACTIVE" -> "SOURCE_UNAVAILABLE"
      [] /\ connection[a.source].state = "ACTIVE"
         /\ a.scope.selector = "DEFAULT_BRANCH" /\ a.snapshot # connection[a.source].branch
         -> "REVALIDATION_REQUIRED"
      [] OTHER -> "NO"

Qualification(a, ref) ==
    LET refs == Applicable(a, ref) IN
    IF Degraded(a) # "NO" THEN Degraded(a)
    ELSE IF \A u \in refs : frontier[u].desired = 0 THEN "SOURCE_UNOBSERVED"
    ELSE IF \A u \in refs : ~Current(u) THEN "SOURCE_BEHIND"
    ELSE "EFFECTIVE"

\* repository_path LIKE scope_key || '/%': "_" in the key stands for any character.
Like(key, path) ==
    /\ Len(path) > Len(key) /\ path[Len(key) + 1] = "/"
    /\ \A i \in 1..Len(key) : key[i] \in {"_", path[i]}

Covers(s, path) == s.path = << >> \/ s.path = path \/ Like(s.path, path)

RefRank(s) == CASE s.selector = "EXACT_REF" -> 2
                [] s.selector = "DEFAULT_BRANCH" -> 1
                [] s.selector = "ANY_REF" -> 0

\* The number of segments, 0 for the whole project.
ScopeRank(s) ==
    IF s.path = << >> THEN 0 ELSE 1 + Cardinality({i \in 1..Len(s.path) : s.path[i] = "/"})

\* A default branch is the branch of a source, and covers that source only.
Candidates(facet, e) ==
    {s \in Scopes :
        /\ scope[s].current # Nobody /\ s.facet = facet /\ Covers(s, e.path)
        /\ \/ s.selector = "ANY_REF"
           \/ s.selector = "EXACT_REF" /\ s.ref = e.ref
           \/ /\ s.selector = "DEFAULT_BRANCH"
              /\ CurrentAssignment(s).source = e.source
              /\ e.ref = connection[e.source].branch}

\* MUTANT: the length of the path does not count.
StrongerByRef(s, t) == RefRank(s) > RefRank(t)

Stronger(s, t) ==
    \/ RefRank(s) > RefRank(t)
    \/ RefRank(s) = RefRank(t) /\ ScopeRank(s) > ScopeRank(t)

Strongest(facet, e) ==
    {s \in Candidates(facet, e) : \A t \in Candidates(facet, e) : ~Stronger(t, s)}

NoAssignment == [scope |-> << >>, version |-> 0]
Id(a) == [scope |-> a.scope, version |-> a.version]

\* Whether the strongest may be used is asked of it alone: nothing weaker
\* steps in for it.
ResolveEffective(facet, e) ==
    LET best == Strongest(facet, e) IN
    IF Cardinality(best) # 1
    THEN [assignment |-> NoAssignment, source |-> "none",
          qualification |-> IF best = {} THEN "MISSING" ELSE "AMBIGUOUS"]
    ELSE LET a == CurrentAssignment(CHOOSE s \in best : TRUE) IN
         [assignment |-> Id(a), source |-> a.source, qualification |-> Qualification(a, e.ref)]

-------------------------------------------------------------------------------
(* Properties                                                              *)

\* The history of a scope has no gap and no fork: each of its versions is one
\* assignment or one revocation, each assignment but the current one is ended
\* once, by the version that follows it, and a replaced assignment names its
\* successor, which names it back.
OneAuthorityHistory ==
    \A s \in Scopes :
        LET made == {a \in assignments : a.scope = s}
            over == {e \in endings : e.scope = s}
            revoked == {e \in over : e.successor = Nobody} IN
        /\ {a.version : a \in made} \cup {e.version : e \in revoked} = 1..scope[s].version
        /\ Cardinality(made) + Cardinality(revoked) = scope[s].version
        /\ {e.ended : e \in over} = {a.version : a \in made} \ {scope[s].current}
        /\ \A e \in over : /\ e.version = e.ended + 1
                           /\ e.successor \in {Nobody, e.version}
        /\ \A a \in made : a.supersedes # Nobody <=>
              \E e \in over : e.ended = a.supersedes /\ e.successor = a.version

\* What the domain's applies says of paths: the scope's own, or one below it.
Below(s, path) ==
    \/ s.path = << >> \/ s.path = path
    \/ /\ Len(path) > Len(s.path) /\ path[Len(s.path) + 1] = "/"
       /\ \A i \in 1..Len(s.path) : s.path[i] = path[i]

\* Whatever has been decided, the rank of the selector and the depth of the path
\* leave at most one of the scopes that a file lies below: a write is refused as
\* AMBIGUOUS only where a scope takes part by the wildcard in its key.
TiesOnlyByWildcard ==
    \A f \in Facets, e \in evidence :
        \A s, t \in Strongest(f, e) : Below(s, e.path) /\ Below(t, e.path) => s = t

\* An authority that a write accepts is one the overview shows as EFFECTIVE,
\* although the overview asks of the scope's refs and the write of one ref.
OverviewAgrees ==
    \A f \in Facets, e \in evidence :
        LET r == ResolveEffective(f, e) IN
        r.qualification = "EFFECTIVE" =>
            Qualification(TheAssignment(r.assignment.scope, r.assignment.version), NoRef) = "EFFECTIVE"
===============================================================================
