-------------------------- MODULE ContextRecordsProofs --------------------------
(***************************************************************************)
(* Proofs about SourceAuthority and ContextRecords.  The resolver is a     *)
(* function of the state, and its lemmas come first; then the invariant    *)
(* that joins what an open put has found out with what it still holds, the *)
(* properties that follow from it, and last the history of a scope.        *)
(***************************************************************************)
EXTENDS ContextRecords, Idempotency, FiniteSetTheorems, TLAPS

USE DEF NoRef, Nobody, Units, NoPage, NoEvidence, NoAssignment, Idle

(***************************************************************************)
(* The invariant                                                           *)
(***************************************************************************)

Evidences == [source : Sources, ref : Refs, sequence : Nat \ {0}, path : Seq(STRING)]
Ids == [scope : Scopes, version : Nat] \cup {NoAssignment}

\* Versions of a scope are given out once, and its current one has been.
AuthorityInv ==
    /\ AuthorityTypeOK
    /\ lock = {} \/ \E c \in Clients : lock = {c}
    /\ evidence \subseteq Evidences
    /\ \A a \in assignments : a.version <= scope[a.scope].version
    /\ \A a, b \in assignments : a.scope = b.scope /\ a.version = b.version => a = b
    /\ \A s \in Scopes : scope[s].current # Nobody =>
          \E a \in assignments : a.scope = s /\ a.version = scope[s].current

Records == [supersedes : Nat, identityVersion : Nat,
            evidence : Evidences \cup {NoEvidence}, assignment : Ids]
Calls == [pc : {"idle", "resolved", "covered"}, identity : Identities \cup {"none"},
          evidence : Evidences \cup {NoEvidence}, assignment : Ids]
RecordRows == [state : {"NONE", "ACTIVE", "ENDED"}, version : Nat, current : Nat]

ContextType ==
    /\ page \in [Clients -> {NoPage} \cup [identity : Identities, version : Nat, head : Nat]]
    /\ identity \in [Identities -> RecordRows]
    /\ records \in [Identities -> Seq(Records)]
    /\ client \in [Clients -> Calls]

\* The evidence has been ingested, the assignment was made for its source.
Backed(e, id) ==
    /\ e \in evidence /\ e.sequence <= frontier[<<e.source, e.ref>>].ingested
    /\ \E a \in assignments : Id(a) = id /\ a.source = e.source

Wins(i, e, id) ==
    /\ ResolveEffective(Facet[i], e).assignment = id
    /\ id.scope.selector = "DEFAULT_BRANCH" =>
          TheAssignment(id.scope, id.version).snapshot = connection[e.source].branch

\* An open put holds the project row, so what it compared and resolved stands.
PutInv ==
    /\ \A c \in Clients : client[c].pc # "idle" <=> c \in lock
    /\ \A c \in Clients : client[c].pc # "idle" =>
          LET i == client[c].identity
              e == client[c].evidence IN
          /\ i \in Identities /\ AsRead(c, i) /\ identity[i].state # "ENDED"
          /\ e # NoEvidence => Backed(e, client[c].assignment) /\ Wins(i, e, client[c].assignment)

RecordsInv ==
    \A i \in Identities : \A n \in 1..Len(records[i]) :
        records[i][n].evidence # NoEvidence => Backed(records[i][n].evidence, records[i][n].assignment)

StateInv == \A i \in Identities : identity[i].state = "NONE" <=> records[i] = << >>

Inv == AuthorityInv /\ ContextType /\ PutInv /\ RecordsInv /\ StateInv /\ OneContextHistory

(***************************************************************************)
(* The resolver                                                            *)
(***************************************************************************)

\* Scope and version name one assignment.
LEMMA TheAssignmentIs ==
    ASSUME AuthorityInv, NEW a \in assignments
    PROVE  TheAssignment(a.scope, a.version) = a
BY DEF AuthorityInv, TheAssignment

\* A current assignment is one that was made.
LEMMA CurrentExists ==
    ASSUME AuthorityInv, NEW s \in Scopes, scope[s].current # Nobody
    PROVE  /\ CurrentAssignment(s) \in assignments
           /\ CurrentAssignment(s).scope = s /\ CurrentAssignment(s).version = scope[s].current
BY DEF AuthorityInv, TheAssignment, CurrentAssignment

\* What the resolver returns when it names an assignment: a candidate's.
LEMMA ResolvedTo ==
    ASSUME AuthorityInv, NEW f, NEW e,
           ResolveEffective(f, e).assignment # NoAssignment
              \/ ResolveEffective(f, e).qualification \notin {"MISSING", "AMBIGUOUS"}
    PROVE  \E s \in Candidates(f, e) :
              LET a == CurrentAssignment(s) IN
              /\ a \in assignments /\ a.scope = s /\ a.version = scope[s].current
              /\ ResolveEffective(f, e) = [assignment |-> Id(a), source |-> a.source,
                                           qualification |-> Qualification(a, e.ref)]
<1> DEFINE best == Strongest(f, e)
           s == CHOOSE s \in best : TRUE
<1>1. Cardinality(best) = 1
  BY DEF ResolveEffective
<1>2. best # {}
  BY <1>1, FS_EmptySet
<1>3. s \in Candidates(f, e)
  BY <1>2 DEF Strongest
<1>4. s \in Scopes /\ scope[s].current # Nobody
  BY <1>3 DEF Candidates
<1>5. /\ CurrentAssignment(s) \in assignments
      /\ CurrentAssignment(s).scope = s /\ CurrentAssignment(s).version = scope[s].current
  BY <1>4, CurrentExists
<1>6. ResolveEffective(f, e) = [assignment |-> Id(CurrentAssignment(s)),
                                source |-> CurrentAssignment(s).source,
                                qualification |-> Qualification(CurrentAssignment(s), e.ref)]
  BY <1>1 DEF ResolveEffective
<1> QED
  BY <1>3, <1>5, <1>6

\* What EFFECTIVE says for one ref.
LEMMA EffectiveIs ==
    ASSUME NEW a, NEW ref \in Refs, Qualification(a, ref) = "EFFECTIVE"
    PROVE  /\ connection[a.source].state = "ACTIVE"
           /\ a.scope.selector = "DEFAULT_BRANCH" => a.snapshot = connection[a.source].branch
           /\ Current(<<a.source, ref>>)
<1>1. Degraded(a) = "NO" /\ ~(\A u \in Applicable(a, ref) : ~Current(u))
  BY DEF Qualification, Degraded
<1>2. ref # NoRef
  BY SourceAuthorityAssumption
<1>3. Applicable(a, ref) = {<<a.source, ref>>}
  BY <1>2 DEF Applicable, TargetRef
<1>4. Current(<<a.source, ref>>)
  BY <1>1, <1>3
<1>5. /\ connection[a.source].state = "ACTIVE"
      /\ a.scope.selector = "DEFAULT_BRANCH" => a.snapshot = connection[a.source].branch
  BY <1>1 DEF Degraded
<1> QED
  BY <1>4, <1>5

\* An authority that is EFFECTIVE for the evidence's ref is so for its scope.
LEMMA OverviewFollows ==
    ASSUME AuthorityInv, NEW f, NEW e \in Evidences,
           ResolveEffective(f, e).qualification = "EFFECTIVE"
    PROVE  LET id == ResolveEffective(f, e).assignment IN
           Qualification(TheAssignment(id.scope, id.version), NoRef) = "EFFECTIVE"
<1>1. PICK s \in Candidates(f, e) :
          LET a == CurrentAssignment(s) IN
          /\ a \in assignments /\ a.scope = s
          /\ ResolveEffective(f, e) = [assignment |-> Id(a), source |-> a.source,
                                       qualification |-> Qualification(a, e.ref)]
  BY ResolvedTo
<1> DEFINE a == CurrentAssignment(s)
           u == <<a.source, e.ref>>
<1>2. TheAssignment(Id(a).scope, Id(a).version) = a
  BY <1>1, TheAssignmentIs DEF Id
<1>3. Qualification(a, e.ref) = "EFFECTIVE" /\ e.ref \in Refs /\ a \in Assignments
  BY <1>1 DEF Evidences, AuthorityInv, AuthorityTypeOK
<1>4. /\ connection[a.source].state = "ACTIVE"
      /\ a.scope.selector = "DEFAULT_BRANCH" => a.snapshot = connection[a.source].branch
      /\ Current(u)
  BY <1>3, EffectiveIs
<1>5. Degraded(a) = "NO"
  BY <1>4 DEF Degraded
<1>6. u \in Applicable(a, NoRef)
  <2>1. u \in Units
    BY <1>3 DEF Assignments
  <2>2. /\ s.selector = "EXACT_REF" => s.ref = e.ref
        /\ s.selector = "DEFAULT_BRANCH" => a.source = e.source /\ connection[e.source].branch = e.ref
        /\ s.selector \in {"ANY_REF", "EXACT_REF", "DEFAULT_BRANCH"}
        /\ s.selector = "ANY_REF" => s.ref = NoRef
    BY SourceAuthorityAssumption DEF Candidates
  <2>3. CASE s.selector = "ANY_REF"
    BY <2>1, <2>2, <2>3, <1>1 DEF Applicable, TargetRef
  <2>4. CASE s.selector = "EXACT_REF"
    BY <2>2, <2>4, <1>1, <1>3, SourceAuthorityAssumption DEF Applicable, TargetRef
  <2>5. CASE s.selector = "DEFAULT_BRANCH"
    BY <2>2, <2>5, <1>1, <1>3, SourceAuthorityAssumption DEF Applicable, TargetRef
  <2> QED
    BY <2>2, <2>3, <2>4, <2>5
<1>7. Qualification(a, NoRef) = "EFFECTIVE"
  BY <1>4, <1>5, <1>6 DEF Qualification, Current
<1> QED
  BY <1>1, <1>2, <1>7

\* What a file lies below is a prefix of its path that ends at a segment.
LEMMA BelowPrefix ==
    ASSUME NEW s \in Scopes, NEW p \in Seq(STRING), Below(s, p)
    PROVE  \/ s.path = << >>
           \/ /\ Len(s.path) <= Len(p) /\ \A k \in 1..Len(s.path) : s.path[k] = p[k]
              /\ Len(s.path) < Len(p) => p[Len(s.path) + 1] = "/"
<1>1. s.path \in Seq(STRING)
  BY SourceAuthorityAssumption
<1> QED
  BY <1>1 DEF Below

Slashes(p) == {k \in 1..Len(p) : p[k] = "/"}

\* The segments of a path can be counted.
LEMMA SlashesFinite == ASSUME NEW p \in Seq(STRING)
                       PROVE  IsFiniteSet(Slashes(p)) /\ Cardinality(Slashes(p)) \in Nat
<1>1. IsFiniteSet(1..Len(p))
  BY FS_Interval
<1> QED
  BY <1>1, FS_Subset, FS_CardinalityType DEF Slashes

\* The deeper of two scopes that a file lies below has more segments.
LEMMA DeeperHasMore ==
    ASSUME NEW s \in Scopes, NEW t \in Scopes, NEW p \in Seq(STRING),
           Below(s, p), Below(t, p), ScopeRank(s) = ScopeRank(t)
    PROVE  Len(s.path) >= Len(t.path)
<1> SUFFICES ASSUME Len(s.path) < Len(t.path) PROVE FALSE
  BY SourceAuthorityAssumption
<1>1. s.path \in Seq(STRING) /\ t.path \in Seq(STRING)
  BY SourceAuthorityAssumption
<1>2. t.path # << >>
  BY <1>1
<1>3. ScopeRank(t) = 1 + Cardinality(Slashes(t.path))
  BY <1>2 DEF ScopeRank, Slashes
<1>4. s.path # << >>
  BY <1>1, <1>3, SlashesFinite DEF ScopeRank
<1>5. ScopeRank(s) = 1 + Cardinality(Slashes(s.path))
  BY <1>4 DEF ScopeRank, Slashes
<1>6. /\ Len(t.path) <= Len(p) /\ \A k \in 1..Len(t.path) : t.path[k] = p[k]
      /\ \A k \in 1..Len(s.path) : s.path[k] = p[k]
      /\ Len(s.path) < Len(p) => p[Len(s.path) + 1] = "/"
  BY <1>2, <1>4, BelowPrefix
<1>7. t.path[Len(s.path) + 1] = "/" /\ Len(s.path) + 1 \in 1..Len(t.path)
  BY <1>1, <1>6
<1>8. Slashes(s.path) \subseteq Slashes(t.path) /\ Len(s.path) + 1 \notin Slashes(s.path)
  BY <1>1, <1>6 DEF Slashes
<1>9. Slashes(s.path) # Slashes(t.path)
  BY <1>7, <1>8 DEF Slashes
<1>10. Cardinality(Slashes(s.path)) < Cardinality(Slashes(t.path))
  BY <1>1, <1>8, <1>9, SlashesFinite, FS_Subset
<1> QED
  BY <1>1, <1>3, <1>5, <1>10, SlashesFinite

\* Two candidates of one rank that a file lies below are one scope.
LEMMA UniqueWinner ==
    ASSUME NEW f, NEW e \in Evidences,
           NEW s \in Strongest(f, e), NEW t \in Strongest(f, e),
           Below(s, e.path), Below(t, e.path)
    PROVE  s = t
<1>1. /\ s \in Candidates(f, e) /\ t \in Candidates(f, e) /\ s \in Scopes /\ t \in Scopes
      /\ ~Stronger(s, t) /\ ~Stronger(t, s)
  BY DEF Strongest, Candidates
<1>2. s.selector \in Selectors /\ t.selector \in Selectors
  BY <1>1, SourceAuthorityAssumption
<1>3. RefRank(s) \in Nat /\ RefRank(t) \in Nat
  BY <1>2 DEF RefRank, Selectors
<1>4. ScopeRank(s) \in Nat /\ ScopeRank(t) \in Nat
  <2>1. s.path \in Seq(STRING) /\ t.path \in Seq(STRING)
    BY <1>1, SourceAuthorityAssumption
  <2>2. Cardinality(Slashes(s.path)) \in Nat /\ Cardinality(Slashes(t.path)) \in Nat
    BY <2>1, SlashesFinite
  <2> QED
    BY <2>2 DEF ScopeRank, Slashes
<1>5. RefRank(s) = RefRank(t) /\ ScopeRank(s) = ScopeRank(t)
  BY <1>1, <1>3, <1>4 DEF Stronger
<1>6. s.selector = t.selector
  BY <1>2, <1>5 DEF RefRank, Selectors
<1>7. s.ref = t.ref
  BY <1>1, <1>6, SourceAuthorityAssumption DEF Candidates
<1>8. e.path \in Seq(STRING) /\ s.facet = f /\ t.facet = f
  BY <1>1 DEF Candidates, Evidences
<1>9. s.path \in Seq(STRING) /\ t.path \in Seq(STRING) /\ Len(s.path) = Len(t.path)
  BY <1>1, <1>5, <1>8, DeeperHasMore, SourceAuthorityAssumption
<1>10. s.path = t.path
  <2>1. CASE s.path = << >>
    BY <1>9, <2>1
  <2>2. CASE s.path # << >>
    <3>1. t.path # << >>
      BY <1>9, <2>2
    <3>2. \A k \in 1..Len(s.path) : s.path[k] = t.path[k]
      BY <1>1, <1>8, <1>9, <2>2, <3>1, BelowPrefix
    <3> QED
      BY <1>9, <3>2
  <2> QED
    BY <2>1, <2>2
<1>11. /\ s = [facet |-> s.facet, path |-> s.path, selector |-> s.selector, ref |-> s.ref]
       /\ t = [facet |-> t.facet, path |-> t.path, selector |-> t.selector, ref |-> t.ref]
  BY <1>1, SourceAuthorityAssumption
<1> QED
  BY <1>6, <1>7, <1>8, <1>10, <1>11

(***************************************************************************)
(* Decisions, and what sources do meanwhile                                *)
(***************************************************************************)

\* What the winner of a piece of evidence depends on.
ReviewKept ==
    /\ scope' = scope /\ assignments' = assignments
    /\ \A s \in Sources : connection'[s].branch = connection[s].branch

\* The winner changes only with decisions and default branches.
LEMMA WinnerKept ==
    ASSUME AuthorityInv, ReviewKept, NEW i, NEW e \in Evidences, NEW id, Wins(i, e, id)
    PROVE  Wins(i, e, id)'
<1>1. connection'[e.source].branch = connection[e.source].branch
  BY DEF ReviewKept, Evidences
<1>2. \A s \in Scopes : CurrentAssignment(s)' = CurrentAssignment(s)
  BY DEF ReviewKept, CurrentAssignment, TheAssignment
<1>3. Candidates(Facet[i], e)' = Candidates(Facet[i], e)
  BY <1>1, <1>2 DEF Candidates, ReviewKept
<1>4. Strongest(Facet[i], e)' = Strongest(Facet[i], e)
  BY <1>3 DEF Strongest
<1>5. Cardinality(Strongest(Facet[i], e)) = 1 =>
          (CHOOSE s \in Strongest(Facet[i], e) : TRUE) \in Scopes
  <2>1. Cardinality(Strongest(Facet[i], e)) = 1 => Strongest(Facet[i], e) # {}
    BY FS_EmptySet
  <2> QED
    BY <2>1 DEF Strongest, Candidates
<1>6. ResolveEffective(Facet[i], e)'.assignment = ResolveEffective(Facet[i], e).assignment
  <2>1. CASE Cardinality(Strongest(Facet[i], e)) # 1
    BY <1>4, <2>1 DEF ResolveEffective
  <2>2. CASE Cardinality(Strongest(Facet[i], e)) = 1
    <3>0. PICK s : s = CHOOSE t \in Strongest(Facet[i], e) : TRUE
      OBVIOUS
    <3>1. ResolveEffective(Facet[i], e).assignment = Id(CurrentAssignment(s))
      BY <2>2, <3>0 DEF ResolveEffective
    <3>2. ResolveEffective(Facet[i], e)'.assignment = Id(CurrentAssignment(s)')
      BY <1>4, <2>2, <3>0 DEF ResolveEffective
    <3> QED
      BY <1>2, <1>5, <2>2, <3>0, <3>1, <3>2
  <2> QED
    BY <2>1, <2>2
<1>7. TheAssignment(id.scope, id.version)' = TheAssignment(id.scope, id.version)
  BY DEF ReviewKept, TheAssignment
<1> QED
  BY <1>1, <1>6, <1>7 DEF Wins

\* What is ingested stays, as evidence and as ingested.
IngestedKept ==
    /\ assignments \subseteq assignments'
    /\ \A e \in evidence : e.sequence <= frontier[<<e.source, e.ref>>].ingested =>
          e \in evidence' /\ e.sequence <= frontier'[<<e.source, e.ref>>].ingested

\* What is backed stays so while nothing ingested goes away.
LEMMA BackedKept ==
    ASSUME IngestedKept, NEW e, NEW id, Backed(e, id)
    PROVE  Backed(e, id)'
BY DEF IngestedKept, Backed, Id

\* Taking and giving back the project row disturbs no decision.
LEMMA LockKeeps ==
    ASSUME AuthorityInv, UNCHANGED <<reviewed, observed>>,
           lock' = {} \/ lock' = lock \/ \E c \in Clients : lock' = {c}
    PROVE  AuthorityInv'
<1>1. Cardinality({}) <= 1 /\ \A c \in Clients : Cardinality({c}) <= 1
  BY FS_EmptySet, FS_Singleton
<1>2. lock' \subseteq Clients /\ Cardinality(lock') <= 1 /\ (lock' = {} \/ \E c \in Clients : lock' = {c})
  BY <1>1 DEF AuthorityInv, AuthorityTypeOK
<1> QED
  BY <1>2 DEF AuthorityInv, AuthorityTypeOK, reviewed, observed, TheAssignment

\* A decision keeps versions unique, and is made while no put is open.
LEMMA SetEffect ==
    ASSUME AuthorityInv, SetSourceAuthority
    PROVE  AuthorityInv' /\ IngestedKept /\ lock = {} /\ lock' = {}
<1>1. PICK s \in Scopes, src \in Sources :
          /\ ProjectFree
          /\ assignments' = assignments \cup
                {[scope |-> s, version |-> scope[s].version + 1, source |-> src,
                  snapshot |-> IF s.selector = "DEFAULT_BRANCH" THEN connection[src].branch ELSE NoRef,
                  supersedes |-> scope[s].current]}
          /\ endings' = EndedBy(s, scope[s].version + 1)
          /\ scope' = [scope EXCEPT ![s] = [version |-> scope[s].version + 1,
                                            current |-> scope[s].version + 1]]
          /\ UNCHANGED <<lock, observed>>
  BY DEF SetSourceAuthority
<1> DEFINE new == [scope |-> s, version |-> scope[s].version + 1, source |-> src,
                   snapshot |-> IF s.selector = "DEFAULT_BRANCH" THEN connection[src].branch ELSE NoRef,
                   supersedes |-> scope[s].current]
<1>2. /\ scope[s].version \in Nat /\ scope[s].current \in Nat
      /\ connection[src].branch \in Refs
      /\ assignments \subseteq Assignments /\ endings \subseteq Endings
  BY DEF AuthorityInv, AuthorityTypeOK
<1>3. new \in Assignments
  BY <1>2 DEF Assignments
<1>4. endings' \subseteq Endings
  BY <1>1, <1>2 DEF EndedBy, Endings
<1>5. /\ scope' \in [Scopes -> [version : Nat, current : Nat]]
      /\ scope'[s].version = scope[s].version + 1 /\ scope'[s].current = scope[s].version + 1
      /\ \A t \in Scopes : t # s => scope'[t] = scope[t]
  BY <1>1, <1>2 DEF AuthorityInv, AuthorityTypeOK
<1>6. AuthorityTypeOK'
  BY <1>1, <1>3, <1>4, <1>5 DEF AuthorityInv, AuthorityTypeOK, observed
<1>7. \A a \in assignments' : a.version <= scope'[a.scope].version
  BY <1>1, <1>2, <1>5 DEF AuthorityInv, Assignments
<1>8. \A a \in assignments : a.scope = s => a.version # new.version
  BY <1>2 DEF AuthorityInv, Assignments
<1>9. \A a, b \in assignments' : a.scope = b.scope /\ a.version = b.version => a = b
  BY <1>1, <1>8 DEF AuthorityInv
<1>10. \A t \in Scopes : scope'[t].current # Nobody =>
           \E a \in assignments' : a.scope = t /\ a.version = scope'[t].current
  <2>1. new \in assignments' /\ new.scope = s /\ new.version = scope'[s].current
    BY <1>1, <1>5
  <2>2. ASSUME NEW t \in Scopes, t # s, scope'[t].current # Nobody
        PROVE  \E a \in assignments' : a.scope = t /\ a.version = scope'[t].current
    <3>1. scope'[t] = scope[t] /\ assignments \subseteq assignments'
      BY <1>1, <1>5, <2>2
    <3> QED
      BY <2>2, <3>1 DEF AuthorityInv
  <2> QED
    BY <2>1, <2>2
<1>11. lock' = lock /\ evidence' = evidence
  BY <1>1 DEF observed
<1>12. AuthorityInv'
  BY <1>6, <1>7, <1>9, <1>10, <1>11 DEF AuthorityInv
<1> QED
  BY <1>1, <1>12 DEF IngestedKept, observed, ProjectFree

\* So does, and is, a revocation.
LEMMA RevokeEffect ==
    ASSUME AuthorityInv, RevokeSourceAuthority
    PROVE  AuthorityInv' /\ IngestedKept /\ lock = {} /\ lock' = {}
<1>1. PICK s \in Scopes :
          /\ ProjectFree
          /\ endings' = EndedBy(s, Nobody)
          /\ scope' = [scope EXCEPT ![s] = [version |-> scope[s].version + 1, current |-> Nobody]]
          /\ UNCHANGED <<lock, assignments, observed>>
  BY DEF RevokeSourceAuthority
<1>2. scope[s].version \in Nat /\ scope[s].current \in Nat /\ endings \subseteq Endings
  BY DEF AuthorityInv, AuthorityTypeOK
<1>3. endings' \subseteq Endings
  BY <1>1, <1>2 DEF EndedBy, Endings
<1>4. /\ scope' \in [Scopes -> [version : Nat, current : Nat]]
      /\ scope'[s].version = scope[s].version + 1 /\ scope'[s].current = Nobody
      /\ \A t \in Scopes : t # s => scope'[t] = scope[t]
  BY <1>1, <1>2 DEF AuthorityInv, AuthorityTypeOK
<1>5. AuthorityTypeOK'
  BY <1>1, <1>3, <1>4 DEF AuthorityInv, AuthorityTypeOK, observed
<1>6. \A a \in assignments' : a.version <= scope'[a.scope].version
  BY <1>1, <1>2, <1>4 DEF AuthorityInv, AuthorityTypeOK, Assignments
<1>7. AuthorityInv'
  BY <1>1, <1>4, <1>5, <1>6 DEF AuthorityInv, observed
<1> QED
  BY <1>1, <1>7 DEF IngestedKept, observed, ProjectFree

\* Sources change behind an open put, but not the branch it looked at.
LEMMA SourceStepEffect ==
    ASSUME AuthorityInv, SourceStep
    PROVE  AuthorityInv' /\ IngestedKept /\ lock' = lock /\ (lock # {} => ReviewKept)
<1>1. /\ connection \in [Sources -> [state : {"ACTIVE", "LOST"}, branch : Refs]]
      /\ frontier \in [Units -> [desired : Nat, ingested : Nat]]
      /\ evidence \subseteq Evidences
      /\ \A e \in evidence : /\ <<e.source, e.ref, e.path>> \in Files
                             /\ e.sequence \in 1..frontier[<<e.source, e.ref>>].desired
      /\ changes \in 0..MaxChanges /\ MaxChanges \in Nat
  BY SourceAuthorityAssumption DEF AuthorityInv, AuthorityTypeOK
<1>2. ASSUME UNCHANGED <<lock, reviewed>>,
             connection' \in [Sources -> [state : {"ACTIVE", "LOST"}, branch : Refs]],
             frontier' \in [Units -> [desired : Nat, ingested : Nat]],
             evidence' \subseteq Evidences,
             \A e \in evidence' : /\ <<e.source, e.ref, e.path>> \in Files
                                  /\ e.sequence \in 1..frontier'[<<e.source, e.ref>>].desired,
             changes' \in 0..MaxChanges
      PROVE  AuthorityInv'
  BY <1>2 DEF AuthorityInv, AuthorityTypeOK, reviewed
<1>3. ASSUME LoseSources
      PROVE  AuthorityInv' /\ IngestedKept /\ lock' = lock /\ ReviewKept
  <2>1. /\ connection' = [src \in Sources |-> [connection[src] EXCEPT !.state = "LOST"]]
        /\ UNCHANGED <<lock, reviewed, frontier, evidence>>
        /\ changes < MaxChanges /\ changes' = changes + 1
    BY <1>3 DEF LoseSources, Bounded
  <2>2. /\ connection' \in [Sources -> [state : {"ACTIVE", "LOST"}, branch : Refs]]
        /\ \A s \in Sources : connection'[s].branch = connection[s].branch
        /\ changes' \in 0..MaxChanges
    BY <1>1, <2>1
  <2>3. AuthorityInv'
    BY <1>1, <1>2, <2>1, <2>2
  <2> QED
    BY <2>1, <2>2, <2>3 DEF IngestedKept, ReviewKept, reviewed
<1>4. ASSUME NEW src \in Sources, NEW b \in Refs, VerifySource(src, b)
      PROVE  AuthorityInv' /\ IngestedKept /\ lock' = lock /\ lock = {}
  <2>1. /\ connection' = [connection EXCEPT ![src] = [state |-> "ACTIVE", branch |-> b]]
        /\ UNCHANGED <<lock, reviewed, frontier, evidence>>
        /\ changes < MaxChanges /\ changes' = changes + 1 /\ lock = {}
    BY <1>4 DEF VerifySource, Bounded, ProjectFree
  <2>2. /\ connection' \in [Sources -> [state : {"ACTIVE", "LOST"}, branch : Refs]]
        /\ changes' \in 0..MaxChanges
    BY <1>1, <2>1
  <2>3. AuthorityInv'
    BY <1>1, <1>2, <2>1, <2>2
  <2> QED
    BY <2>1, <2>3 DEF IngestedKept, reviewed
<1>5. ASSUME NEW u \in Units, Observe(u)
      PROVE  AuthorityInv' /\ IngestedKept /\ lock' = lock /\ ReviewKept
  <2>1. /\ frontier' = [frontier EXCEPT ![u].desired = @ + 1]
        /\ UNCHANGED <<lock, reviewed, connection, evidence, changes>>
    BY <1>5 DEF Observe
  <2>2. /\ frontier' \in [Units -> [desired : Nat, ingested : Nat]]
        /\ \A v \in Units : /\ frontier'[v].ingested = frontier[v].ingested
                            /\ frontier'[v].desired >= frontier[v].desired
    BY <1>1, <2>1
  <2>3. \A e \in evidence : <<e.source, e.ref>> \in Units
    BY <1>1 DEF Evidences
  <2>4. \A e \in evidence' : e.sequence \in 1..frontier'[<<e.source, e.ref>>].desired
    <3> SUFFICES ASSUME NEW e \in evidence
                 PROVE  e.sequence \in 1..frontier'[<<e.source, e.ref>>].desired
      BY <2>1
    <3>1. PICK v \in Units : v = <<e.source, e.ref>>
      BY <2>3
    <3>2. e.sequence \in 1..frontier[v].desired
      BY <1>1, <3>1
    <3>3. frontier[v].desired \in Nat /\ frontier'[v].desired \in Nat
      BY <1>1, <2>2
    <3> QED
      BY <2>2, <3>1, <3>2, <3>3
  <2>5. AuthorityInv'
    BY <1>1, <1>2, <2>1, <2>2, <2>4
  <2> QED
    BY <2>1, <2>2, <2>3, <2>5 DEF IngestedKept, ReviewKept, reviewed
<1>6. ASSUME NEW u \in Units, RecordEvidence(u)
      PROVE  AuthorityInv' /\ IngestedKept /\ lock' = lock /\ ReviewKept
  <2>1. PICK n \in frontier[u].ingested + 1..frontier[u].desired, f \in Files :
            /\ <<f[1], f[2]>> = u
            /\ evidence' = evidence \cup
                  {[source |-> u[1], ref |-> u[2], sequence |-> n, path |-> f[3]]}
    BY <1>6 DEF RecordEvidence
  <2>2. UNCHANGED <<lock, reviewed, connection, frontier, changes>>
    BY <1>6 DEF RecordEvidence
  <2>3. /\ n \in Nat \ {0} /\ n \in 1..frontier[u].desired
        /\ f \in Sources \X Refs \X Seq(STRING) /\ u = <<f[1], f[2]>>
    BY <1>1, <2>1, SourceAuthorityAssumption
  <2> DEFINE new == [source |-> u[1], ref |-> u[2], sequence |-> n, path |-> f[3]]
  <2>4. new \in Evidences /\ <<new.source, new.ref, new.path>> = f /\ <<new.source, new.ref>> = u
    BY <2>3 DEF Evidences
  <2>5. /\ evidence' \subseteq Evidences
        /\ \A e \in evidence' : /\ <<e.source, e.ref, e.path>> \in Files
                                /\ e.sequence \in 1..frontier'[<<e.source, e.ref>>].desired
    <3>1. new.sequence \in 1..frontier'[<<new.source, new.ref>>].desired
      BY <2>2, <2>3, <2>4
    <3>2. \A e \in evidence' : e \in evidence \/ e = new
      BY <2>1
    <3> QED
      BY <1>1, <2>2, <2>4, <3>1, <3>2
  <2>6. AuthorityInv'
    BY <1>1, <1>2, <2>2, <2>5
  <2> QED
    BY <2>1, <2>2, <2>6 DEF IngestedKept, ReviewKept, reviewed
<1>7. ASSUME NEW u \in Units, CompleteIngestion(u)
      PROVE  AuthorityInv' /\ IngestedKept /\ lock' = lock /\ ReviewKept
  <2>1. PICK target \in frontier[u].ingested + 1..frontier[u].desired :
            /\ frontier' = [frontier EXCEPT ![u].ingested = target]
            /\ evidence' = evidence \ Coalesced(u, target)
    BY <1>7 DEF CompleteIngestion
  <2>2. UNCHANGED <<lock, reviewed, connection, changes>>
    BY <1>7 DEF CompleteIngestion
  <2>3. /\ frontier' \in [Units -> [desired : Nat, ingested : Nat]]
        /\ \A v \in Units : /\ frontier'[v].ingested >= frontier[v].ingested
                            /\ frontier'[v].desired = frontier[v].desired
    BY <1>1, <2>1
  <2>4. \A e \in evidence : <<e.source, e.ref>> \in Units /\ e.sequence \in Nat
    BY <1>1 DEF Evidences
  <2>5. /\ evidence' \subseteq evidence
        /\ \A e \in evidence' : e.sequence \in 1..frontier'[<<e.source, e.ref>>].desired
    BY <1>1, <2>1, <2>3, <2>4
  <2>6. AuthorityInv'
    BY <1>1, <1>2, <2>2, <2>3, <2>5
  <2>7. ASSUME NEW e \in evidence, e.sequence <= frontier[<<e.source, e.ref>>].ingested
        PROVE  e \in evidence' /\ e.sequence <= frontier'[<<e.source, e.ref>>].ingested
    <3>1. PICK v \in Units : v = <<e.source, e.ref>>
      BY <2>4
    <3>2. /\ e.sequence \in Nat /\ e.sequence <= frontier[v].ingested
          /\ frontier[v].ingested \in Nat /\ frontier'[v].ingested \in Nat
          /\ frontier'[v].ingested >= frontier[v].ingested
      BY <1>1, <2>3, <2>4, <2>7, <3>1
    <3>3. v = u => e.sequence \notin frontier[u].ingested + 1..target - 1
      BY <3>2
    <3>4. e \notin Coalesced(u, target)
      BY <3>1, <3>3 DEF Coalesced
    <3> QED
      BY <2>1, <3>1, <3>2, <3>4
  <2> QED
    BY <2>2, <2>6, <2>7 DEF IngestedKept, ReviewKept, reviewed
<1> QED
  BY <1>3, <1>4, <1>5, <1>6, <1>7 DEF SourceStep

(***************************************************************************)
(* Puts and endings                                                        *)
(***************************************************************************)

\* What a write relies on, at the moment the resolver says EFFECTIVE.
LEMMA ResolvedStands ==
    ASSUME AuthorityInv, NEW i, NEW e \in evidence,
           ResolveEffective(Facet[i], e).qualification = "EFFECTIVE",
           ResolveEffective(Facet[i], e).source = e.source
    PROVE  LET id == ResolveEffective(Facet[i], e).assignment IN
           id \in Ids /\ Backed(e, id) /\ Wins(i, e, id)
<1>1. PICK s \in Candidates(Facet[i], e) :
          LET a == CurrentAssignment(s) IN
          /\ a \in assignments /\ a.scope = s
          /\ ResolveEffective(Facet[i], e) = [assignment |-> Id(a), source |-> a.source,
                                              qualification |-> Qualification(a, e.ref)]
  BY ResolvedTo
<1>2. PICK a \in assignments :
          ResolveEffective(Facet[i], e) = [assignment |-> Id(a), source |-> a.source,
                                           qualification |-> Qualification(a, e.ref)]
  BY <1>1
<1>3. /\ Qualification(a, e.ref) = "EFFECTIVE" /\ a.source = e.source
      /\ ResolveEffective(Facet[i], e).assignment = Id(a)
  BY <1>2
<1>4. e \in Evidences /\ e.ref \in Refs /\ <<e.source, e.ref>> \in Units
  BY DEF AuthorityInv, Evidences
<1>5. /\ a.scope.selector = "DEFAULT_BRANCH" => a.snapshot = connection[a.source].branch
      /\ Current(<<a.source, e.ref>>)
  BY <1>3, <1>4, EffectiveIs
<1>6. a \in Assignments /\ Id(a) \in Ids
  BY DEF AuthorityInv, AuthorityTypeOK, Assignments, Id, Ids
<1>7. TheAssignment(Id(a).scope, Id(a).version) = a /\ Id(a).scope = a.scope
  BY TheAssignmentIs DEF Id
<1>8. e.sequence <= frontier[<<e.source, e.ref>>].ingested
  <2>1. /\ e.sequence \in 1..frontier[<<e.source, e.ref>>].desired
        /\ frontier[<<e.source, e.ref>>] \in [desired : Nat, ingested : Nat]
    BY <1>4 DEF AuthorityInv, AuthorityTypeOK
  <2>2. frontier[<<e.source, e.ref>>].desired <= frontier[<<e.source, e.ref>>].ingested
    BY <1>3, <1>5 DEF Current
  <2> QED
    BY <2>1, <2>2
<1> QED
  BY <1>3, <1>5, <1>6, <1>7, <1>8 DEF Backed, Wins

\* Steps of clients change neither decisions nor sources.
LEMMA QuietKeeps ==
    ASSUME UNCHANGED <<reviewed, observed>>
    PROVE  ReviewKept /\ IngestedKept
BY DEF reviewed, observed, ReviewKept, IngestedKept

\* Records that are there stay backed.
LEMMA RecordsKept ==
    ASSUME RecordsInv, IngestedKept, UNCHANGED records
    PROVE  RecordsInv'
BY BackedKept DEF RecordsInv

\* So does what an open put relies on.
LEMMA PutStands ==
    ASSUME AuthorityInv, ContextType, PutInv, IngestedKept, ReviewKept,
           NEW c \in Clients, client[c].pc # "idle", client[c].evidence # NoEvidence,
           client'[c].identity = client[c].identity, client'[c].evidence = client[c].evidence,
           client'[c].assignment = client[c].assignment
    PROVE  Backed(client[c].evidence, client[c].assignment)'
           /\ Wins(client[c].identity, client[c].evidence, client[c].assignment)'
<1>1. PICK i, e, id : i = client[c].identity /\ e = client[c].evidence /\ id = client[c].assignment
  OBVIOUS
<1>2. e \in Evidences /\ Backed(e, id) /\ Wins(i, e, id)
  BY <1>1 DEF PutInv, ContextType, RecordRows, Calls
<1>3. Backed(e, id)' /\ Wins(i, e, id)'
  BY <1>2, BackedKept, WinnerKept
<1>4. i = client'[c].identity /\ e = client'[c].evidence /\ id = client'[c].assignment
  BY <1>1
<1> QED
  BY <1>3, <1>4

\* Steps of reviewers and sources leave the clients' part of the invariant.
LEMMA OutsideKeeps ==
    ASSUME Inv, AuthorityInv', IngestedKept, lock' = lock, lock # {} => ReviewKept,
           UNCHANGED <<context, clients>>
    PROVE  Inv'
<1>1. UNCHANGED <<identity, records, page, client>>
  BY DEF context, clients
<1>2. ASSUME NEW c \in Clients, client[c].pc # "idle", client[c].evidence # NoEvidence
      PROVE  Backed(client[c].evidence, client[c].assignment)'
             /\ Wins(client[c].identity, client[c].evidence, client[c].assignment)'
  <2>1. lock # {}
    BY <1>2 DEF Inv, PutInv
  <2> QED
    BY <1>1, <1>2, <2>1, PutStands DEF Inv
<1>3. PutInv'
  BY <1>1, <1>2 DEF Inv, PutInv, AsRead
<1>4. RecordsInv'
  BY <1>1, RecordsKept DEF Inv
<1> QED
  BY <1>1, <1>3, <1>4 DEF Inv, ContextType, RecordRows, Calls, StateInv, OneContextHistory

\* Reading an identity.
LEMMA OpenKeeps ==
    ASSUME Inv, NEW c \in Clients, OpenIdentity(c)
    PROVE  Inv'
<1>1. PICK i \in Identities : page' = [page EXCEPT ![c] =
          [identity |-> i, version |-> identity[i].version, head |-> identity[i].current]]
  BY DEF OpenIdentity
<1>2. UNCHANGED <<lock, reviewed, observed, identity, records, client>> /\ page[c] = NoPage
  BY DEF OpenIdentity, context
<1>3. page' \in [Clients -> {NoPage} \cup [identity : Identities, version : Nat, head : Nat]]
  BY <1>1 DEF Inv, ContextType, RecordRows, Calls
<1>4. client[c].pc = "idle"
  BY <1>2, ContextRecordsAssumption DEF Inv, PutInv, AsRead
<1>5. \A d \in Clients : d # c => page'[d] = page[d]
  BY <1>1 DEF Inv, ContextType, RecordRows, Calls
<1>6. AuthorityInv' /\ RecordsInv'
  BY <1>2, LockKeeps, RecordsKept, QuietKeeps DEF Inv
<1>7. PutInv'
  <2>1. ASSUME NEW d \in Clients, client[d].pc # "idle", client[d].evidence # NoEvidence
        PROVE  Backed(client[d].evidence, client[d].assignment)'
               /\ Wins(client[d].identity, client[d].evidence, client[d].assignment)'
    BY <1>2, <2>1, PutStands, QuietKeeps DEF Inv
  <2> QED
    BY <1>2, <1>4, <1>5, <2>1 DEF Inv, PutInv, AsRead
<1> QED
  <2>1. ContextType'
    BY <1>2, <1>3 DEF Inv, ContextType, RecordRows, Calls
  <2>2. StateInv' /\ OneContextHistory'
    BY <1>2 DEF Inv, StateInv, OneContextHistory
  <2> QED
    BY <1>6, <1>7, <2>1, <2>2 DEF Inv

\* put_context_record_v2 takes the project row; what it found holds.
LEMMA BeginKeeps ==
    ASSUME Inv, NEW c \in Clients, NEW i \in Identities, Writable(c, i),
           NEW pc \in {"resolved", "covered"},
           NEW e \in Evidences \cup {NoEvidence}, NEW id \in Ids,
           e # NoEvidence => Backed(e, id) /\ Wins(i, e, id),
           Begin(c, i, pc, e, id)
    PROVE  Inv'
<1>1. /\ lock = {} /\ lock' = {c} /\ AsRead(c, i) /\ identity[i].state # "ENDED"
      /\ client' = [client EXCEPT ![c] =
            [pc |-> pc, identity |-> i, evidence |-> e, assignment |-> id]]
      /\ UNCHANGED <<page, reviewed, observed, identity, records>>
  BY DEF Begin, Writable, ProjectFree, context
<1>2. /\ client'[c] = [pc |-> pc, identity |-> i, evidence |-> e, assignment |-> id]
      /\ \A d \in Clients : d # c => client'[d] = client[d] /\ client[d].pc = "idle"
  BY <1>1 DEF Inv, ContextType, RecordRows, Calls, PutInv
<1>3. e # NoEvidence => Backed(e, id)' /\ Wins(i, e, id)'
  BY <1>1, QuietKeeps, BackedKept, WinnerKept DEF Inv
<1>4. client'[c].evidence # NoEvidence =>
          Backed(client[c].evidence, client[c].assignment)'
          /\ Wins(client[c].identity, client[c].evidence, client[c].assignment)'
  <2>1. client'[c].identity = i /\ client'[c].evidence = e /\ client'[c].assignment = id
    BY <1>2
  <2> QED
    BY <1>3, <2>1
<1>5. PutInv'
  BY <1>1, <1>2, <1>4 DEF PutInv, AsRead
<1>6. ContextType'
  BY <1>1 DEF Inv, ContextType, RecordRows, Calls
<1>7. AuthorityInv' /\ RecordsInv'
  BY <1>1, LockKeeps, RecordsKept, QuietKeeps DEF Inv
<1>8. StateInv' /\ OneContextHistory'
  BY <1>1 DEF Inv, StateInv, OneContextHistory
<1> QED
  BY <1>5, <1>6, <1>7, <1>8 DEF Inv

\* It reads the frontier.
LEMMA CoverKeeps ==
    ASSUME Inv, NEW c \in Clients, PutCover(c)
    PROVE  Inv'
<1>1. /\ client[c].pc = "resolved" /\ client' = [client EXCEPT ![c].pc = "covered"]
      /\ UNCHANGED <<lock, page, reviewed, observed, identity, records>>
  BY DEF PutCover, context
<1>2. /\ \A d \in Clients : /\ client'[d].pc = "idle" <=> client[d].pc = "idle"
                            /\ client'[d].identity = client[d].identity
                            /\ client'[d].evidence = client[d].evidence
                            /\ client'[d].assignment = client[d].assignment
      /\ ContextType'
  <2>1. client \in [Clients -> Calls]
    BY DEF Inv, ContextType, RecordRows, Calls
  <2>2. client' \in [Clients -> Calls]
    BY <1>1, <2>1 DEF Calls
  <2>3. ContextType'
    BY <1>1, <2>2 DEF Inv, ContextType, RecordRows, Calls
  <2>4. /\ client'[c] = [client[c] EXCEPT !.pc = "covered"]
        /\ \A d \in Clients : d # c => client'[d] = client[d]
    BY <1>1, <2>1
  <2>5. /\ client'[c].pc = "covered" /\ client'[c].identity = client[c].identity
        /\ client'[c].evidence = client[c].evidence /\ client'[c].assignment = client[c].assignment
    BY <2>1, <2>4 DEF Calls
  <2> QED
    BY <1>1, <2>3, <2>4, <2>5
<1>3. PutInv'
  <2>1. ASSUME NEW d \in Clients, client[d].pc # "idle", client[d].evidence # NoEvidence
        PROVE  Backed(client[d].evidence, client[d].assignment)'
               /\ Wins(client[d].identity, client[d].evidence, client[d].assignment)'
    BY <1>1, <1>2, <2>1, PutStands, QuietKeeps DEF Inv
  <2> QED
    BY <1>1, <1>2, <2>1 DEF Inv, PutInv, AsRead
<1>4. AuthorityInv' /\ RecordsInv'
  BY <1>1, LockKeeps, RecordsKept, QuietKeeps DEF Inv
<1>5. StateInv' /\ OneContextHistory'
  BY <1>1 DEF Inv, StateInv, OneContextHistory
<1> QED
  BY <1>2, <1>3, <1>4, <1>5 DEF Inv

\* Only one put is open.
LEMMA Alone ==
    ASSUME Inv, NEW c \in Clients, client[c].pc # "idle"
    PROVE  lock = {c} /\ \A d \in Clients : d # c => client[d].pc = "idle"
BY DEF Inv, AuthorityInv, PutInv

\* It inserts and commits.
LEMMA CommitKeeps ==
    ASSUME Inv, NEW c \in Clients, PutCommit(c)
    PROVE  Inv'
<1>1. PICK i : i = client[c].identity
  OBVIOUS
<1> DEFINE new == [supersedes |-> identity[i].current, identityVersion |-> identity[i].version + 1,
                   evidence |-> client[c].evidence, assignment |-> client[c].assignment]
<1>2. /\ client[c].pc = "covered"
      /\ records' = [records EXCEPT ![i] = Append(@, new)]
      /\ identity' = [identity EXCEPT ![i] = Revised(i)]
      /\ lock' = {} /\ client' = [client EXCEPT ![c] = Idle]
      /\ page' = [page EXCEPT ![c] = NoPage]
      /\ UNCHANGED <<reviewed, observed>>
  BY <1>1 DEF PutCommit, Close, Revised
<1>3. /\ i \in Identities /\ AsRead(c, i) /\ identity[i].state # "ENDED"
      /\ client[c].evidence # NoEvidence => Backed(client[c].evidence, client[c].assignment)
  BY <1>1, <1>2 DEF Inv, PutInv
<1>4. Revised(i) = [state |-> "ACTIVE", version |-> identity[i].version + 1,
                    current |-> Len(records[i]) + 1]
  BY DEF Revised
<1>5. /\ identity[i].version \in Nat /\ identity[i].current \in Nat
      /\ client[c].evidence \in Evidences \cup {NoEvidence} /\ client[c].assignment \in Ids
      /\ records[i] \in Seq(Records)
  BY <1>3 DEF Inv, ContextType, RecordRows, Calls
<1>6. ContextType'
  <2>1. page' \in [Clients -> {NoPage} \cup [identity : Identities, version : Nat, head : Nat]]
    BY <1>2 DEF Inv, ContextType, RecordRows, Calls
  <2>2. Len(records[i]) \in Nat
    BY <1>5
  <2>3. Revised(i) \in RecordRows
    BY <1>4, <1>5, <2>2 DEF RecordRows
  <2>4. identity' \in [Identities -> RecordRows]
    BY <1>2, <2>3 DEF Inv, ContextType, RecordRows, Calls
  <2>5. new \in Records
    BY <1>5 DEF Records
  <2>6. records' \in [Identities -> Seq(Records)]
    <3>1. Append(records[i], new) \in Seq(Records)
      BY <1>5, <2>5
    <3> QED
      BY <1>2, <3>1 DEF Inv, ContextType
  <2>7. Idle \in Calls
    BY DEF Ids, Calls
  <2>8. client' \in [Clients -> Calls]
    BY <1>2, <2>7 DEF Inv, ContextType, RecordRows, Calls
  <2> QED
    BY <2>1, <2>4, <2>6, <2>8 DEF ContextType, RecordRows, Calls
<1>7. PutInv'
  <2>1. \A d \in Clients : client'[d].pc = "idle"
    BY <1>2, Alone DEF Inv, ContextType, RecordRows, Calls
  <2> QED
    BY <1>2, <2>1 DEF PutInv
<1>8. AuthorityInv'
  BY <1>2, LockKeeps DEF Inv
<1>9. /\ records'[i] = Append(records[i], new) /\ Len(records'[i]) = Len(records[i]) + 1
      /\ records'[i][Len(records[i]) + 1] = new
      /\ \A n \in 1..Len(records[i]) : records'[i][n] = records[i][n]
      /\ \A j \in Identities : j # i => records'[j] = records[j] /\ identity'[j] = identity[j]
      /\ identity'[i] = Revised(i)
  BY <1>2, <1>3, <1>5 DEF Inv, ContextType, RecordRows, Calls
<1>10. RecordsInv'
  <2> SUFFICES ASSUME NEW j \in Identities, NEW n \in 1..Len(records'[j]),
                      records'[j][n].evidence # NoEvidence
               PROVE  Backed(records[j][n].evidence, records[j][n].assignment)'
    BY DEF RecordsInv
  <2>1. PICK e, id : e = records'[j][n].evidence /\ id = records'[j][n].assignment
    OBVIOUS
  <2>2. Backed(e, id)
    <3>1. CASE j = i /\ n = Len(records[i]) + 1
      BY <1>3, <1>9, <2>1, <3>1
    <3>2. CASE j = i /\ n # Len(records[i]) + 1
      <4>1. n \in 1..Len(records[i])
        BY <1>5, <1>9, <3>2
      <4> QED
        BY <1>3, <1>9, <2>1, <3>2, <4>1 DEF Inv, RecordsInv
    <3>3. CASE j # i
      BY <1>9, <2>1, <3>3 DEF Inv, RecordsInv
    <3> QED
      BY <3>1, <3>2, <3>3
  <2>3. Backed(e, id)'
    BY <1>2, <2>2, BackedKept, QuietKeeps
  <2> QED
    BY <2>1, <2>3
<1>11. StateInv'
  BY <1>3, <1>4, <1>5, <1>9 DEF Inv, StateInv
<1>12. OneContextHistory'
  <2>1. /\ identity[i].current = Len(records[i]) /\ identity[i].version = Len(records[i])
        /\ \A n \in 1..Len(records[i]) : /\ records[i][n].supersedes = n - 1
                                         /\ records[i][n].identityVersion = n
    <3>1. Len(records[i]) \in Nat
      BY <1>5
    <3>2. /\ identity[i].current = Len(records[i])
          /\ identity[i].version = Len(records[i]) + 0
          /\ \A n \in 1..Len(records[i]) : /\ records[i][n].supersedes = n - 1
                                           /\ records[i][n].identityVersion = n
      BY <1>3 DEF Inv, OneContextHistory
    <3> QED
      BY <3>1, <3>2
  <2>2. /\ identity'[i].current = Len(records'[i]) /\ identity'[i].version = Len(records'[i])
        /\ identity'[i].state = "ACTIVE"
    BY <1>4, <1>9, <2>1
  <2>3. \A n \in 1..Len(records'[i]) : /\ records'[i][n].supersedes = n - 1
                                       /\ records'[i][n].identityVersion = n
    <3> SUFFICES ASSUME NEW n \in 1..Len(records'[i])
                 PROVE  /\ records'[i][n].supersedes = n - 1
                        /\ records'[i][n].identityVersion = n
      OBVIOUS
    <3>1. CASE n = Len(records[i]) + 1
      BY <1>5, <1>9, <2>1, <3>1
    <3>2. CASE n # Len(records[i]) + 1
      <4>1. n \in 1..Len(records[i])
        BY <1>5, <1>9, <3>2
      <4> QED
        BY <1>9, <2>1, <4>1
    <3> QED
      BY <3>1, <3>2
  <2>4. Len(records'[i]) \in Nat
    BY <1>5, <1>9
  <2>5. identity'[i].version = Len(records'[i]) + (IF identity'[i].state = "ENDED" THEN 1 ELSE 0)
    BY <2>2, <2>4
  <2>6. \A j \in Identities : j # i => identity'[j] = identity[j] /\ records'[j] = records[j]
    BY <1>9
  <2>7. ASSUME NEW j \in Identities, j # i
        PROVE  /\ identity'[j].current = Len(records'[j])
               /\ identity'[j].version =
                     Len(records'[j]) + (IF identity'[j].state = "ENDED" THEN 1 ELSE 0)
               /\ \A n \in 1..Len(records'[j]) : /\ records'[j][n].supersedes = n - 1
                                                /\ records'[j][n].identityVersion = n
    <3>1. PICK r, k : r = records[j] /\ k = identity[j]
      OBVIOUS
    <3>2. /\ k.current = Len(r)
          /\ k.version = Len(r) + (IF k.state = "ENDED" THEN 1 ELSE 0)
          /\ \A n \in 1..Len(r) : r[n].supersedes = n - 1 /\ r[n].identityVersion = n
      BY <3>1 DEF Inv, OneContextHistory
    <3>3. records'[j] = r /\ identity'[j] = k
      BY <2>6, <2>7, <3>1
    <3> QED
      BY <3>2, <3>3
  <2> QED
    BY <2>2, <2>3, <2>5, <2>7 DEF OneContextHistory
<1> QED
  BY <1>6, <1>7, <1>8, <1>10, <1>11, <1>12 DEF Inv

\* end_context_identity.
LEMMA EndKeeps ==
    ASSUME Inv, NEW c \in Clients, EndIdentity(c)
    PROVE  Inv'
<1>1. PICK i \in Identities :
          /\ lock = {} /\ identity[i].state = "ACTIVE"
          /\ identity' = [identity EXCEPT ![i].state = "ENDED", ![i].version = @ + 1]
          /\ page' = [page EXCEPT ![c] = NoPage]
          /\ UNCHANGED <<lock, reviewed, observed, records, client>>
  BY DEF EndIdentity, ProjectFree, Close
<1>2. /\ identity[i].version \in Nat /\ identity[i].current \in Nat
      /\ identity'[i] = [state |-> "ENDED", version |-> identity[i].version + 1,
                         current |-> identity[i].current]
      /\ \A j \in Identities : j # i => identity'[j] = identity[j]
  <2>1. identity \in [Identities -> RecordRows]
    BY DEF Inv, ContextType
  <2>2. PICK k \in RecordRows : k = identity[i]
    BY <2>1
  <2>3. identity'[i] = [k EXCEPT !.state = "ENDED", !.version = @ + 1]
    BY <1>1, <2>1, <2>2
  <2>4. /\ k.version \in Nat /\ k.current \in Nat
        /\ [k EXCEPT !.state = "ENDED", !.version = @ + 1] =
               [state |-> "ENDED", version |-> k.version + 1, current |-> k.current]
    <3>1. k = [state |-> k.state, version |-> k.version, current |-> k.current]
      BY DEF RecordRows
    <3>2. PICK v, w, n : v = k.version /\ w = k.current /\ n = k.version + 1
      OBVIOUS
    <3>3. PICK m : m = [k EXCEPT !.state = "ENDED"]
      OBVIOUS
    <3>4. m = [state |-> "ENDED", version |-> v, current |-> w]
      BY <3>1, <3>2, <3>3
    <3>5. [m EXCEPT !.version = n] = [state |-> "ENDED", version |-> n, current |-> w]
      BY <3>4
    <3>6. k.version \in Nat /\ k.current \in Nat
      BY DEF RecordRows
    <3> QED
      BY <3>2, <3>3, <3>5, <3>6
  <2>5. \A j \in Identities : j # i => identity'[j] = identity[j]
    BY <1>1, <2>1
  <2> QED
    BY <2>2, <2>3, <2>4, <2>5
<1>3. ContextType'
  <2>1. identity'[i] \in RecordRows
    BY <1>2 DEF RecordRows
  <2>2. identity' \in [Identities -> RecordRows]
    BY <1>1, <1>2, <2>1 DEF Inv, ContextType
  <2>3. /\ page' \in [Clients -> {NoPage} \cup [identity : Identities, version : Nat, head : Nat]]
        /\ records' = records /\ client' = client
    BY <1>1 DEF Inv, ContextType
  <2> QED
    BY <2>2, <2>3 DEF Inv, ContextType
<1>4. PutInv'
  BY <1>1 DEF Inv, PutInv
<1>5. AuthorityInv' /\ RecordsInv'
  BY <1>1, LockKeeps, RecordsKept, QuietKeeps DEF Inv
<1>6. StateInv'
  <2>1. ASSUME NEW j \in Identities
        PROVE  identity'[j].state = "NONE" <=> identity[j].state = "NONE"
    <3>1. CASE j = i
      BY <1>1, <1>2, <3>1
    <3>2. CASE j # i
      BY <1>2, <3>2
    <3> QED
      BY <3>1, <3>2
  <2> QED
    BY <1>1, <2>1 DEF Inv, StateInv
<1>7. OneContextHistory'
  <2>1. ASSUME NEW j \in Identities
        PROVE  /\ identity'[j].current = Len(records[j])
               /\ identity'[j].version =
                     Len(records[j]) + (IF identity'[j].state = "ENDED" THEN 1 ELSE 0)
               /\ \A n \in 1..Len(records[j]) : /\ records[j][n].supersedes = n - 1
                                                /\ records[j][n].identityVersion = n
    <3>1. Len(records[j]) \in Nat
      BY DEF Inv, ContextType
    <3>2. /\ identity[j].current = Len(records[j])
          /\ identity[j].version = Len(records[j]) + (IF identity[j].state = "ENDED" THEN 1 ELSE 0)
          /\ \A n \in 1..Len(records[j]) : /\ records[j][n].supersedes = n - 1
                                           /\ records[j][n].identityVersion = n
      BY DEF Inv, OneContextHistory
    <3>3. CASE j # i
      BY <1>2, <3>2, <3>3
    <3>4. CASE j = i
      <4>1. PICK k, m : k = identity[i] /\ m = Len(records[i])
        OBVIOUS
      <4>2. k.version = m /\ k.current = m /\ m \in Nat
        <5>1. k.state # "ENDED"
          BY <1>1, <4>1
        <5>2. k.version = m + 0
          BY <3>2, <3>4, <4>1, <5>1
        <5> QED
          BY <3>1, <3>2, <3>4, <4>1, <5>2
      <4>3. identity'[j] = [state |-> "ENDED", version |-> m + 1, current |-> m]
        BY <1>2, <3>4, <4>1, <4>2
      <4> QED
        BY <3>2, <3>4, <4>1, <4>3
    <3> QED
      BY <3>3, <3>4
  <2> QED
    BY <1>1, <2>1 DEF OneContextHistory
<1> QED
  BY <1>3, <1>4, <1>5, <1>6, <1>7 DEF Inv

\* A rollback.
LEMMA GiveUpKeeps ==
    ASSUME Inv, NEW c \in Clients, GiveUp(c)
    PROVE  Inv'
<1>1. /\ lock' = lock \ {c} /\ client' = [client EXCEPT ![c] = Idle]
      /\ page' = [page EXCEPT ![c] = NoPage]
      /\ UNCHANGED <<reviewed, observed, identity, records>>
  BY DEF GiveUp, Close, context
<1>2. lock' = {} \/ lock' = lock
  BY <1>1 DEF Inv, AuthorityInv
<1>3. AuthorityInv' /\ RecordsInv'
  BY <1>1, <1>2, LockKeeps, RecordsKept, QuietKeeps DEF Inv
<1>4. /\ client'[c] = Idle
      /\ \A d \in Clients : d # c => client'[d] = client[d] /\ page'[d] = page[d]
  BY <1>1 DEF Inv, ContextType
<1>5. PutInv'
  <2>1. ASSUME NEW d \in Clients, d # c, client[d].pc # "idle", client[d].evidence # NoEvidence
        PROVE  Backed(client[d].evidence, client[d].assignment)'
               /\ Wins(client[d].identity, client[d].evidence, client[d].assignment)'
    BY <1>1, <1>4, <2>1, PutStands, QuietKeeps DEF Inv
  <2> QED
    BY <1>1, <1>4, <2>1 DEF Inv, PutInv, AsRead
<1>6. ContextType'
  <2>1. Idle \in Calls
    BY DEF Ids, Calls
  <2> QED
    BY <1>1, <2>1 DEF Inv, ContextType
<1>7. StateInv' /\ OneContextHistory'
  BY <1>1 DEF Inv, StateInv, OneContextHistory
<1> QED
  BY <1>3, <1>5, <1>6, <1>7 DEF Inv

(***************************************************************************)
(* The invariant is inductive                                              *)
(***************************************************************************)

\* The empty database satisfies the invariant.
LEMMA Initially == Init => Inv
<1> SUFFICES ASSUME Init PROVE Inv
  OBVIOUS
<1>1. Cardinality(lock) <= 1
  BY FS_EmptySet DEF Init, AuthorityInit
<1>2. AuthorityTypeOK
  BY <1>1, SourceAuthorityAssumption DEF Init, AuthorityInit, AuthorityTypeOK
<1>3. AuthorityInv
  BY <1>2 DEF Init, AuthorityInit, AuthorityInv
<1>4. ContextType
  BY DEF Init, ContextType, RecordRows, Calls, Ids
<1>5. PutInv /\ RecordsInv /\ StateInv /\ OneContextHistory
  BY DEF Init, AuthorityInit, PutInv, RecordsInv, StateInv, OneContextHistory
<1> QED
  BY <1>3, <1>4, <1>5 DEF Inv

\* Every step keeps it.
LEMMA Stepwise == Inv /\ [Next]_vars => Inv'
<1> SUFFICES ASSUME Inv, [Next]_vars PROVE Inv'
  OBVIOUS
<1>1. CASE SourceStep /\ UNCHANGED <<context, clients>>
  BY <1>1, SourceStepEffect, OutsideKeeps DEF Inv
<1>2. CASE AuthorityStep /\ UNCHANGED <<context, clients>>
  BY <1>2, SetEffect, RevokeEffect, OutsideKeeps DEF Inv, AuthorityStep
<1>3. ASSUME NEW c \in Clients, OpenIdentity(c) PROVE Inv'
  BY <1>3, OpenKeeps
<1>4. ASSUME NEW c \in Clients, NEW i \in Identities, PutNative(c, i) PROVE Inv'
  <2>1. Writable(c, i) /\ Begin(c, i, "covered", NoEvidence, NoAssignment) /\ NoAssignment \in Ids
    BY <1>4 DEF PutNative, Ids
  <2> QED
    BY <2>1, BeginKeeps
<1>5. ASSUME NEW c \in Clients, NEW i \in Identities, PutResolve(c, i) PROVE Inv'
  <2>1. PICK e \in evidence :
            /\ ResolveEffective(Facet[i], e).qualification = "EFFECTIVE"
            /\ ResolveEffective(Facet[i], e).source = e.source
            /\ Begin(c, i, "resolved", e, ResolveEffective(Facet[i], e).assignment)
    BY <1>5 DEF PutResolve
  <2>2. PICK id : id = ResolveEffective(Facet[i], e).assignment
    OBVIOUS
  <2>3. id \in Ids /\ Backed(e, id) /\ Wins(i, e, id)
    BY <2>1, <2>2, ResolvedStands DEF Inv
  <2>4. e \in Evidences /\ Writable(c, i)
    BY <1>5 DEF Inv, AuthorityInv, PutResolve
  <2> QED
    BY <2>1, <2>2, <2>3, <2>4, BeginKeeps
<1>6. ASSUME NEW c \in Clients, PutCover(c) \/ PutCommit(c) \/ EndIdentity(c) \/ GiveUp(c) PROVE Inv'
  BY <1>6, CoverKeeps, CommitKeeps, EndKeeps, GiveUpKeeps
<1>7. CASE UNCHANGED vars
  <2>1. UNCHANGED <<reviewed, observed, context, clients, lock>>
    BY <1>7 DEF vars
  <2>2. AuthorityInv'
    BY <2>1, LockKeeps DEF Inv
  <2> QED
    BY <2>1, <2>2, QuietKeeps, OutsideKeeps
<1> QED
  BY <1>1, <1>2, <1>3, <1>4, <1>5, <1>6, <1>7 DEF Next, Put

\* The invariant holds throughout.
LEMMA Invariance == Spec => []Inv
<1> QED
  BY Initially, Stepwise, PTL DEF Spec

(***************************************************************************)
(* What follows                                                            *)
(***************************************************************************)

\* The columns keep their types, the current record of an identity is one of
\* its records, and exactly an open put holds the project row.
THEOREM TypeCorrect == Spec => []TypeOK
<1>1. ASSUME Inv PROVE TypeOK
  <2>1. ASSUME NEW i \in Identities
        PROVE  /\ identity[i].state \in {"NONE", "ACTIVE", "ENDED"} /\ identity[i].version \in Nat
               /\ identity[i].current \in 0..Len(records[i])
    <3>1. identity[i] \in RecordRows /\ Len(records[i]) \in Nat
      BY <1>1 DEF Inv, ContextType
    <3>2. identity[i].current = Len(records[i])
      BY <1>1 DEF Inv, OneContextHistory
    <3> QED
      BY <3>1, <3>2 DEF RecordRows
  <2>2. ASSUME NEW c \in Clients
        PROVE  client[c].pc \in {"idle", "resolved", "covered"} /\ (c \in lock <=> client[c].pc # "idle")
    BY <1>1 DEF Inv, ContextType, Calls, PutInv
  <2> QED
    BY <1>1, <2>1, <2>2 DEF Inv, AuthorityInv, TypeOK
<1> QED
  BY <1>1, Invariance, PTL

\* However puts and endings interleave, the records of an identity are one
\* chain in the order of the identity's versions: the unique constraints on
\* context_record_origins never are what stops a fork.
THEOREM HistoryLinear == Spec => []OneContextHistory
<1>1. Inv => OneContextHistory
  BY DEF Inv
<1> QED
  BY <1>1, Invariance, PTL

\* Whatever the write path of migration 010 accepts as EFFECTIVE for a piece of
\* evidence, the overview, which asks of no ref, shows as EFFECTIVE too.
THEOREM OverviewNeverBehind == Spec => []OverviewAgrees
<1>1. ASSUME Inv PROVE OverviewAgrees
  <2>1. evidence \subseteq Evidences
    BY <1>1 DEF Inv, AuthorityInv
  <2> QED
    BY <1>1, <2>1, OverviewFollows DEF Inv, OverviewAgrees
<1> QED
  BY <1>1, Invariance, PTL

\* However scopes are decided and keys are spelt, of the strongest candidates for a
\* piece of evidence at most one is a scope that its file lies below: ties, and
\* so the refusals as AMBIGUOUS, all come from "_" in a scope key.
THEOREM TiesExplained == Spec => []TiesOnlyByWildcard
<1>1. ASSUME Inv PROVE TiesOnlyByWildcard
  <2>1. evidence \subseteq Evidences
    BY <1>1 DEF Inv, AuthorityInv
  <2> QED
    BY <2>1, UniqueWinner DEF TiesOnlyByWildcard
<1> QED
  BY <1>1, Invariance, PTL

\* complete_source_ingestion never deletes evidence a Context record rests on:
\* the foreign key of migration 009 would make the whole ingestion fail.
THEOREM EvidenceStays == Spec => []EvidenceKept
<1>1. ASSUME Inv PROVE EvidenceKept
  <2>1. \A i \in Identities : DOMAIN records[i] = 1..Len(records[i])
    BY <1>1 DEF Inv, ContextType
  <2> QED
    BY <1>1, <2>1 DEF Inv, RecordsInv, Backed, EvidenceKept
<1> QED
  BY <1>1, Invariance, PTL

\* sourceFreshness says CURRENT only of a record whose source, observation and
\* assignment are the ones in force, whatever raced with the transaction that
\* wrote it.
THEOREM CurrentMeansCurrent == Spec => []CurrentIsCurrent
<1>1. ASSUME Inv PROVE CurrentIsCurrent
  <2> SUFFICES ASSUME NEW i \in Identities, identity[i].state # "NONE", Freshness(i) = "CURRENT"
               PROVE  LET r == records[i][identity[i].current]
                          e == r.evidence IN
                      /\ frontier[<<e.source, e.ref>>] =
                            [desired |-> e.sequence, ingested |-> e.sequence]
                      /\ connection[e.source].state = "ACTIVE"
                      /\ scope[r.assignment.scope].current = r.assignment.version
    BY DEF CurrentIsCurrent
  <2>0. PICK r, e, id : r = records[i][identity[i].current] /\ e = r.evidence /\ id = r.assignment
    OBVIOUS
  <2>1. identity[i].current \in 1..Len(records[i])
    <3>1. records[i] # << >> /\ records[i] \in Seq(Records) /\ identity[i].current = Len(records[i])
      BY <1>1 DEF Inv, StateInv, ContextType, OneContextHistory
    <3> QED
      BY <3>1
  <2>2. /\ e # NoEvidence /\ connection[e.source].state = "ACTIVE" /\ AuthorityCurrent(i, r)
        /\ ~(frontier[<<e.source, e.ref>>].ingested > e.sequence)
    BY <2>0 DEF Freshness
  <2>4. Backed(e, id)
    <3>1. PICK n \in 1..Len(records[i]) : n = identity[i].current
      BY <2>1
    <3>2. r = records[i][n]
      BY <2>0, <3>1
    <3>3. r.evidence # NoEvidence => Backed(r.evidence, r.assignment)
      BY <1>1, <3>2 DEF Inv, RecordsInv
    <3> QED
      BY <2>0, <2>2, <3>3
  <2>5. /\ ResolveEffective(Facet[i], e).assignment = id
        /\ ResolveEffective(Facet[i], e).qualification = "EFFECTIVE"
    BY <2>0, <2>2 DEF AuthorityCurrent
  <2>6. PICK s \in Candidates(Facet[i], e) :
            LET a == CurrentAssignment(s) IN
            /\ a \in assignments /\ a.scope = s /\ a.version = scope[s].current
            /\ ResolveEffective(Facet[i], e) = [assignment |-> Id(a), source |-> a.source,
                                                qualification |-> Qualification(a, e.ref)]
    BY <1>1, <2>5, ResolvedTo DEF Inv
  <2>7. PICK a : a = CurrentAssignment(s)
    OBVIOUS
  <2>8. /\ a \in assignments /\ a.scope = s /\ a.version = scope[s].current
        /\ id = Id(a) /\ Qualification(a, e.ref) = "EFFECTIVE"
    BY <2>5, <2>6, <2>7
  <2>9. a.source = e.source
    <3>1. PICK b \in assignments : Id(b) = id /\ b.source = e.source
      BY <2>4 DEF Backed
    <3>2. b.scope = a.scope /\ b.version = a.version
      BY <2>8, <3>1 DEF Id
    <3> QED
      BY <1>1, <2>8, <3>1, <3>2 DEF Inv, AuthorityInv
  <2>10. PICK u : u = <<e.source, e.ref>>
    OBVIOUS
  <2>11. /\ e \in Evidences /\ u \in Units /\ e.sequence \in Nat
         /\ e.sequence <= frontier[u].ingested /\ e.sequence <= frontier[u].desired
         /\ frontier[u] \in [desired : Nat, ingested : Nat]
    <3>1. e \in evidence /\ e.sequence <= frontier[u].ingested
      BY <2>4, <2>10 DEF Backed
    <3>2. e \in Evidences
      BY <1>1, <3>1 DEF Inv, AuthorityInv
    <3>3. u \in Units /\ e.sequence \in Nat
      BY <2>10, <3>2 DEF Evidences
    <3>4. frontier[u] \in [desired : Nat, ingested : Nat]
      BY <1>1, <3>3 DEF Inv, AuthorityInv, AuthorityTypeOK
    <3>5. e.sequence \in 1..frontier[u].desired
      BY <1>1, <2>10, <3>1 DEF Inv, AuthorityInv, AuthorityTypeOK
    <3> QED
      BY <3>1, <3>2, <3>3, <3>4, <3>5
  <2>12. Current(u)
    BY <2>8, <2>9, <2>10, <2>11, EffectiveIs DEF Evidences
  <2>13. frontier[u].desired = e.sequence /\ frontier[u].ingested = e.sequence
    BY <2>2, <2>10, <2>11, <2>12 DEF Current
  <2>14. frontier[u] = [desired |-> e.sequence, ingested |-> e.sequence]
    BY <2>11, <2>13
  <2>15. scope[id.scope].current = id.version
    BY <2>8 DEF Id
  <2> QED
    BY <2>0, <2>2, <2>10, <2>14, <2>15
<1> QED
  BY <1>1, Invariance, PTL

\* Only a commit and an ending touch an identity, and only a commit its records.
LEMMA Writers ==
    ASSUME Inv, [Next]_vars, NEW i \in Identities,
           identity'[i] # identity[i] \/ records'[i] # records[i]
    PROVE  \E c \in Clients : PutCommit(c) \/ EndIdentity(c)
BY DEF Next, Put, OpenIdentity, PutNative, PutResolve, Begin, PutCover, GiveUp, context, vars

\* The two optimistic tokens of put_context_record_v2 and end_context_identity
\* are compared before other statements run, and still hold when they commit.
THEOREM RevisedAsRead == Spec => UnchangedSinceRead
<1> DEFINE A == \A i \in Identities : identity'[i] # identity[i] =>
          \E c \in Clients : /\ page'[c] # page[c] /\ page[c].identity = i
                             /\ page[c].version = identity[i].version
                             /\ page[c].head = identity[i].current
<1>1. ASSUME Inv, [Next]_vars PROVE A
  <2> SUFFICES ASSUME NEW i \in Identities, identity'[i] # identity[i]
               PROVE  \E c \in Clients : page'[c] # page[c] /\ AsRead(c, i)
    BY DEF AsRead
  <2>1. PICK c \in Clients : PutCommit(c) \/ EndIdentity(c)
    BY <1>1, Writers
  <2>2. PICK j \in Identities : AsRead(c, j) /\ identity' = [identity EXCEPT ![j] = identity'[j]]
                                /\ page' = [page EXCEPT ![c] = NoPage]
    <3>1. CASE PutCommit(c)
      <4>1. client[c].pc # "idle"
        BY <3>1 DEF PutCommit
      <4>2. client[c].identity \in Identities /\ AsRead(c, client[c].identity)
        BY <1>1, <4>1 DEF Inv, PutInv
      <4> QED
        BY <1>1, <3>1, <4>2 DEF PutCommit, Close, Inv, ContextType
    <3>2. CASE EndIdentity(c)
      <4>1. PICK j \in Identities :
                /\ AsRead(c, j) /\ page' = [page EXCEPT ![c] = NoPage]
                /\ identity' = [identity EXCEPT ![j].state = "ENDED", ![j].version = @ + 1]
        BY <3>2 DEF EndIdentity, Close
      <4>2. identity' = [identity EXCEPT ![j] = identity'[j]]
        BY <1>1, <4>1 DEF Inv, ContextType
      <4> QED
        BY <4>1, <4>2
    <3> QED
      BY <2>1, <3>1, <3>2
  <2>3. i = j
    BY <1>1, <2>2 DEF Inv, ContextType
  <2>4. page'[c] = NoPage
    BY <1>1, <2>2 DEF Inv, ContextType
  <2>5. page[c].identity # "none"
    BY <2>2, ContextRecordsAssumption DEF AsRead
  <2> QED
    BY <2>2, <2>3, <2>4, <2>5
<1>2. Spec => [][A]_vars
  BY <1>1, Invariance, PTL DEF Spec
<1> QED
  BY <1>2 DEF UnchangedSinceRead

\* put_context_record_v2 resolves authority and only then reads the frontier
\* and inserts: since decisions and verifications wait for the project row,
\* the assignment it stores is the winner when it commits, too.
THEOREM AuthorityAtCommit == Spec => WinsAtCommit
<1> DEFINE A == \A i \in Identities :
          LET n == Len(records[i]) + 1
              r == records'[i][n] IN
          records'[i] # records[i] /\ r.evidence # NoEvidence =>
              /\ ResolveEffective(Facet[i], r.evidence).assignment = r.assignment
              /\ DefaultRefCurrent(r)
<1>1. ASSUME Inv, [Next]_vars PROVE A
  <2> SUFFICES ASSUME NEW i \in Identities, records'[i] # records[i],
                      NEW r, r = records'[i][Len(records[i]) + 1], r.evidence # NoEvidence
               PROVE  /\ ResolveEffective(Facet[i], r.evidence).assignment = r.assignment
                      /\ DefaultRefCurrent(r)
    OBVIOUS
  <2>1. PICK c \in Clients : PutCommit(c)
    BY <1>1, Writers DEF EndIdentity
  <2>2. PICK e, id : e = client[c].evidence /\ id = client[c].assignment
    OBVIOUS
  <2>3. client[c].pc # "idle"
    BY <2>1 DEF PutCommit
  <2>4. PICK j, new :
            /\ j \in Identities /\ j = client[c].identity
            /\ new.evidence = e /\ new.assignment = id
            /\ records' = [records EXCEPT ![j] = Append(records[j], new)]
    BY <1>1, <2>1, <2>2, <2>3 DEF PutCommit, Inv, PutInv
  <2>5. i = j
    BY <1>1, <2>4 DEF Inv, ContextType
  <2>6. r = new
    BY <1>1, <2>4, <2>5 DEF Inv, ContextType
  <2>7. Wins(i, e, id)
    BY <1>1, <2>2, <2>3, <2>4, <2>5, <2>6 DEF Inv, PutInv
  <2> QED
    BY <2>4, <2>6, <2>7 DEF Wins, DefaultRefCurrent
<1>2. Spec => [][A]_vars
  BY <1>1, Invariance, PTL DEF Spec
<1> QED
  BY <1>2 DEF WinsAtCommit

(***************************************************************************)
(* The history of a scope.  What OneAuthorityHistory says of one scope is  *)
(* a fact about two finite sets, the version and the current assignment.   *)
(***************************************************************************)

Made(A, s) == {a \in A : a.scope = s}
Over(E, s) == {e \in E : e.scope = s}
Revoked(E, s) == {e \in Over(E, s) : e.successor = Nobody}

Line(A, E, s, version, current) ==
    /\ {a.version : a \in Made(A, s)} \cup {e.version : e \in Revoked(E, s)} = 1..version
    /\ Cardinality(Made(A, s)) + Cardinality(Revoked(E, s)) = version
    /\ {e.ended : e \in Over(E, s)} = {a.version : a \in Made(A, s)} \ {current}
    /\ \A e \in Over(E, s) : e.version = e.ended + 1 /\ e.successor \in {Nobody, e.version}
    /\ \A a \in Made(A, s) : a.supersedes # Nobody <=>
          \E e \in Over(E, s) : e.ended = a.supersedes /\ e.successor = a.version

\* A decision is for the version that is current, if there is one.
HistoryInv ==
    /\ IsFiniteSet(assignments) /\ IsFiniteSet(endings)
    /\ \A s \in Scopes : /\ scope[s].current \in {Nobody, scope[s].version}
                         /\ Line(assignments, endings, s, scope[s].version, scope[s].current)

\* One more of a finite set, of the scope or of another.
LEMMA OneMore ==
    ASSUME NEW S, IsFiniteSet(S), NEW x, x \notin S
    PROVE  /\ Cardinality(S) \in Nat /\ IsFiniteSet(S \cup {x})
           /\ Cardinality(S \cup {x}) = Cardinality(S) + 1
BY FS_AddElement, FS_CardinalityType

\* An assignment takes the next version, and ends the current one.
LEMMA LineWhenSet ==
    ASSUME NEW A \in SUBSET Assignments, NEW E \in SUBSET Endings, IsFiniteSet(A), IsFiniteSet(E),
           NEW s \in Scopes, NEW n \in Nat, NEW c \in {Nobody, n}, Line(A, E, s, n, c),
           NEW a \in Assignments, a.scope = s, a.version = n + 1, a.supersedes = c,
           c # Nobody => \E b \in Made(A, s) : b.version = c,
           NEW x \in Endings,
           x = [scope |-> s, ended |-> IF c = Nobody THEN 1 ELSE c, version |-> n + 1, successor |-> n + 1],
           NEW E2, E2 = IF c = Nobody THEN E ELSE E \cup {x}
    PROVE  Line(A \cup {a}, E2, s, n + 1, n + 1)
<1> DEFINE M == Made(A, s)
           M2 == Made(A \cup {a}, s)
           O == Over(E, s)
           O2 == Over(E2, s)
<1>0. \A b \in M : b.version \in 1..n /\ b.version # n + 1 /\ b.version # Nobody
  <2>1. \A b \in M : b.version \in 1..n
    BY DEF Line
  <2> QED
    BY <2>1
<1>1. M2 = M \cup {a} /\ a \notin M /\ IsFiniteSet(M)
  <2>1. IsFiniteSet(M)
    BY FS_Subset DEF Made
  <2> QED
    BY <1>0, <2>1 DEF Made
<1>2. O2 = IF c = Nobody THEN O ELSE O \cup {x}
  BY DEF Over
<1>3. Revoked(E2, s) = Revoked(E, s)
  BY <1>2 DEF Revoked
<1>4. {b.version : b \in M2} = {b.version : b \in M} \cup {n + 1}
  BY <1>1
<1>5. {b.version : b \in M2} \cup {e.version : e \in Revoked(E2, s)} = 1..n + 1
  <2>1. {b.version : b \in M} \cup {e.version : e \in Revoked(E, s)} = 1..n
    BY DEF Line
  <2>2. 1..n + 1 = (1..n) \cup {n + 1}
    OBVIOUS
  <2> QED
    BY <1>3, <1>4, <2>1, <2>2
<1>6. Cardinality(M2) + Cardinality(Revoked(E2, s)) = n + 1
  <2>1. Cardinality(M2) = Cardinality(M) + 1 /\ Cardinality(M) \in Nat
    BY <1>1, OneMore
  <2>2. Cardinality(Revoked(E, s)) \in Nat
    BY FS_Subset, FS_CardinalityType DEF Revoked, Over
  <2>3. Cardinality(M) + Cardinality(Revoked(E, s)) = n
    BY DEF Line
  <2> QED
    BY <1>3, <2>1, <2>2, <2>3
<1>7. {e.ended : e \in O2} = {b.version : b \in M2} \ {n + 1}
  <2>1. {e.ended : e \in O} = {b.version : b \in M} \ {c}
    BY DEF Line
  <2>2. n + 1 \notin {b.version : b \in M} /\ Nobody \notin {b.version : b \in M}
    BY <1>0
  <2>3. {b.version : b \in M2} \ {n + 1} = {b.version : b \in M}
    BY <1>4, <2>2
  <2>4. CASE c = Nobody
    BY <1>2, <2>1, <2>2, <2>3, <2>4
  <2>5. CASE c # Nobody
    <3>1. {e.ended : e \in O2} = {e.ended : e \in O} \cup {c}
      <4> HIDE DEF O, O2
      <4>1. O2 = O \cup {x} /\ x.ended = c
        BY <1>2, <2>5
      <4>2. \A y : (\E e \in O2 : y = e.ended) <=> (\E e \in O : y = e.ended) \/ y = c
        BY <4>1
      <4> QED
        BY <4>2
    <3>2. c \in {b.version : b \in M}
      BY <2>5
    <3>3. {e.ended : e \in O2} = {b.version : b \in M}
      BY <2>1, <3>1, <3>2
    <3> QED
      BY <2>3, <3>3
  <2> QED
    BY <2>4, <2>5
<1>8. \A e \in O2 : e.version = e.ended + 1 /\ e.successor \in {Nobody, e.version}
  <2>1. \A e \in O : e.version = e.ended + 1 /\ e.successor \in {Nobody, e.version}
    BY DEF Line
  <2> QED
    BY <1>2, <2>1
<1>9. ASSUME NEW b \in M2
      PROVE  b.supersedes # Nobody <=> \E e \in O2 : e.ended = b.supersedes /\ e.successor = b.version
  <2>1. CASE b = a
    <3>1. c # Nobody => x \in O2 /\ x.ended = c /\ x.successor = n + 1
      BY <1>2
    <3>2. \A e \in O2 : e.ended # Nobody
      BY <1>2 DEF Over, Endings
    <3> QED
      BY <2>1, <3>1, <3>2
  <2>2. CASE b # a
    <3>1. b \in M /\ b.version # n + 1
      BY <1>0, <1>1, <2>2
    <3>2. b.supersedes # Nobody <=> \E e \in O : e.ended = b.supersedes /\ e.successor = b.version
      BY <3>1 DEF Line
    <3> QED
      BY <1>2, <3>1, <3>2
  <2> QED
    BY <2>1, <2>2
<1> QED
  BY <1>5, <1>6, <1>7, <1>8, <1>9 DEF Line

\* A revocation takes the next version too, and leaves none current.
LEMMA LineWhenRevoked ==
    ASSUME NEW A \in SUBSET Assignments, NEW E \in SUBSET Endings, IsFiniteSet(A), IsFiniteSet(E),
           NEW s \in Scopes, NEW n \in Nat \ {0}, Line(A, E, s, n, n),
           \E b \in Made(A, s) : b.version = n,
           NEW x, x = [scope |-> s, ended |-> n, version |-> n + 1, successor |-> Nobody]
    PROVE  Line(A, E \cup {x}, s, n + 1, Nobody)
<1> DEFINE M == Made(A, s)
           O == Over(E, s)
           R == Revoked(E, s)
<1>1. Over(E \cup {x}, s) = O \cup {x} /\ Revoked(E \cup {x}, s) = R \cup {x}
  BY DEF Over, Revoked
<1>2. {b.version : b \in M} \cup {e.version : e \in R} = 1..n
  BY DEF Line
<1>3. {b.version : b \in M} \cup {e.version : e \in R \cup {x}} = 1..n + 1
  <2>1. 1..n + 1 = (1..n) \cup {n + 1}
    OBVIOUS
  <2>2. {e.version : e \in R \cup {x}} = {e.version : e \in R} \cup {n + 1}
    OBVIOUS
  <2> QED
    BY <1>2, <2>1, <2>2
<1>4. Cardinality(M) + Cardinality(R \cup {x}) = n + 1
  <2>1. x \notin R
    BY <1>2
  <2>2. IsFiniteSet(R) /\ IsFiniteSet(M)
    BY FS_Subset DEF Revoked, Over, Made
  <2>3. Cardinality(R \cup {x}) = Cardinality(R) + 1 /\ Cardinality(R) \in Nat /\ Cardinality(M) \in Nat
    BY <2>1, <2>2, OneMore, FS_CardinalityType
  <2>4. Cardinality(M) + Cardinality(R) = n
    BY DEF Line
  <2> QED
    BY <2>3, <2>4
<1>5. {e.ended : e \in O \cup {x}} = {b.version : b \in M} \ {Nobody}
  <2>1. {e.ended : e \in O} = {b.version : b \in M} \ {n}
    BY DEF Line
  <2>2. {e.ended : e \in O \cup {x}} = {e.ended : e \in O} \cup {n}
    OBVIOUS
  <2>3. n \in {b.version : b \in M} /\ Nobody \notin {b.version : b \in M}
    BY <1>2
  <2> QED
    BY <2>1, <2>2, <2>3
<1>6. \A e \in O \cup {x} : e.version = e.ended + 1 /\ e.successor \in {Nobody, e.version}
  BY DEF Line
<1>7. \A b \in M : b.supersedes # Nobody <=>
          \E e \in O \cup {x} : e.ended = b.supersedes /\ e.successor = b.version
  <2>1. \A b \in M : b.version # Nobody
    BY <1>2
  <2>2. \A b \in M : b.supersedes # Nobody <=>
            \E e \in O : e.ended = b.supersedes /\ e.successor = b.version
    BY DEF Line
  <2> QED
    BY <2>1, <2>2
<1> QED
  BY <1>1, <1>3, <1>4, <1>5, <1>6, <1>7 DEF Line

\* What is decided of one scope leaves the others as they were.
LEMMA LineElsewhere ==
    ASSUME NEW A, NEW E, NEW A2, NEW E2, NEW s, NEW t, s # t, NEW n, NEW c,
           \A a \in A2 : a \in A \/ a.scope = s, \A e \in E2 : e \in E \/ e.scope = s,
           A \subseteq A2, E \subseteq E2, Line(A, E, t, n, c)
    PROVE  Line(A2, E2, t, n, c)
<1>1. Made(A2, t) = Made(A, t) /\ Over(E2, t) = Over(E, t)
  BY DEF Made, Over
<1> QED
  BY <1>1 DEF Line, Revoked

\* The current assignment of a scope, in the terms of its line.
LEMMA CurrentMade ==
    ASSUME AuthorityInv, NEW s \in Scopes, scope[s].current # Nobody
    PROVE  \E a \in Made(assignments, s) : a.version = scope[s].current
BY DEF AuthorityInv, Made

\* set_source_authority keeps the line of its scope.
LEMMA SetKeepsLine ==
    ASSUME AuthorityInv, HistoryInv, SetSourceAuthority
    PROVE  HistoryInv'
<1>1. PICK s \in Scopes, src \in Sources :
          /\ assignments' = assignments \cup
                {[scope |-> s, version |-> scope[s].version + 1, source |-> src,
                  snapshot |-> IF s.selector = "DEFAULT_BRANCH" THEN connection[src].branch ELSE NoRef,
                  supersedes |-> scope[s].current]}
          /\ endings' = EndedBy(s, scope[s].version + 1)
          /\ scope' = [scope EXCEPT ![s] = [version |-> scope[s].version + 1,
                                            current |-> scope[s].version + 1]]
  BY DEF SetSourceAuthority
<1>2. PICK n, c : n = scope[s].version /\ c = scope[s].current
  OBVIOUS
<1>3. PICK a : a = [scope |-> s, version |-> n + 1, source |-> src,
                    snapshot |-> IF s.selector = "DEFAULT_BRANCH" THEN connection[src].branch ELSE NoRef,
                    supersedes |-> c]
  OBVIOUS
<1>4. PICK x : x = [scope |-> s, ended |-> IF c = Nobody THEN 1 ELSE c, version |-> n + 1, successor |-> n + 1]
  OBVIOUS
<1>5. n \in Nat /\ c \in {Nobody, n} /\ Line(assignments, endings, s, n, c)
  BY <1>2 DEF AuthorityInv, AuthorityTypeOK, HistoryInv
<1>6. assignments \in SUBSET Assignments /\ endings \in SUBSET Endings
  BY DEF AuthorityInv, AuthorityTypeOK
<1>7. a \in Assignments
  <2>1. connection[src].branch \in Refs
    BY DEF AuthorityInv, AuthorityTypeOK
  <2> QED
    BY <1>3, <1>5, <2>1 DEF Assignments
<1>8. x \in Endings
  BY <1>4, <1>5 DEF Endings
<1>9. assignments' = assignments \cup {a}
  BY <1>1, <1>2, <1>3
<1>10. endings' = IF c = Nobody THEN endings ELSE endings \cup {x}
  BY <1>1, <1>2, <1>4 DEF EndedBy
<1>11. c # Nobody => \E b \in Made(assignments, s) : b.version = c
  BY <1>2, CurrentMade
<1>12. IsFiniteSet(assignments) /\ IsFiniteSet(endings)
  BY DEF HistoryInv
<1>13. a.scope = s /\ a.version = n + 1 /\ a.supersedes = c
  BY <1>3
<1>14. PICK E2 : E2 = IF c = Nobody THEN endings ELSE endings \cup {x}
  OBVIOUS
<1>15. Line(assignments \cup {a}, E2, s, n + 1, n + 1)
  BY <1>4, <1>5, <1>6, <1>7, <1>8, <1>11, <1>12, <1>13, <1>14, LineWhenSet
<1>16. /\ scope'[s].version = n + 1 /\ scope'[s].current = n + 1
       /\ \A t \in Scopes : t # s => scope'[t] = scope[t]
  BY <1>1, <1>2 DEF AuthorityInv, AuthorityTypeOK
<1>17. IsFiniteSet(assignments') /\ IsFiniteSet(endings')
  BY <1>9, <1>10, <1>12, FS_AddElement
<1>18. ASSUME NEW t \in Scopes
       PROVE  /\ scope'[t].current \in {Nobody, scope'[t].version}
              /\ Line(assignments', endings', t, scope'[t].version, scope'[t].current)
  <2>1. CASE t = s
    BY <1>9, <1>10, <1>14, <1>15, <1>16, <2>1
  <2>2. CASE t # s
    <3>1. /\ \A b \in assignments' : b \in assignments \/ b.scope = s
          /\ \A e \in endings' : e \in endings \/ e.scope = s
          /\ assignments \subseteq assignments' /\ endings \subseteq endings'
      BY <1>4, <1>9, <1>10, <1>13
    <3>2. scope'[t] = scope[t] /\ scope[t].current \in {Nobody, scope[t].version}
          /\ Line(assignments, endings, t, scope[t].version, scope[t].current)
      BY <1>16, <2>2 DEF HistoryInv
    <3>3. Line(assignments', endings', t, scope[t].version, scope[t].current)
      BY <2>2, <3>1, <3>2, LineElsewhere
    <3> QED
      BY <3>2, <3>3
  <2> QED
    BY <2>1, <2>2
<1> QED
  BY <1>17, <1>18 DEF HistoryInv

\* revoke_source_authority too.
LEMMA RevokeKeepsLine ==
    ASSUME AuthorityInv, HistoryInv, RevokeSourceAuthority
    PROVE  HistoryInv'
<1>1. PICK s \in Scopes :
          /\ scope[s].current # Nobody
          /\ endings' = EndedBy(s, Nobody)
          /\ scope' = [scope EXCEPT ![s] = [version |-> scope[s].version + 1, current |-> Nobody]]
          /\ assignments' = assignments
  BY DEF RevokeSourceAuthority
<1>2. PICK n : n = scope[s].version
  OBVIOUS
<1>3. PICK x : x = [scope |-> s, ended |-> n, version |-> n + 1, successor |-> Nobody]
  OBVIOUS
<1>4. n \in Nat \ {0} /\ scope[s].current = n /\ Line(assignments, endings, s, n, n)
  BY <1>1, <1>2 DEF AuthorityInv, AuthorityTypeOK, HistoryInv
<1>5. assignments \in SUBSET Assignments /\ endings \in SUBSET Endings
  BY DEF AuthorityInv, AuthorityTypeOK
<1>6. endings' = endings \cup {x}
  BY <1>1, <1>2, <1>3, <1>4 DEF EndedBy
<1>7. \E b \in Made(assignments, s) : b.version = n
  BY <1>1, <1>4, CurrentMade
<1>8. IsFiniteSet(assignments) /\ IsFiniteSet(endings)
  BY DEF HistoryInv
<1>9. Line(assignments, endings \cup {x}, s, n + 1, Nobody)
  BY <1>3, <1>4, <1>5, <1>7, <1>8, LineWhenRevoked
<1>10. /\ scope'[s].version = n + 1 /\ scope'[s].current = Nobody
       /\ \A t \in Scopes : t # s => scope'[t] = scope[t]
  BY <1>1, <1>2 DEF AuthorityInv, AuthorityTypeOK
<1>11. IsFiniteSet(assignments') /\ IsFiniteSet(endings')
  BY <1>1, <1>6, <1>8, FS_AddElement
<1>12. ASSUME NEW t \in Scopes
       PROVE  /\ scope'[t].current \in {Nobody, scope'[t].version}
              /\ Line(assignments', endings', t, scope'[t].version, scope'[t].current)
  <2>1. CASE t = s
    BY <1>1, <1>6, <1>9, <1>10, <2>1
  <2>2. CASE t # s
    <3>1. /\ \A b \in assignments' : b \in assignments \/ b.scope = s
          /\ \A e \in endings' : e \in endings \/ e.scope = s
          /\ assignments \subseteq assignments' /\ endings \subseteq endings'
      BY <1>1, <1>3, <1>6
    <3>2. scope'[t] = scope[t] /\ scope[t].current \in {Nobody, scope[t].version}
          /\ Line(assignments, endings, t, scope[t].version, scope[t].current)
      BY <1>10, <2>2 DEF HistoryInv
    <3>3. Line(assignments', endings', t, scope[t].version, scope[t].current)
      BY <2>2, <3>1, <3>2, LineElsewhere
    <3> QED
      BY <3>2, <3>3
  <2> QED
    BY <2>1, <2>2
<1> QED
  BY <1>11, <1>12 DEF HistoryInv

\* Nothing else touches the decisions.
LEMMA HistoryKept ==
    ASSUME AuthorityInv, HistoryInv, [Next]_vars
    PROVE  HistoryInv'
<1>1. CASE SetSourceAuthority
  BY <1>1, SetKeepsLine
<1>2. CASE RevokeSourceAuthority
  BY <1>2, RevokeKeepsLine
<1>3. CASE UNCHANGED reviewed
  BY <1>3 DEF HistoryInv, reviewed
<1>4. SetSourceAuthority \/ RevokeSourceAuthority \/ UNCHANGED reviewed
  <2>1. SourceStep => UNCHANGED reviewed
    BY DEF SourceStep, LoseSources, VerifySource, Observe, RecordEvidence, CompleteIngestion
  <2>2. ASSUME NEW c \in Clients, OpenIdentity(c) \/ Put(c) \/ EndIdentity(c) \/ GiveUp(c)
        PROVE  UNCHANGED reviewed
    <3>1. OpenIdentity(c) \/ EndIdentity(c) \/ GiveUp(c) => UNCHANGED reviewed
      BY DEF OpenIdentity, EndIdentity, GiveUp
    <3>2. Put(c) => UNCHANGED reviewed
      BY DEF Put, PutNative, PutResolve, PutCover, PutCommit, Begin
    <3> QED
      BY <2>2, <3>1, <3>2
  <2> QED
    BY <2>1, <2>2 DEF Next, AuthorityStep, vars
<1> QED
  BY <1>1, <1>2, <1>3, <1>4

\* Nothing decided yet is a line of no versions.
LEMMA HistoryInitially == Init => HistoryInv
<1> SUFFICES ASSUME Init PROVE HistoryInv
  OBVIOUS
<1>1. /\ assignments = {} /\ endings = {}
      /\ \A s \in Scopes : scope[s].version = 0 /\ scope[s].current = Nobody
  BY DEF Init, AuthorityInit
<1>2. \A s : Made({}, s) = {} /\ Over({}, s) = {} /\ Revoked({}, s) = {}
  BY DEF Made, Over, Revoked
<1>3. Cardinality({}) = 0 /\ IsFiniteSet({})
  BY FS_EmptySet
<1>4. \A s : Line({}, {}, s, 0, Nobody)
  BY <1>2, <1>3 DEF Line
<1> QED
  BY <1>1, <1>3, <1>4 DEF HistoryInv

\* Whatever reviewers decide and revoke, in any order and with any number of
\* decisions, the versions of a scope are one line without gap or fork, and a
\* replaced assignment and its successor name each other.
THEOREM AuthorityHistoryLinear == Spec => []OneAuthorityHistory
<1>1. HistoryInv => OneAuthorityHistory
  <2> SUFFICES ASSUME HistoryInv, NEW s \in Scopes
               PROVE  LET made == {a \in assignments : a.scope = s}
                          over == {e \in endings : e.scope = s}
                          revoked == {e \in over : e.successor = Nobody} IN
                      /\ {a.version : a \in made} \cup {e.version : e \in revoked} = 1..scope[s].version
                      /\ Cardinality(made) + Cardinality(revoked) = scope[s].version
                      /\ {e.ended : e \in over} = {a.version : a \in made} \ {scope[s].current}
                      /\ \A e \in over : /\ e.version = e.ended + 1
                                         /\ e.successor \in {Nobody, e.version}
                      /\ \A a \in made : a.supersedes # Nobody <=>
                            \E e \in over : e.ended = a.supersedes /\ e.successor = a.version
    BY DEF OneAuthorityHistory
  <2>1. Line(assignments, endings, s, scope[s].version, scope[s].current)
    BY DEF HistoryInv
  <2> QED
    BY <2>1 DEF Line, Made, Over, Revoked
<1>2. Inv /\ HistoryInv /\ [Next]_vars => HistoryInv'
  BY HistoryKept DEF Inv
<1>3. Spec => []HistoryInv
  BY <1>2, HistoryInitially, Invariance, PTL DEF Spec
<1> QED
  BY <1>1, <1>3, PTL

-------------------------------------------------------------------------------
(***************************************************************************)
(* Idempotency keys                                                        *)
(*                                                                         *)
(* set_source_authority and the other mutations here are sent under a key, *)
(* which they claim and finish inline.  What Idempotency says of the row   *)
(* of such a key is proved below, for keys of either kind.                 *)
(***************************************************************************)

Locals == [pc : {"idle", "claiming", "claimed", "finishing"}, fingerprint : Nat, at : Nat,
           token : Nat \cup {Null}, until : Nat, effect : Nat]

Holding == {"claimed", "finishing"}

\* A row has the shape of its state; the claim it shows is the last one granted.
RowOK(r) ==
    /\ r \in Rows /\ Shaped(r)
    /\ r.state # "ABSENT" => r.fingerprint \in Fingerprints
    /\ r.state = "IN_PROGRESS" => r.token = r.attempts

\* A client has a token from its claim to its finish.
LocalOK(l) ==
    /\ l \in Locals
    /\ l.pc # "idle" => l.fingerprint \in Fingerprints
    /\ IF l.pc \in Holding THEN l.token \in Nat ELSE l.token = Null

\* An inline claim is an open transaction, of one client, over an absent row.
InlineClaims ==
    /\ row.state \in {"ABSENT", "COMPLETED"}
    /\ \A c \in Callers : c \in owner <=> caller[c].pc \in Holding
    /\ \A c \in owner : /\ row.state = "ABSENT" /\ draft.state = "IN_PROGRESS"
                        /\ draft.token = caller[c].token
                        /\ draft.fingerprint = caller[c].fingerprint

\* A claim that committed is numbered, and the newest one is for the row's request.
CommittedClaims ==
    /\ owner = {}
    /\ \A c \in Callers :
          caller[c].pc \in Holding =>
             /\ caller[c].token <= row.attempts
             /\ caller[c].token = row.attempts => caller[c].fingerprint = row.fingerprint

\* The effect n took place for the request f.
TookPlace(n, f) == n \in 1..Len(effects) /\ effects[n] = f

EffectsRecorded ==
    /\ row.state = "COMPLETED" => TookPlace(row.result, row.fingerprint)
    /\ inline => Len(effects) = IF row.state = "COMPLETED" THEN 1 ELSE 0
    /\ \A c \in Callers : caller[c].pc = "finishing" =>
          IF inline THEN caller[c].effect = 1 ELSE TookPlace(caller[c].effect, caller[c].fingerprint)
    /\ \A a \in answers : row.state = "COMPLETED" /\ a = <<row.fingerprint, row.result>>

KeyInv ==
    /\ inline \in BOOLEAN
    /\ RowOK(row) /\ RowOK(draft)
    /\ owner \subseteq Callers /\ \A c, d \in owner : c = d
    /\ caller \in [Callers -> Locals] /\ \A c \in Callers : LocalOK(caller[c])
    /\ effects \in Seq(Fingerprints) /\ now \in 0..MaxTime
    /\ IF inline THEN InlineClaims ELSE CommittedClaims
    /\ EffectsRecorded

-------------------------------------------------------------------------------
(* Rows and locals                                                         *)

\* The columns of a row that is well formed.
LEMMA RowFields ==
    ASSUME NEW r, RowOK(r)
    PROVE  /\ r \in Rows /\ r.state \in States /\ r.attempts \in Nat
           /\ r.token \in Nat \cup {Null} /\ r.expires \in Nat \cup {Null}
           /\ r.retryAt \in Nat \cup {Null} /\ r.result \in Nat \cup {Null}
           /\ r.fingerprint \in Nat
  BY Zenon DEF RowOK, Rows

\* A key without a row is a row without a claim.
LEMMA AbsentRow == RowOK(Absent) /\ Absent.state = "ABSENT"
<1>1. Absent \in Rows
  <2>1. Null \in Nat \cup {Null} /\ 0 \in Nat /\ "ABSENT" \in States
    BY Zenon DEF States
  <2> QED  BY <2>1, Zenon DEF Absent, Rows
<1> QED  BY <1>1, Zenon DEF RowOK, Shaped, Absent

\* A claim makes a well-formed row for its own request.
LEMMA ClaimedRow ==
    ASSUME RowOK(row), NEW c \in Callers, NEW until \in Nat, LocalOK(caller[c]),
           caller[c].fingerprint \in Fingerprints
    PROVE  /\ RowOK(Claimed(c, until)) /\ Claimed(c, until).state = "IN_PROGRESS"
           /\ Claimed(c, until).token = row.attempts + 1
           /\ Claimed(c, until).attempts = row.attempts + 1
           /\ Claimed(c, until).fingerprint = caller[c].fingerprint
<1>1. PICK f, n, s : f = caller[c].fingerprint /\ n = row.attempts + 1 /\ s = Claimed(c, until)
  OBVIOUS
<1>2. f \in Nat /\ f \in Fingerprints
  BY <1>1, IdempotencyAssumption, Zenon
<1>3. n \in Nat /\ n # Null /\ until # Null
  <2>1. row.attempts \in Nat
    BY RowFields, Zenon
  <2> QED  BY <1>1, <2>1, SMT DEF Null
<1>4. s = [state |-> "IN_PROGRESS", fingerprint |-> f, token |-> n,
           expires |-> until, retryAt |-> Null, attempts |-> n, result |-> Null]
  BY <1>1, Zenon DEF Claimed, Absent
<1>5. "IN_PROGRESS" \in States /\ n \in Nat \cup {Null} /\ until \in Nat \cup {Null}
      /\ Null \in Nat \cup {Null}
  BY <1>3, Zenon DEF States
<1>6. s \in Rows
  BY <1>2, <1>3, <1>4, <1>5, Zenon DEF Rows
<1>7. /\ s.state = "IN_PROGRESS" /\ s.fingerprint = f /\ s.token = n /\ s.expires = until
      /\ s.retryAt = Null /\ s.attempts = n /\ s.result = Null
  BY <1>4, Zenon
<1>8. RowOK(s)
  BY <1>2, <1>3, <1>6, <1>7, Zenon DEF RowOK, Shaped
<1> QED  BY <1>1, <1>7, <1>8, Zenon

\* What finish_idempotency resolves a claim to.
Resolution(state, retryAt, result) ==
    \/ state = "COMPLETED" /\ retryAt = Null /\ result \in Nat
    \/ state = "FAILED_TERMINAL" /\ retryAt = Null /\ result = Null
    \/ state = "FAILED_RETRYABLE" /\ retryAt \in Nat /\ result = Null

\* Resolving a claim clears it and keeps the request and its number.
LEMMA ResolvedRow ==
    ASSUME NEW r, RowOK(r), r.state = "IN_PROGRESS",
           NEW state, NEW retryAt, NEW result, Resolution(state, retryAt, result)
    PROVE  /\ RowOK(Resolved(r, state, retryAt, result))
           /\ Resolved(r, state, retryAt, result).state = state
           /\ Resolved(r, state, retryAt, result).result = result
           /\ Resolved(r, state, retryAt, result).attempts = r.attempts
           /\ Resolved(r, state, retryAt, result).fingerprint = r.fingerprint
<1>1. PICK s : s = Resolved(r, state, retryAt, result)
  OBVIOUS
<1>2. /\ state \in States /\ retryAt \in Nat \cup {Null} /\ result \in Nat \cup {Null}
      /\ Null \in Nat \cup {Null}
  BY Zenon DEF States, Resolution
<1>3. s \in Rows
  BY <1>1, <1>2, Zenon DEF RowOK, Rows, Resolved
<1>4. /\ s.state = state /\ s.token = Null /\ s.expires = Null /\ s.retryAt = retryAt
      /\ s.result = result /\ s.attempts = r.attempts /\ s.fingerprint = r.fingerprint
  BY <1>1, Zenon DEF RowOK, Rows, Resolved
<1>5. (result \in Nat => result # Null) /\ (retryAt \in Nat => retryAt # Null)
  BY SMT DEF Null
<1>6. Shaped(s)
  BY <1>4, <1>5, Zenon DEF Shaped, Resolution
<1>7. r.fingerprint \in Fingerprints
  BY Zenon DEF RowOK
<1>8. s.state # "IN_PROGRESS"
  BY <1>4, Zenon DEF Resolution
<1> QED  BY <1>1, <1>3, <1>4, <1>6, <1>7, <1>8, Zenon DEF RowOK

\* The locals of a client.
LEMMA LocalFields ==
    ASSUME NEW l, LocalOK(l)
    PROVE  /\ l \in Locals /\ l.at \in Nat /\ l.effect \in Nat /\ l.fingerprint \in Nat
           /\ l.token \in Nat \cup {Null} /\ l.until \in Nat
           /\ l.pc \in {"idle", "claiming", "claimed", "finishing"}
  BY Zenon DEF LocalOK, Locals

\* A client between requests holds no token.
LEMMA IdleCallerLocal == LocalOK(IdleCaller) /\ IdleCaller.pc = "idle"
<1>1. IdleCaller \in Locals
  <2>1. Null \in Nat \cup {Null} /\ 0 \in Nat
    OBVIOUS
  <2> QED  BY <2>1, Zenon DEF IdleCaller, Locals
<1> QED  BY <1>1, Zenon DEF LocalOK, IdleCaller, Holding

\* A client moves on, the others stay where they are.
LEMMA GoesEffect ==
    ASSUME KeyInv, NEW c \in Callers, NEW l, LocalOK(l), Goes(c, l)
    PROVE  /\ inline' = inline /\ caller' \in [Callers -> Locals] /\ caller'[c] = l
           /\ \A d \in Callers \ {c} : caller'[d] = caller[d]
           /\ \A d \in Callers : LocalOK(caller'[d])
<1>1. caller \in [Callers -> Locals] /\ \A d \in Callers : LocalOK(caller[d])
  BY Zenon DEF KeyInv
<1>2. l \in Locals
  BY LocalFields, Zenon
<1>3. /\ inline' = inline /\ caller' \in [Callers -> Locals] /\ caller'[c] = l
      /\ \A d \in Callers \ {c} : caller'[d] = caller[d]
  BY <1>1, <1>2, Zenon DEF Goes
<1> QED  BY <1>1, <1>3, Zenon

\* The parts that make the invariant up again after a client has moved.
LEMMA Reassembled ==
    ASSUME KeyInv, NEW c \in Callers, NEW l, LocalOK(l), Goes(c, l), UNCHANGED now,
           RowOK(row'), RowOK(draft'), owner' \subseteq Callers, \A d, e \in owner' : d = e,
           effects' \in Seq(Fingerprints),
           IF inline THEN InlineClaims' ELSE CommittedClaims', EffectsRecorded'
    PROVE  KeyInv'
<1>1. /\ inline' = inline /\ caller' \in [Callers -> Locals]
      /\ \A d \in Callers : LocalOK(caller'[d])
  BY GoesEffect, Zenon
<1>2. inline' \in BOOLEAN /\ now' \in 0..MaxTime /\ RowOK(row)' /\ RowOK(draft)'
  BY <1>1, Zenon DEF KeyInv, RowOK, Shaped
<1>3. (\A d \in Callers : LocalOK(caller[d]))'
  BY <1>1, Zenon DEF LocalOK
<1> QED  BY <1>1, <1>2, <1>3, Zenon DEF KeyInv

\* A client gives up what it holds, or holds nothing, and changes no row.
LEMMA ReleaseKeeps ==
    ASSUME KeyInv, NEW c \in Callers, NEW l, LocalOK(l), l.pc \notin Holding, Goes(c, l),
           UNCHANGED <<row, effects, now>>, owner' = owner \ {c}, draft' \in {draft, Absent},
           owner' # {} => draft' = draft,
           \A a \in answers' \ answers : /\ row.state = "COMPLETED"
                                         /\ a = <<row.fingerprint, row.result>>
    PROVE  KeyInv'
<1>1. /\ inline' = inline /\ caller'[c] = l
      /\ \A d \in Callers \ {c} : caller'[d] = caller[d]
  BY GoesEffect, Zenon
<1>2. RowOK(row') /\ RowOK(draft')
  BY AbsentRow, Zenon DEF KeyInv
<1>3. owner' \subseteq Callers /\ \A d, e \in owner' : d = e
  BY Zenon DEF KeyInv
<1>4. ASSUME inline PROVE InlineClaims'
  <2>1. InlineClaims
    BY <1>4, Zenon DEF KeyInv
  <2>2. \A d \in Callers : d \in owner' <=> caller'[d].pc \in Holding
    BY <1>1, <2>1, Zenon DEF InlineClaims
  <2>3. ASSUME NEW d \in owner'
        PROVE  /\ row'.state = "ABSENT" /\ draft'.state = "IN_PROGRESS"
               /\ draft'.token = caller'[d].token /\ draft'.fingerprint = caller'[d].fingerprint
    <3>1. d \in owner /\ d # c /\ d \in Callers /\ draft' = draft
      BY <2>3, <1>3, Zenon
    <3>2. caller'[d] = caller[d] /\ row' = row
      BY <3>1, <1>1, Zenon
    <3> QED  BY <3>1, <3>2, <2>1, Zenon DEF InlineClaims
  <2> QED  BY <2>1, <2>2, <2>3, Zenon DEF InlineClaims
<1>5. ASSUME ~inline PROVE CommittedClaims'
  <2>1. CommittedClaims
    BY <1>5, Zenon DEF KeyInv
  <2>2. \A d \in Callers : caller'[d].pc \in Holding => caller'[d] = caller[d]
    BY <1>1, Zenon
  <2> QED  BY <2>1, <2>2, Zenon DEF CommittedClaims
<1>6. EffectsRecorded'
  <2>1. EffectsRecorded
    BY Zenon DEF KeyInv
  <2>2. \A d \in Callers : caller'[d].pc = "finishing" => caller'[d] = caller[d]
    BY <1>1, Zenon DEF Holding
  <2> QED  BY <2>1, <2>2, <1>1, Zenon DEF EffectsRecorded, TookPlace
<1>7. effects' \in Seq(Fingerprints)
  BY Zenon DEF KeyInv
<1> QED  BY <1>2, <1>3, <1>4, <1>5, <1>6, <1>7, Reassembled, Zenon

\* Whoever holds nothing is no owner.
LEMMA Outside ==
    ASSUME KeyInv, NEW c \in Callers, caller[c].pc \notin Holding
    PROVE  c \notin owner /\ owner \ {c} = owner
  BY Zenon DEF KeyInv, InlineClaims, CommittedClaims

-------------------------------------------------------------------------------
(* The steps                                                               *)

\* A client begins with a request under the key.
LEMMA RequestKeeps == ASSUME KeyInv, NEW c \in Callers, Request(c) PROVE KeyInv'
<1>1. PICK f \in Fingerprints :
          Goes(c, [IdleCaller EXCEPT !.pc = "claiming", !.fingerprint = f, !.at = now])
  BY Zenon DEF Request
<1>2. PICK l : l = [IdleCaller EXCEPT !.pc = "claiming", !.fingerprint = f, !.at = now]
  OBVIOUS
<1>3. f \in Nat /\ now \in Nat /\ MaxTime \in Nat
  BY IdempotencyAssumption, SMT DEF KeyInv
<1>4. LocalOK(l) /\ l.pc \notin Holding
  <2>1. l = [pc |-> "claiming", fingerprint |-> f, at |-> now, token |-> Null, until |-> 0,
             effect |-> 0]
    BY <1>2, Zenon DEF IdleCaller
  <2>2. 0 \in Nat /\ Null \in Nat \cup {Null}
    OBVIOUS
  <2>3. l \in Locals
    BY <1>3, <2>1, <2>2, Zenon DEF Locals
  <2>4. l.pc = "claiming" /\ l.fingerprint = f /\ l.token = Null
    BY <2>1, Zenon
  <2> QED  BY <2>3, <2>4, Zenon DEF LocalOK, Holding
<1>5. caller[c].pc \notin Holding /\ UNCHANGED <<row, owner, draft, effects, answers, now>>
  BY Zenon DEF Request, Holding
<1>6. owner' = owner \ {c}
  BY <1>5, Outside, Zenon
<1> QED  BY <1>1, <1>2, <1>4, <1>5, <1>6, ReleaseKeeps, Zenon

\* A completed row answers its own request with its own result.
LEMMA ReplayKeeps == ASSUME KeyInv, NEW c \in Callers, Replay(c) PROVE KeyInv'
<1>1. /\ caller[c].pc \notin Holding /\ UNCHANGED <<row, owner, draft, effects, now>> /\ Goes(c, IdleCaller)
      /\ \A a \in answers' \ answers : /\ row.state = "COMPLETED"
                                       /\ a = <<row.fingerprint, row.result>>
  BY Zenon DEF Replay, SameRequest, Holding
<1>2. owner' = owner \ {c}
  BY <1>1, Outside, Zenon
<1> QED  BY <1>1, <1>2, IdleCallerLocal, ReleaseKeeps, Zenon DEF Holding

\* A client that is refused is told nothing and leaves the row.
LEMMA RefuseKeeps == ASSUME KeyInv, NEW c \in Callers, Refuse(c) PROVE KeyInv'
<1>1. /\ caller[c].pc \notin Holding /\ Goes(c, IdleCaller)
      /\ UNCHANGED <<row, owner, draft, effects, answers, now>>
  BY Zenon DEF Refuse, Holding
<1>2. owner' = owner \ {c}
  BY <1>1, Outside, Zenon
<1> QED  BY <1>1, <1>2, IdleCallerLocal, ReleaseKeeps, Zenon DEF Holding

\* A finish without the current claim changes nothing.
LEMMA FinishStaleKeeps == ASSUME KeyInv, NEW c \in Callers, FinishStale(c) PROVE KeyInv'
<1>1. /\ owner' = owner \ {c} /\ owner' = {} /\ draft' = Absent /\ Goes(c, IdleCaller)
      /\ UNCHANGED <<row, effects, answers, now>>
  BY Zenon DEF FinishStale
<1> QED  BY <1>1, IdleCallerLocal, ReleaseKeeps, Zenon DEF Holding

\* An open transaction that aborts takes its claim with it.
LEMMA AbortKeeps == ASSUME KeyInv, NEW c \in Callers, Abort(c) PROVE KeyInv'
<1>1. Goes(c, IdleCaller) /\ UNCHANGED <<row, effects, answers, now>>
  BY Zenon DEF Abort
<1>2. owner' = owner \ {c} /\ draft' \in {draft, Absent} /\ (owner' # {} => draft' = draft)
  <2>1. CASE c \in owner
    BY <2>1, Zenon DEF Abort, KeyInv
  <2>2. CASE c \notin owner
    BY <2>2, Zenon DEF Abort
  <2> QED  BY <2>1, <2>2
<1> QED  BY <1>1, <1>2, IdleCallerLocal, ReleaseKeeps, Zenon DEF Holding

\* Time passes.
LEMMA KeyTickKeeps == ASSUME KeyInv, Tick PROVE KeyInv'
<1>1. /\ UNCHANGED <<inline, row, owner, draft, caller, effects, answers>>
      /\ now' = now + 1 /\ now < MaxTime
  BY Zenon DEF Tick
<1>2. now' \in 0..MaxTime
  BY <1>1, IdempotencyAssumption, SMT DEF KeyInv
<1> QED
  BY <1>1, <1>2, Zenon DEF KeyInv, RowOK, Shaped, LocalOK, InlineClaims, CommittedClaims,
                           EffectsRecorded, TookPlace

\* A claim is granted on a row that is absent, lapsed or due, under a new number.
LEMMA ClaimKeeps == ASSUME KeyInv, NEW c \in Callers, Claim(c) PROVE KeyInv'
<1>1. /\ caller[c].pc = "claiming" /\ owner = {} /\ Claimable(c)
      /\ UNCHANGED <<effects, answers, now>>
  BY Zenon DEF Claim
<1>2. PICK d \in 1..MaxClaim :
          /\ IF inline
             THEN owner' = {c} /\ draft' = Claimed(c, caller[c].at + d) /\ UNCHANGED row
             ELSE row' = Claimed(c, caller[c].at + d) /\ UNCHANGED <<owner, draft>>
          /\ Goes(c, [caller[c] EXCEPT !.pc = "claimed", !.token = row.attempts + 1,
                                       !.until = caller[c].at + d])
  BY Zenon DEF Claim
<1>3. PICK f, n, until, r, l :
          /\ f = caller[c].fingerprint /\ n = row.attempts + 1 /\ until = caller[c].at + d
          /\ r = Claimed(c, until)
          /\ l = [caller[c] EXCEPT !.pc = "claimed", !.token = n, !.until = until]
  OBVIOUS
<1>4. LocalOK(caller[c]) /\ f \in Fingerprints
  BY <1>1, <1>3, Zenon DEF KeyInv, LocalOK
<1>5. until \in Nat /\ n \in Nat /\ row.attempts \in Nat /\ n > row.attempts
  <2>1. caller[c].at \in Nat /\ row.attempts \in Nat
    BY <1>4, LocalFields, RowFields, Zenon DEF KeyInv
  <2> QED  BY <1>3, <2>1, IdempotencyAssumption, SMT
<1>6. /\ RowOK(r) /\ r.state = "IN_PROGRESS" /\ r.token = n /\ r.attempts = n
      /\ r.fingerprint = f
  BY <1>3, <1>4, <1>5, ClaimedRow, Zenon DEF KeyInv
<1>7. LocalOK(l) /\ l.pc = "claimed" /\ l.token = n /\ l.fingerprint = f
  <2>1. caller[c] \in Locals
    BY <1>4, LocalFields, Zenon
  <2>2. l \in Locals
    BY <1>3, <1>5, <2>1, Zenon DEF Locals
  <2>3. l.pc = "claimed" /\ l.token = n /\ l.fingerprint = f
    BY <1>3, <2>1, Zenon DEF Locals
  <2> QED  BY <1>4, <1>5, <2>2, <2>3, Zenon DEF LocalOK, Holding
<1>8. Goes(c, l)
  BY <1>2, <1>3, Zenon
<1>9. /\ inline' = inline /\ caller'[c] = l
      /\ \A e \in Callers \ {c} : caller'[e] = caller[e]
  BY <1>7, <1>8, GoesEffect, Zenon
<1>10. row.state # "COMPLETED" /\ answers = {}
  <2>1. row.state # "COMPLETED"
    BY <1>1, Zenon DEF Claimable
  <2> QED  BY <2>1, Zenon DEF KeyInv, EffectsRecorded
<1>11. /\ RowOK(row') /\ RowOK(draft') /\ row'.state # "COMPLETED"
       /\ owner' \subseteq Callers /\ \A e, g \in owner' : e = g
       /\ effects' \in Seq(Fingerprints)
  BY <1>1, <1>2, <1>3, <1>6, <1>10, Zenon DEF KeyInv
<1>12. ASSUME inline PROVE InlineClaims'
  <2>1. InlineClaims /\ row' = row /\ draft' = r /\ owner' = {c}
    BY <1>12, <1>2, <1>3, Zenon DEF KeyInv
  <2>2. row.state = "ABSENT"
    BY <2>1, <1>10, Zenon DEF InlineClaims
  <2>3. \A e \in Callers : e \in owner' <=> caller'[e].pc \in Holding
    BY <2>1, <1>1, <1>7, <1>9, Zenon DEF InlineClaims, Holding
  <2> QED  BY <2>1, <2>2, <2>3, <1>6, <1>7, <1>9, Zenon DEF InlineClaims
<1>13. ASSUME ~inline PROVE CommittedClaims'
  <2>1. CommittedClaims /\ row' = r /\ owner' = {}
    BY <1>13, <1>1, <1>2, <1>3, Zenon DEF KeyInv
  <2>2. ASSUME NEW e \in Callers, caller'[e].pc \in Holding
        PROVE  /\ caller'[e].token <= n
               /\ caller'[e].token = n => caller'[e].fingerprint = f
    <3>1. CASE e = c
      BY <3>1, <1>5, <1>7, <1>9, SMT
    <3>2. CASE e # c
      <4>1. caller'[e] = caller[e] /\ LocalOK(caller[e])
        BY <3>2, <1>9, Zenon DEF KeyInv
      <4>2. caller[e].token \in Nat /\ caller[e].token <= row.attempts
        BY <4>1, <2>1, <2>2, Zenon DEF CommittedClaims, LocalOK
      <4> QED  BY <4>1, <4>2, <1>5, SMT
    <3> QED  BY <3>1, <3>2
  <2> QED  BY <2>1, <2>2, <1>6, Zenon DEF CommittedClaims
<1>14. EffectsRecorded'
  <2>1. EffectsRecorded /\ effects' = effects /\ answers' = {}
    BY <1>1, <1>10, Zenon DEF KeyInv
  <2>2. \A e \in Callers : caller'[e].pc = "finishing" => caller'[e] = caller[e]
    BY <1>7, <1>9, Zenon
  <2> QED  BY <2>1, <2>2, <1>9, <1>10, <1>11, Zenon DEF EffectsRecorded, TookPlace
<1> QED  BY <1>1, <1>7, <1>8, <1>11, <1>12, <1>13, <1>14, Reassembled, Zenon

\* Effects that took place stay where they are when one more does.
LEMMA EffectsStay ==
    ASSUME effects \in Seq(Fingerprints), NEW f \in Fingerprints, effects' = Append(effects, f)
    PROVE  /\ effects' \in Seq(Fingerprints) /\ Len(effects') = Len(effects) + 1
           /\ Len(effects) \in Nat
           /\ \A n, g : TookPlace(n, g) => n \in 1..Len(effects') /\ effects'[n] = g
           /\ effects'[Len(effects) + 1] = f
  BY SMT DEF TookPlace

\* An effect takes place: in the open transaction inline, on its own otherwise.
LEMMA ApplyKeeps == ASSUME KeyInv, NEW c \in Callers, Apply(c) PROVE KeyInv'
<1>1. /\ caller[c].pc = "claimed" /\ UNCHANGED <<row, owner, draft, answers, now>>
      /\ effects' = IF inline THEN effects ELSE Append(effects, caller[c].fingerprint)
      /\ Goes(c, [caller[c] EXCEPT !.pc = "finishing", !.at = now, !.effect = Len(effects) + 1])
  BY Zenon DEF Apply
<1>2. PICK f, n, l :
          /\ f = caller[c].fingerprint /\ n = Len(effects) + 1
          /\ l = [caller[c] EXCEPT !.pc = "finishing", !.at = now, !.effect = n]
  OBVIOUS
<1>3. LocalOK(caller[c]) /\ f \in Fingerprints
  BY <1>1, <1>2, Zenon DEF KeyInv, LocalOK
<1>4. n \in Nat /\ now \in Nat /\ effects \in Seq(Fingerprints)
  BY <1>2, IdempotencyAssumption, SMT DEF KeyInv
<1>5. /\ LocalOK(l) /\ l.pc = "finishing" /\ l.token = caller[c].token /\ l.fingerprint = f
      /\ l.effect = n
  <2>1. caller[c] \in Locals
    BY <1>3, LocalFields, Zenon
  <2>2. l \in Locals
    BY <1>2, <1>4, <2>1, Zenon DEF Locals
  <2>3. l.pc = "finishing" /\ l.token = caller[c].token /\ l.fingerprint = f /\ l.effect = n
    BY <1>2, <2>1, Zenon DEF Locals
  <2> QED  BY <1>1, <1>3, <2>2, <2>3, Zenon DEF LocalOK, Holding
<1>6. Goes(c, l)
  BY <1>1, <1>2, Zenon
<1>7. /\ inline' = inline /\ caller'[c] = l
      /\ \A e \in Callers \ {c} : caller'[e] = caller[e]
  BY <1>5, <1>6, GoesEffect, Zenon
<1>8. \A e \in Callers : /\ caller'[e].pc \in Holding <=> caller[e].pc \in Holding
                         /\ caller'[e].token = caller[e].token
                         /\ caller'[e].fingerprint = caller[e].fingerprint
  BY <1>1, <1>2, <1>5, <1>7, Zenon DEF Holding
<1>9. ASSUME inline PROVE InlineClaims'
  <2>1. InlineClaims
    BY <1>9, Zenon DEF KeyInv
  <2> QED  BY <2>1, <1>1, <1>8, Zenon DEF InlineClaims, KeyInv
<1>10. ASSUME ~inline PROVE CommittedClaims'
  <2>1. CommittedClaims
    BY <1>10, Zenon DEF KeyInv
  <2> QED  BY <2>1, <1>1, <1>8, Zenon DEF CommittedClaims
<1>11. EffectsRecorded
  BY Zenon DEF KeyInv
<1>12. ASSUME inline PROVE EffectsRecorded' /\ effects' \in Seq(Fingerprints)
  <2>1. effects' = effects
    BY <1>1, <1>12, Zenon
  <2>2. row.state = "ABSENT"
    BY <1>1, <1>12, Zenon DEF KeyInv, InlineClaims, Holding
  <2>3. n = 1
    BY <1>2, <1>11, <1>12, <2>2, SMT DEF EffectsRecorded
  <2>4. \A e \in Callers : caller'[e].pc = "finishing" => caller'[e].effect = 1
    BY <2>3, <1>5, <1>7, <1>11, <1>12, Zenon DEF EffectsRecorded
  <2> QED  BY <2>1, <2>4, <1>1, <1>4, <1>7, <1>11, <1>12, Zenon DEF EffectsRecorded, TookPlace
<1>13. ASSUME ~inline PROVE EffectsRecorded' /\ effects' \in Seq(Fingerprints)
  <2>1. effects' = Append(effects, f)
    BY <1>1, <1>2, <1>13, Zenon
  <2>2. /\ effects' \in Seq(Fingerprints) /\ Len(effects') = n /\ effects'[n] = f
        /\ \A m, g : TookPlace(m, g) => m \in 1..Len(effects') /\ effects'[m] = g
    BY <2>1, <1>2, <1>3, <1>4, EffectsStay, Zenon
  <2>3. n \in 1..n
    BY <1>2, <1>4, SMT
  <2>4. row'.state = "COMPLETED" => TookPlace(row.result, row.fingerprint)'
    BY <2>2, <1>1, <1>11, Zenon DEF EffectsRecorded, TookPlace
  <2>5. ASSUME NEW e \in Callers, caller'[e].pc = "finishing"
        PROVE  TookPlace(caller[e].effect, caller[e].fingerprint)'
    <3>1. CASE e = c
      BY <3>1, <2>2, <2>3, <1>5, <1>7, Zenon DEF TookPlace
    <3>2. CASE e # c
      <4>1. caller'[e] = caller[e] /\ TookPlace(caller[e].effect, caller[e].fingerprint)
        BY <3>2, <2>5, <1>7, <1>11, <1>13, Zenon DEF EffectsRecorded
      <4> QED  BY <4>1, <2>2, Zenon DEF TookPlace
    <3> QED  BY <3>1, <3>2
  <2> QED  BY <2>2, <2>4, <2>5, <1>1, <1>7, <1>11, <1>13, Zenon DEF EffectsRecorded
<1>14. /\ RowOK(row') /\ RowOK(draft') /\ owner' \subseteq Callers
       /\ \A e, g \in owner' : e = g
  BY <1>1, Zenon DEF KeyInv
<1> QED  BY <1>1, <1>5, <1>6, <1>9, <1>10, <1>12, <1>13, <1>14, Reassembled, Zenon

\* What finishing a claim as COMPLETED writes, inline or not.
LEMMA CompleteKeeps == ASSUME KeyInv, NEW c \in Callers, Complete(c) PROVE KeyInv'
<1>1. /\ caller[c].pc = "finishing" /\ owner \subseteq {c} /\ StillClaims(c)
      /\ row' = Resolved(Seen(c), "COMPLETED", Null, caller[c].effect)
      /\ owner' = {} /\ draft' = Absent /\ now' = now /\ Goes(c, IdleCaller)
      /\ effects' = IF inline THEN Append(effects, caller[c].fingerprint) ELSE effects
  BY Zenon DEF Complete
<1>2. PICK r, f, n : r = Seen(c) /\ f = caller[c].fingerprint /\ n = caller[c].effect
  OBVIOUS
<1>3. /\ answers' \in {answers, answers \cup {<<f, n>>}}
      /\ LocalOK(caller[c]) /\ f \in Fingerprints /\ n \in Nat
  <2>1. LocalOK(caller[c])
    BY Zenon DEF KeyInv
  <2> QED  BY <2>1, <1>1, <1>2, LocalFields, Zenon DEF Complete, Told, LocalOK
<1>4. RowOK(r) /\ r.state = "IN_PROGRESS" /\ r.token = caller[c].token /\ r.token = r.attempts
  BY <1>1, <1>2, Zenon DEF StillClaims, Seen, KeyInv, RowOK
<1>5. /\ RowOK(row') /\ row'.state = "COMPLETED" /\ row'.result = n
      /\ row'.attempts = r.attempts /\ row'.fingerprint = r.fingerprint
  <2>1. Resolution("COMPLETED", Null, n)
    BY <1>3, Zenon DEF Resolution
  <2>2. row' = Resolved(r, "COMPLETED", Null, n)
    BY <1>1, <1>2, Zenon
  <2>3. PICK s : s = Resolved(r, "COMPLETED", Null, n)
    OBVIOUS
  <2>4. RowOK(Resolved(r, "COMPLETED", Null, n))
    BY <1>4, <2>1, ResolvedRow, Zenon
  <2>5. /\ s.state = "COMPLETED" /\ s.result = n /\ s.attempts = r.attempts
        /\ s.fingerprint = r.fingerprint
    BY <1>4, <2>1, <2>3, ResolvedRow, SMT
  <2> QED  BY <2>2, <2>3, <2>4, <2>5, Zenon
<1>6. /\ inline' = inline /\ caller'[c] = IdleCaller /\ LocalOK(IdleCaller) /\ IdleCaller.pc = "idle"
      /\ \A e \in Callers \ {c} : caller'[e] = caller[e]
  BY <1>1, IdleCallerLocal, GoesEffect, Zenon
<1>7. EffectsRecorded
  BY Zenon DEF KeyInv
<1>8. ASSUME inline
      PROVE  /\ InlineClaims' /\ r.fingerprint = f /\ answers = {}
             /\ effects' \in Seq(Fingerprints) /\ Len(effects') = 1 /\ n = 1 /\ effects'[n] = f
             /\ \A e \in Callers : caller'[e].pc # "finishing"
  <2>1. InlineClaims /\ c \in owner /\ owner = {c}
    BY <1>1, <1>8, Zenon DEF KeyInv, InlineClaims, Holding
  <2>2. r.fingerprint = f /\ row.state = "ABSENT"
    BY <1>2, <2>1, Zenon DEF Seen, InlineClaims
  <2>3. Len(effects) = 0 /\ n = 1 /\ answers = {}
    BY <1>1, <1>2, <1>7, <1>8, <2>2, Zenon DEF EffectsRecorded
  <2>4. effects' = Append(effects, f) /\ effects \in Seq(Fingerprints)
    BY <1>1, <1>2, <1>8, Zenon DEF KeyInv
  <2>5. effects' \in Seq(Fingerprints) /\ Len(effects') = 1 /\ effects'[n] = f
    BY <1>3, <2>3, <2>4, SMT
  <2>6. \A e \in Callers : caller'[e].pc \notin Holding
    BY <1>6, <2>1, Zenon DEF InlineClaims, Holding
  <2> QED  BY <1>1, <1>5, <2>2, <2>3, <2>5, <2>6, Zenon DEF InlineClaims, Holding
<1>9. ASSUME ~inline
      PROVE  /\ CommittedClaims' /\ r.fingerprint = f /\ answers = {} /\ effects' = effects
             /\ TookPlace(n, f)
             /\ \A e \in Callers : caller'[e].pc = "finishing" => caller'[e] = caller[e]
  <2>1. CommittedClaims /\ r = row /\ row.attempts \in Nat
    BY <1>1, <1>2, <1>9, RowFields, Zenon DEF KeyInv, CommittedClaims, Seen
  <2>2. row.fingerprint = f /\ answers = {}
    BY <1>1, <1>2, <1>4, <1>7, <2>1, Zenon DEF CommittedClaims, EffectsRecorded, Holding
  <2>3. TookPlace(n, f) /\ effects' = effects
    BY <1>1, <1>2, <1>7, <1>9, Zenon DEF EffectsRecorded
  <2>4. \A e \in Callers : caller'[e].pc \in Holding => caller'[e] = caller[e]
    BY <1>6, Zenon DEF Holding
  <2>5. CommittedClaims'
    BY <1>1, <1>5, <2>1, <2>4, Zenon DEF CommittedClaims
  <2> QED  BY <2>1, <2>2, <2>3, <2>4, <2>5, Zenon DEF Holding
<1>10. EffectsRecorded' /\ effects' \in Seq(Fingerprints)
  <2>1. \A a \in answers' : a = <<f, n>>
    BY <1>3, <1>8, <1>9, Zenon
  <2>2. CASE inline
    <3>1. n \in 1..Len(effects') /\ effects'[n] = f
      BY <1>8, <2>2, SMT
    <3> QED  BY <3>1, <2>1, <2>2, <1>5, <1>6, <1>8, Zenon DEF EffectsRecorded, TookPlace
  <2>3. CASE ~inline
    <3>1. effects' \in Seq(Fingerprints)
      BY <1>9, <2>3, Zenon DEF KeyInv
    <3> QED  BY <3>1, <2>1, <2>3, <1>5, <1>6, <1>7, <1>9, Zenon DEF EffectsRecorded, TookPlace
  <2> QED  BY <2>2, <2>3
<1>11. /\ RowOK(draft') /\ owner' \subseteq Callers /\ \A e, g \in owner' : e = g
       /\ UNCHANGED now
  BY <1>1, AbsentRow, Zenon
<1> QED  BY <1>1, <1>5, <1>6, <1>8, <1>9, <1>10, <1>11, Reassembled, Zenon

\* The holder of the newest claim records a failure; the request stays.
LEMMA FailKeeps == ASSUME KeyInv, NEW c \in Callers, Fail(c) PROVE KeyInv'
<1>1. /\ ~inline /\ caller[c].pc = "finishing" /\ StillClaims(c) /\ Goes(c, IdleCaller)
      /\ UNCHANGED <<owner, draft, effects, answers, now>>
  BY Zenon DEF Fail
<1>2. CommittedClaims /\ EffectsRecorded
  BY <1>1, Zenon DEF KeyInv
<1>3. RowOK(row) /\ row.state = "IN_PROGRESS"
  BY <1>1, <1>2, Zenon DEF StillClaims, Seen, KeyInv, CommittedClaims
<1>4. PICK state, t : /\ row' = Resolved(row, state, t, Null)
                      /\ \/ state = "FAILED_TERMINAL" /\ t = Null
                         \/ state = "FAILED_RETRYABLE" /\ t \in Nat
  <2>1. CASE row' = Resolved(row, "FAILED_TERMINAL", Null, Null)
    BY <2>1, Zenon
  <2>2. ASSUME NEW t \in caller[c].at..MaxTime, row' = Resolved(row, "FAILED_RETRYABLE", t, Null)
        PROVE  t \in Nat
    <3>1. caller[c].at \in Nat
      BY LocalFields, Zenon DEF KeyInv
    <3> QED  BY <3>1, IdempotencyAssumption, SMT
  <2> QED  BY <2>1, <2>2, Zenon DEF Fail
<1>5. /\ RowOK(row') /\ row'.state # "COMPLETED" /\ row'.attempts = row.attempts
      /\ row'.fingerprint = row.fingerprint
  <2>1. Resolution(state, t, Null) /\ state # "COMPLETED"
    BY <1>4, Zenon DEF Resolution
  <2>2. PICK s : s = Resolved(row, state, t, Null)
    OBVIOUS
  <2>3. RowOK(Resolved(row, state, t, Null))
    BY <1>3, <2>1, ResolvedRow, Zenon
  <2>4. s.state = state /\ s.attempts = row.attempts /\ s.fingerprint = row.fingerprint
    BY <1>3, <2>1, <2>2, ResolvedRow, SMT
  <2> QED  BY <1>4, <2>1, <2>2, <2>3, <2>4, Zenon
<1>6. /\ inline' = inline /\ caller'[c] = IdleCaller /\ LocalOK(IdleCaller) /\ IdleCaller.pc = "idle"
      /\ \A e \in Callers \ {c} : caller'[e] = caller[e]
  BY <1>1, IdleCallerLocal, GoesEffect, Zenon
<1>7. \A e \in Callers : caller'[e].pc \in Holding => caller'[e] = caller[e]
  BY <1>6, Zenon DEF Holding
<1>8. CommittedClaims'
  BY <1>1, <1>2, <1>5, <1>7, Zenon DEF CommittedClaims
<1>9. answers = {}
  BY <1>2, <1>3, Zenon DEF EffectsRecorded
<1>10. EffectsRecorded'
  BY <1>1, <1>2, <1>5, <1>6, <1>7, <1>9, Zenon DEF EffectsRecorded, TookPlace, Holding
<1>11. /\ RowOK(draft') /\ owner' \subseteq Callers /\ \A e, g \in owner' : e = g
       /\ effects' \in Seq(Fingerprints)
  BY <1>1, Zenon DEF KeyInv
<1> QED  BY <1>1, <1>5, <1>6, <1>8, <1>10, <1>11, Reassembled, Zenon

-------------------------------------------------------------------------------

\* A key nobody has used yet.
LEMMA KeyInitially == KeyInit => KeyInv
<1> SUFFICES ASSUME KeyInit PROVE KeyInv
  OBVIOUS
<1>1. /\ inline \in BOOLEAN /\ row = Absent /\ draft = Absent /\ owner = {}
      /\ caller = [c \in Callers |-> IdleCaller] /\ effects = << >> /\ answers = {} /\ now = 0
  BY Zenon DEF KeyInit
<1>2. caller \in [Callers -> Locals] /\ \A c \in Callers : caller[c] = IdleCaller
  BY <1>1, IdleCallerLocal, Zenon DEF LocalOK
<1>3. effects \in Seq(Fingerprints) /\ now \in 0..MaxTime /\ Len(effects) = 0
  BY <1>1, IdempotencyAssumption, SMT
<1>4. row.state = "ABSENT" /\ \A c \in Callers : caller[c].pc = "idle"
  BY <1>1, <1>2, AbsentRow, IdleCallerLocal, Zenon
<1>5. InlineClaims /\ CommittedClaims /\ EffectsRecorded
  <2>1. InlineClaims
    BY <1>1, <1>4, Zenon DEF InlineClaims, Holding
  <2>2. CommittedClaims
    BY <1>1, <1>4, Zenon DEF CommittedClaims, Holding
  <2>3. EffectsRecorded
    BY <1>1, <1>3, <1>4, SMT DEF EffectsRecorded
  <2> QED  BY <2>1, <2>2, <2>3
<1> QED  BY <1>1, <1>2, <1>3, <1>5, AbsentRow, IdleCallerLocal, Zenon DEF KeyInv

\* Every step keeps the invariant.
LEMMA KeyStepwise == KeyInv /\ [KeyNext]_keyVars => KeyInv'
<1> SUFFICES ASSUME KeyInv, [KeyNext]_keyVars PROVE KeyInv'
  OBVIOUS
<1>1. CASE UNCHANGED keyVars
  BY <1>1, Zenon DEF keyVars, KeyInv, RowOK, Shaped, LocalOK, InlineClaims, CommittedClaims,
                     EffectsRecorded, TookPlace
<1>2. CASE KeyNext
  BY <1>2, RequestKeeps, ClaimKeeps, ReplayKeeps, RefuseKeeps, ApplyKeeps, CompleteKeeps, FailKeeps,
     FinishStaleKeeps, AbortKeeps, KeyTickKeeps, Zenon DEF KeyNext, Claiming, Finishing
<1> QED  BY <1>1, <1>2

\* The invariant holds throughout.
LEMMA KeyInvariance == KeySpec => []KeyInv
  BY KeyInitially, KeyStepwise, PTL DEF KeySpec

\* The columns keep their types and the row the shape of its state; one
\* transaction at most holds it.
THEOREM KeyTypeCorrect == KeySpec => []KeyTypeOK
<1>1. KeyInv => KeyTypeOK
  <2> SUFFICES ASSUME KeyInv PROVE KeyTypeOK
    OBVIOUS
  <2>1. \A c, d \in owner : c = d
    BY Zenon DEF KeyInv
  <2>2. answers \subseteq Fingerprints \X Nat
    <3> SUFFICES ASSUME NEW a \in answers PROVE a \in Fingerprints \X Nat
      OBVIOUS
    <3>1. row.state = "COMPLETED" /\ a = <<row.fingerprint, row.result>> /\ RowOK(row)
      BY Zenon DEF KeyInv, EffectsRecorded
    <3>2. row.fingerprint \in Fingerprints
      BY <3>1, Zenon DEF RowOK
    <3>3. row.result \in Nat
      BY <3>1, RowFields, Zenon DEF RowOK, Shaped
    <3> QED  BY <3>1, <3>2, <3>3, Zenon
  <2>3. caller \in [Callers -> [pc : {"idle", "claiming", "claimed", "finishing"},
                                fingerprint : Nat, at : Nat, token : Nat \cup {Null},
                                until : Nat, effect : Nat]]
    BY Zenon DEF KeyInv, Locals
  <2> QED  BY <2>1, <2>2, <2>3, Zenon DEF KeyInv, RowOK, KeyTypeOK
<1> QED  BY <1>1, KeyInvariance, PTL

\* However many clients send a request under one key, retry it, wait for each
\* other or die: inline it is carried out once at most, exactly when the
\* committed row says so, and nobody is told anything but the recorded result,
\* nor anybody but senders of the recorded request.
THEOREM CarriedOutOnce == KeySpec => []ExactlyOnce
<1>1. KeyInv => ExactlyOnce
  <2> SUFFICES ASSUME KeyInv PROVE ExactlyOnce
    OBVIOUS
  <2>1. EffectsRecorded
    BY Zenon DEF KeyInv
  <2>2. ASSUME inline, row.state = "COMPLETED" PROVE row.result = 1 /\ effects[1] = row.fingerprint
    <3>1. Len(effects) = 1 /\ row.result \in 1..Len(effects) /\ effects[row.result] = row.fingerprint
      BY <2>1, <2>2, Zenon DEF EffectsRecorded, TookPlace
    <3>2. row.result = 1
      BY <3>1, SMT
    <3> QED  BY <3>1, <3>2
  <2>3. ASSUME NEW a \in answers
        PROVE  /\ row.state = "COMPLETED" /\ a = <<row.fingerprint, row.result>>
               /\ effects[a[2]] = a[1]
    <3>1. /\ row.state = "COMPLETED" /\ a = <<row.fingerprint, row.result>>
          /\ effects[row.result] = row.fingerprint
      BY <2>1, <2>3, Zenon DEF EffectsRecorded, TookPlace
    <3>2. a[1] = row.fingerprint /\ a[2] = row.result
      BY <3>1, SMT
    <3> QED  BY <3>1, <3>2
  <2> QED  BY <2>1, <2>2, <2>3, Zenon DEF ExactlyOnce, EffectsRecorded
<1> QED  BY <1>1, KeyInvariance, PTL

\* A key is resolved only by a client that finishes the newest claim, for the
\* request it claimed, and never again.
THEOREM NewestClaimResolves == KeySpec => LatestClaimDecides
<1>1. ASSUME KeyInv, NEW c \in Callers, Complete(c) \/ Fail(c)
      PROVE  /\ caller[c].pc = "finishing" /\ caller'[c].pc = "idle"
             /\ caller[c].fingerprint = row'.fingerprint
             /\ \A d \in Callers : caller[d].token <= caller[c].token
  <2>1. /\ caller[c].pc = "finishing" /\ StillClaims(c) /\ Goes(c, IdleCaller)
        /\ RowOK(Seen(c)) /\ LocalOK(caller[c])
    BY <1>1, Zenon DEF Complete, Fail, KeyInv, Seen
  <2>2. caller'[c] = IdleCaller /\ IdleCaller.pc = "idle"
    BY <2>1, <1>1, IdleCallerLocal, GoesEffect, Zenon
  <2>3. caller[c].token \in Nat /\ Seen(c).state = "IN_PROGRESS" /\ Seen(c).token = caller[c].token
        /\ Seen(c).token = Seen(c).attempts
    BY <2>1, Zenon DEF StillClaims, LocalOK, RowOK, Holding
  <2>4. row'.fingerprint = Seen(c).fingerprint
    <3>1. PICK r : r = Seen(c)
      OBVIOUS
    <3>2. r \in Rows
      BY <2>1, <3>1, Zenon DEF RowOK
    <3>3. CASE Complete(c)
      BY <3>1, <3>2, <3>3, Zenon DEF Complete, Resolved, Rows
    <3>4. CASE Fail(c)
      <4>1. ~inline /\ owner = {}
        BY <1>1, <3>4, Zenon DEF Fail, KeyInv, CommittedClaims
      <4>2. r = row
        BY <3>1, <4>1, Zenon DEF Seen
      <4>3. \E state, t : row' = Resolved(r, state, t, Null)
        BY <3>4, <4>2, Zenon DEF Fail
      <4> QED  BY <3>1, <3>2, <4>3, Zenon DEF Resolved, Rows
    <3> QED  BY <1>1, <3>3, <3>4
  <2>5. CASE inline
    <3>1. InlineClaims /\ c \in owner
      BY <2>1, <2>5, <1>1, Zenon DEF KeyInv, InlineClaims, Holding
    <3>2. Seen(c).fingerprint = caller[c].fingerprint
      BY <3>1, Zenon DEF Seen, InlineClaims
    <3>3. ASSUME NEW d \in Callers PROVE caller[d].token <= caller[c].token
      <4>1. CASE d = c
        BY <4>1, <2>3, SMT
      <4>2. CASE d # c
        <5>1. caller[d].token = Null
          BY <4>2, <3>1, <1>1, Zenon DEF KeyInv, InlineClaims, LocalOK
        <5> QED  BY <5>1, <2>3, SMT DEF Null
      <4> QED  BY <4>1, <4>2
    <3> QED  BY <2>1, <2>2, <2>4, <3>2, <3>3
  <2>6. CASE ~inline
    <3>1. CommittedClaims /\ Seen(c) = row
      BY <2>6, <1>1, Zenon DEF KeyInv, CommittedClaims, Seen
    <3>2. row.fingerprint = caller[c].fingerprint
      BY <3>1, <2>1, <2>3, Zenon DEF CommittedClaims, Holding
    <3>3. ASSUME NEW d \in Callers PROVE caller[d].token <= caller[c].token
      <4>1. LocalOK(caller[d])
        BY <1>1, Zenon DEF KeyInv
      <4>2. CASE caller[d].pc \in Holding
        BY <4>2, <3>1, <2>3, Zenon DEF CommittedClaims
      <4>3. CASE caller[d].pc \notin Holding
        <5>1. caller[d].token = Null
          BY <4>1, <4>3, Zenon DEF LocalOK
        <5> QED  BY <5>1, <2>3, SMT DEF Null
      <4> QED  BY <4>2, <4>3
    <3> QED  BY <2>1, <2>2, <2>4, <3>1, <3>2, <3>3
  <2> QED  BY <2>5, <2>6
<1>2. ASSUME KeyInv, [KeyNext]_keyVars,
             row'.state \in {"COMPLETED", "FAILED_TERMINAL", "FAILED_RETRYABLE"}, row' # row
      PROVE  \E c \in Callers : Complete(c) \/ Fail(c)
  <2>1. ASSUME NEW c \in Callers, Claim(c) PROVE FALSE
    <3>1. \/ UNCHANGED row
          \/ \E until : row' = Claimed(c, until)
      BY <2>1, Zenon DEF Claim
    <3>2. \A until : Claimed(c, until).state = "IN_PROGRESS"
      BY Zenon DEF Claimed, Absent
    <3> QED  BY <1>2, <3>1, <3>2, Zenon
  <2>2. ~UNCHANGED keyVars
    BY <1>2, Zenon DEF keyVars
  <2>3. \A c \in Callers : ~(Request(c) \/ Replay(c) \/ Refuse(c) \/ Apply(c) \/ FinishStale(c) \/ Abort(c))
    BY <1>2, Zenon DEF Request, Replay, Refuse, Apply, FinishStale, Abort
  <2>4. ~Tick
    BY <1>2, Zenon DEF Tick
  <2> QED  BY <1>2, <2>1, <2>2, <2>3, <2>4, Zenon DEF KeyNext, Claiming, Finishing
<1>3. KeyInv /\ [KeyNext]_keyVars =>
        [row'.state \in {"COMPLETED", "FAILED_TERMINAL", "FAILED_RETRYABLE"} /\ row' # row =>
           \E c \in Callers : /\ caller[c].pc = "finishing" /\ caller'[c].pc = "idle"
                              /\ caller[c].fingerprint = row'.fingerprint
                              /\ \A d \in Callers : caller[d].token <= caller[c].token]_keyVars
  BY <1>1, <1>2, Zenon
<1> QED  BY <1>3, KeyInvariance, PTL DEF KeySpec, LatestClaimDecides
=============================================================================
