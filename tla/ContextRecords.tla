---------------------------- MODULE ContextRecords ----------------------------
(***************************************************************************)
(* What a project knows: Context identities and the records that answer    *)
(* them (migrations 009 and 010), written by people, natively or from      *)
(* evidence of a source that has authority.                                *)
(*                                                                         *)
(* put_context_record_v2 is one transaction of several statements.  It     *)
(* holds the project row, so decisions on authority, other writes and the  *)
(* verification of connections wait for it; but it reads connections and   *)
(* frontiers without a lock, one statement after the other, and signals    *)
(* and ingestion commit in between.                                        *)
(***************************************************************************)
EXTENDS SourceAuthority

CONSTANTS Identities,
          Facet,         \* the facet of each identity
          MaxRecords     \* bound: records of an identity

ASSUME ContextRecordsAssumption == MaxRecords \in Nat /\ "none" \notin Identities

VARIABLES page,          \* the identity each client has read, to change it
          identity,      \* context_identities and its current record
          records,       \* context_records with origin and evidence provenance,
                         \* by identity; the index is the record version
          client         \* the put transaction a client has open

context == <<identity, records>>

clients == <<page, client>>

vars == <<lock, reviewed, observed, context, clients>>

NoPage == [identity |-> "none", version |-> 0, head |-> 0]
NoEvidence == [source |-> "none"]

Idle == [pc |-> "idle", identity |-> "none", evidence |-> NoEvidence, assignment |-> NoAssignment]

\* The columns keep their types; exactly an open put holds the project row.
TypeOK ==
    /\ AuthorityTypeOK
    /\ \A i \in Identities : /\ identity[i].state \in {"NONE", "ACTIVE", "ENDED"}
                             /\ identity[i].version \in Nat
                             /\ identity[i].current \in 0..Len(records[i])
    /\ \A c \in Clients : /\ client[c].pc \in {"idle", "resolved", "covered"}
                          /\ c \in lock <=> client[c].pc # "idle"

Init ==
    /\ AuthorityInit
    /\ page = [c \in Clients |-> NoPage]
    /\ identity = [i \in Identities |-> [state |-> "NONE", version |-> 0, current |-> 0]]
    /\ records = [i \in Identities |-> << >>]
    /\ client = [c \in Clients |-> Idle]

-------------------------------------------------------------------------------
(* Actions                                                                 *)

\* The list of current Context that an author works from.
OpenIdentity(c) ==
    /\ page[c] = NoPage
    /\ \E i \in Identities : page' = [page EXCEPT ![c] =
          [identity |-> i, version |-> identity[i].version, head |-> identity[i].current]]
    /\ UNCHANGED <<lock, reviewed, observed, context, client>>

\* STALE_CONTEXT_VERSION and STALE_CONTEXT_CURRENT_RECORD otherwise.
AsRead(c, i) ==
    /\ page[c].identity = i
    /\ page[c].version = identity[i].version /\ page[c].head = identity[i].current

Close(c) == page' = [page EXCEPT ![c] = NoPage]

Begin(c, i, pc, e, a) ==
    /\ lock' = {c}
    /\ client' = [client EXCEPT ![c] =
          [pc |-> pc, identity |-> i, evidence |-> e, assignment |-> a]]
    /\ UNCHANGED <<page, reviewed, observed, context>>

Writable(c, i) ==
    /\ ProjectFree /\ AsRead(c, i)
    /\ identity[i].state # "ENDED" /\ Len(records[i]) < MaxRecords

\* put_context_record_v2 of a user-native value asks nothing of the sources.
PutNative(c, i) == Writable(c, i) /\ Begin(c, i, "covered", NoEvidence, NoAssignment)

\* put_context_record_v2 up to the resolver: the assignment the author gives
\* has to be the winner, be effective, and be of the evidence's own source.
PutResolve(c, i) ==
    /\ Writable(c, i)
    /\ \E e \in evidence :
          LET r == ResolveEffective(Facet[i], e) IN
          /\ r.qualification = "EFFECTIVE" /\ r.source = e.source
          /\ Begin(c, i, "resolved", e, r.assignment)

\* The next statement reads the frontier, which may have moved by now.
PutCover(c) ==
    /\ client[c].pc = "resolved"
    /\ LET e == client[c].evidence
           f == frontier[<<e.source, e.ref>>] IN
       f.ingested >= e.sequence /\ f.desired <= f.ingested
    /\ client' = [client EXCEPT ![c].pc = "covered"]
    /\ UNCHANGED <<lock, page, reviewed, observed, context>>

\* MUTANT: the identity's version stays what it was.
RevisedKeepingVersion(i) ==
    [state |-> "ACTIVE", version |-> IF identity[i].state = "NONE" THEN 1 ELSE identity[i].version,
     current |-> Len(records[i]) + 1]

\* Created at version 1, or moved on by one, with the new record current.
Revised(i) ==
    [state |-> "ACTIVE", version |-> identity[i].version + 1, current |-> Len(records[i]) + 1]

\* The inserts, and the commit that gives the project row back.
PutCommit(c) ==
    /\ client[c].pc = "covered"
    /\ LET i == client[c].identity IN
       /\ records' = [records EXCEPT ![i] = Append(@,
             [supersedes |-> identity[i].current, identityVersion |-> Revised(i).version,
              evidence |-> client[c].evidence, assignment |-> client[c].assignment])]
       /\ identity' = [identity EXCEPT ![i] = Revised(i)]
    /\ lock' = {} /\ Close(c)
    /\ client' = [client EXCEPT ![c] = Idle]
    /\ UNCHANGED <<reviewed, observed>>

\* end_context_identity: the last record stays current, for history.
EndIdentity(c) ==
    \E i \in Identities :
        /\ ProjectFree /\ AsRead(c, i) /\ identity[i].state = "ACTIVE"
        /\ identity' = [identity EXCEPT ![i].state = "ENDED", ![i].version = @ + 1]
        /\ Close(c)
        /\ UNCHANGED <<lock, reviewed, observed, records, client>>

\* A refusal, a lost connection or a closed browser: an open transaction is
\* rolled back and what was read is forgotten.
GiveUp(c) ==
    /\ page[c] # NoPage
    /\ lock' = lock \ {c}
    /\ client' = [client EXCEPT ![c] = Idle]
    /\ Close(c)
    /\ UNCHANGED <<reviewed, observed, context>>

Put(c) == (\E i \in Identities : PutNative(c, i) \/ PutResolve(c, i)) \/ PutCover(c) \/ PutCommit(c)

Next ==
    \/ (SourceStep \/ AuthorityStep) /\ UNCHANGED <<context, clients>>
    \/ \E c \in Clients : OpenIdentity(c) \/ Put(c) \/ EndIdentity(c) \/ GiveUp(c)

Spec == Init /\ [][Next]_vars

-------------------------------------------------------------------------------
(* listCurrent of the adapter and sourceFreshness of the domain            *)

\* MUTANT: it is enough that the assignment wins.
AuthorityWins(i, r) == ResolveEffective(Facet[i], r.evidence).assignment = r.assignment

AuthorityCurrent(i, r) ==
    LET now == ResolveEffective(Facet[i], r.evidence) IN
    now.assignment = r.assignment /\ now.qualification = "EFFECTIVE"

DefaultRefCurrent(r) ==
    r.assignment.scope.selector = "DEFAULT_BRANCH" =>
        TheAssignment(r.assignment.scope, r.assignment.version).snapshot
            = connection[r.evidence.source].branch

Freshness(i) ==
    LET r == records[i][identity[i].current]
        e == r.evidence IN
    IF e = NoEvidence THEN "NOT_SOURCE_BACKED"
    ELSE IF connection[e.source].state # "ACTIVE" THEN "SOURCE_UNAVAILABLE"
    ELSE IF ~AuthorityCurrent(i, r) THEN "AUTHORITY_CHANGED"
    ELSE IF ~DefaultRefCurrent(r) THEN "REVALIDATION_REQUIRED"
    ELSE IF frontier[<<e.source, e.ref>>].ingested > e.sequence THEN "SOURCE_NEWER"
    ELSE "CURRENT"

-------------------------------------------------------------------------------
(* Properties                                                              *)

\* The records of an identity are one chain: each supersedes the one before,
\* the last is current, and the identity's version counts them and its ending.
OneContextHistory ==
    \A i \in Identities :
        /\ identity[i].current = Len(records[i])
        /\ identity[i].version = Len(records[i]) + (IF identity[i].state = "ENDED" THEN 1 ELSE 0)
        /\ \A n \in 1..Len(records[i]) : /\ records[i][n].supersedes = n - 1
                                         /\ records[i][n].identityVersion = n

\* Nothing is revised or ended over the head of its reader: when a put or an
\* ending commits, the identity is still as its author read it, however many
\* statements lie between the comparison and the commit.
UnchangedSinceRead ==
    [][\A i \in Identities : identity'[i] # identity[i] =>
          \E c \in Clients : /\ page'[c] # page[c] /\ page[c].identity = i
                             /\ page[c].version = identity[i].version
                             /\ page[c].head = identity[i].current]_vars

\* When a record from evidence is committed its assignment still wins for that
\* evidence and the default branch it was reviewed for has not moved, although
\* that was checked by an earlier statement.  The state of the connection and
\* the frontier may have changed since.
WinsAtCommit ==
    [][\A i \in Identities :
          LET n == Len(records[i]) + 1
              r == records'[i][n] IN
          records'[i] # records[i] /\ r.evidence # NoEvidence =>
              /\ ResolveEffective(Facet[i], r.evidence).assignment = r.assignment
              /\ DefaultRefCurrent(r)]_vars

\* Evidence that a record rests on is never deleted as coalesced: writes take
\* only evidence that is ingested, ingestion deletes only what is not.
EvidenceKept ==
    \A i \in Identities : \A n \in DOMAIN records[i] :
        records[i][n].evidence # NoEvidence => records[i][n].evidence \in evidence

\* A record that reads as CURRENT rests on the newest observation of its ref,
\* wholly ingested, of a source that is there, under an assignment that has not
\* been ended; whatever raced with the transaction that wrote it.
CurrentIsCurrent ==
    \A i \in Identities :
        identity[i].state # "NONE" /\ Freshness(i) = "CURRENT" =>
            LET r == records[i][identity[i].current]
                e == r.evidence IN
            /\ frontier[<<e.source, e.ref>>] = [desired |-> e.sequence, ingested |-> e.sequence]
            /\ connection[e.source].state = "ACTIVE"
            /\ scope[r.assignment.scope].current = r.assignment.version
===============================================================================
