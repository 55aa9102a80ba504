------------------------ MODULE ConflictUncertainty ------------------------
(***************************************************************************)
(* What a project holds against its own Context (migration 011): conflicts *)
(* between claims about one identity and uncertainties about one target.   *)
(* Every change of either is an occurrence in an immutable history, and a  *)
(* row beside it names the current one.                                    *)
(*                                                                         *)
(* The module also keeps, in small, the four planes that reconciliation    *)
(* decides on: reviewed Context, Working Context, and the authority, the   *)
(* frontier and the connection of one source (SourceAuthority and          *)
(* ContextRecords have them in full).                                      *)
(*                                                                         *)
(* Each function holds the project row from before its first read to its   *)
(* commit, so a call is one step; a call with a stale version is refused   *)
(* and leaves nothing, and the retry of a call is in Idempotency.          *)
(***************************************************************************)
EXTENDS Integers, Sequences, FiniteSetsExt

CONSTANTS Identities,      \* context identities
          Candidates,      \* candidate assertions
          IdentityOf,      \* the identity that intake gives each candidate
          Claims,          \* hashes of assertions
          Claim,           \* what each candidate asserts
          SourceDerived,   \* the candidates that rest on the source's evidence
          EvidenceClaim,   \* the hash of that evidence
          TargetKinds,     \* bound: the kinds of uncertainty
          Reasons,         \* why something is uncertain
          MaxParticipants, \* bound: participants of a conflict
          MaxRecords,      \* bound: records of an identity
          MaxOccurrences,  \* bound: occurrences of a conflict or uncertainty
          MaxAuthority,    \* bound: decisions on authority
          MaxSequence      \* bound: observations of the source

ASSUME ConflictUncertaintyAssumption ==
    /\ IdentityOf \in [Candidates -> Identities] /\ Claim \in [Candidates -> Claims]
    /\ SourceDerived \subseteq Candidates /\ EvidenceClaim \in Claims
    /\ IsFiniteSet(Candidates) /\ "none" \notin Candidates \cup Claims
    /\ TargetKinds \subseteq {"SEMANTIC_IDENTITY", "SOURCE_EVIDENCE", "WORKING_CONTEXT",
                              "REVIEWED_CONTEXT"}
    /\ {MaxParticipants, MaxRecords, MaxOccurrences, MaxAuthority, MaxSequence} \subseteq Nat

VARIABLES identity,   \* context_identities with their records; the last is current
          source,     \* authority, frontier and connection of the source
          item,       \* the Working Context item of each candidate
          integrity,  \* conflicts and uncertainties: current row and history
          clock       \* clock_timestamp of the last write to Working Context

knowledge == <<identity, source, item, integrity, clock>>

Subject(i, kind, c, n) == [identity |-> i, kind |-> kind, item |-> c, record |-> n]

\* One conflict for an identity.
Conflicts == {Subject(i, "CONFLICT", "none", 0) : i \in Identities}

\* One uncertainty for an identity and a target of one of the kinds.
Uncertainties ==
    {Subject(i, kind, "none", 0) : i \in Identities,
         kind \in TargetKinds \cap {"SEMANTIC_IDENTITY", "SOURCE_EVIDENCE"}}
    \cup {Subject(IdentityOf[c], "WORKING_CONTEXT", c, 0) :
              c \in IF "WORKING_CONTEXT" \in TargetKinds THEN Candidates ELSE {}}
    \cup {Subject(i, "REVIEWED_CONTEXT", "none", n) : i \in Identities,
              n \in IF "REVIEWED_CONTEXT" \in TargetKinds THEN 1..MaxRecords ELSE {}}

Subjects == Conflicts \cup Uncertainties

NoItem == [trust |-> "NONE", claim |-> "none", at |-> 0]
NotRecorded == [version |-> 0, state |-> "NONE", history |-> << >>]

Current(i) == Len(identity[i].records)

\* The row of an identity, with its records; a Working Context item.
ContextIdentities == [state : {"ACTIVE", "ENDED"}, version : Nat, records : Seq(Claims)]
WorkingItems == [trust : {"NONE", "PENDING", "RECONCILED"}, claim : Claims \cup {"none"}, at : Nat]

Qualifications == {"EFFECTIVE", "MISSING", "SOURCE_UNAVAILABLE", "SOURCE_BEHIND"}

\* Exactly one of the three references is set; evidence has its qualification
\* and the assignment that was resolved for it.
ConflictParticipants ==
    [kind : {"SOURCE_EVIDENCE"}, item : {"none"}, record : {0}, claim : Claims,
     qualification : Qualifications, assignment : Nat]
    \cup [kind : {"WORKING_CONTEXT"}, item : Candidates, record : {0}, claim : Claims,
          qualification : {"none"}, assignment : {0}]
    \cup [kind : {"REVIEWED_CONTEXT"}, item : {"none"}, record : Nat \ {0}, claim : Claims,
          qualification : {"none"}, assignment : {0}]

ConflictOccurrences == [state : {"ACTIVE", "ENDED"}, content : SUBSET ConflictParticipants]
UncertaintyOccurrences ==
    [state : {"ACTIVE", "ENDED"},
     content : [reason : Reasons, qualification : Qualifications \cup {"none"}]]

\* The columns keep their types and the rows their shape.
KnowledgeTypeOK ==
    /\ identity \in [Identities -> ContextIdentities]
    /\ source \in [authority : Nat, wins : BOOLEAN, desired : Nat, ingested : Nat, connected : BOOLEAN]
    /\ item \in [Candidates -> WorkingItems]
    /\ clock \in Nat
    /\ \A s \in Subjects :
          /\ integrity[s].version \in Nat
          /\ integrity[s].state \in {"NONE", "ACTIVE", "ENDED"}
          /\ integrity[s].history \in Seq(IF s.kind = "CONFLICT" THEN ConflictOccurrences
                                          ELSE UncertaintyOccurrences)

\* An empty project, but that its source has been ingested and wins.
KnowledgeInit ==
    /\ identity = [i \in Identities |-> [state |-> "ACTIVE", version |-> 1, records |-> << >>]]
    /\ source = [authority |-> 1, wins |-> TRUE, desired |-> 1, ingested |-> 1, connected |-> TRUE]
    /\ item = [c \in Candidates |-> NoItem]
    /\ integrity = [s \in Subjects |-> NotRecorded]
    /\ clock = 0

-------------------------------------------------------------------------------
(* The planes                                                              *)

\* put_context_record_v2 with a new record for the identity.
PutRecord(i) ==
    /\ identity[i].state = "ACTIVE" /\ Current(i) < MaxRecords
    /\ \E claim \in Claims :
          identity' = [identity EXCEPT ![i].version = @ + 1, ![i].records = Append(@, claim)]
    /\ UNCHANGED <<source, item, integrity, clock>>

\* end_context_identity
EndIdentity(i) ==
    /\ identity[i].state = "ACTIVE" /\ Current(i) > 0
    /\ identity' = [identity EXCEPT ![i].version = @ + 1, ![i].state = "ENDED"]
    /\ UNCHANGED <<source, item, integrity, clock>>

\* set_source_authority and revoke_source_authority: the version of the scope
\* moves on by one and the source wins for its evidence, under a new assignment
\* if it did before, or no longer does.
DecideAuthority ==
    /\ source.authority < MaxAuthority
    /\ \E w \in BOOLEAN : /\ source.wins \/ w
                         /\ source' = [source EXCEPT !.authority = @ + 1, !.wins = w]
    /\ UNCHANGED <<identity, item, integrity, clock>>

\* schedule_source_observation, then complete_source_ingestion.
Observe ==
    /\ source.desired < MaxSequence /\ source.connected
    /\ source' = [source EXCEPT !.desired = @ + 1]
    /\ UNCHANGED <<identity, item, integrity, clock>>

CompleteIngestion ==
    /\ source.ingested < source.desired /\ source.connected
    /\ source' = [source EXCEPT !.ingested = source.desired]
    /\ UNCHANGED <<identity, item, integrity, clock>>

\* apply_github_lifecycle_signal and connect_github_repository.
ToggleConnection ==
    /\ source' = [source EXCEPT !.connected = ~@]
    /\ UNCHANGED <<identity, item, integrity, clock>>

\* Intake, which src does not have yet: a pending item with its identity.
Intake(c) ==
    /\ item[c] = NoItem
    /\ clock' = clock + 1
    /\ item' = [item EXCEPT ![c] = [trust |-> "PENDING", claim |-> Claim[c], at |-> clock']]
    /\ UNCHANGED <<identity, source, integrity>>

\* resolve_effective_source_authority for the evidence, and the check that the
\* winner is the evidence's own source.
EvidenceQualification(connected) ==
    IF ~source.wins THEN "MISSING"
    ELSE IF ~connected THEN "SOURCE_UNAVAILABLE"
    ELSE IF source.desired > source.ingested THEN "SOURCE_BEHIND"
    ELSE "EFFECTIVE"

\* The assignment that it resolves to, whatever its qualification.
EvidenceAssignment == IF source.wins THEN source.authority ELSE 0

-------------------------------------------------------------------------------
(* record_conflict_state and record_uncertainty_state                      *)

\* What may take part in a conflict of i, as it is at this moment: evidence
\* with its qualification, Working items of i, the current record.
Participants(i) ==
    {[kind |-> "SOURCE_EVIDENCE", item |-> "none", record |-> 0, claim |-> EvidenceClaim,
      qualification |-> EvidenceQualification(source.connected),
      assignment |-> EvidenceAssignment]}
    \cup {[kind |-> "WORKING_CONTEXT", item |-> c, record |-> 0, claim |-> item[c].claim,
           qualification |-> "none", assignment |-> 0] :
              c \in {d \in Candidates : item[d].trust # "NONE" /\ IdentityOf[d] = i}}
    \cup {[kind |-> "REVIEWED_CONTEXT", item |-> "none", record |-> n,
           claim |-> identity[i].records[n], qualification |-> "none", assignment |-> 0] :
              n \in {Current(i)} \ {0}}

\* Two participants at least, and two claims: COMPATIBLE_CONFLICT_PARTICIPANTS.
Contradictions(i) ==
    {p \in SUBSET Participants(i) : /\ Cardinality(p) <= MaxParticipants
                                    /\ Cardinality({x.claim : x \in p}) >= 2}

\* The target has to be there; a reviewed one has to be current.
TargetExists(s) ==
    /\ s.kind = "WORKING_CONTEXT" => item[s.item].trust # "NONE"
    /\ s.kind = "REVIEWED_CONTEXT" => s.record = Current(s.identity)

\* Why, with the qualification of the evidence it rests on, if any.
Doubts(s) ==
    IF ~TargetExists(s) THEN {}
    ELSE {[reason |-> r, qualification |-> q] : r \in Reasons,
             q \in {EvidenceQualification(source.connected)} \cup
                      IF s.kind = "SOURCE_EVIDENCE" THEN {} ELSE {"none"}}

LastOf(s) == integrity[s].history[integrity[s].version]

Occur(s, occurrence) ==
    integrity' = [integrity EXCEPT ![s] =
        [version |-> @.version + 1, state |-> occurrence.state, history |-> Append(@.history, occurrence)]]

\* MUTANT: what is active and unchanged is recorded once more.
EstablishAgain(s, contents) ==
    /\ identity[s.identity].state = "ACTIVE" /\ integrity[s].version < MaxOccurrences
    /\ \E content \in contents : Occur(s, [state |-> "ACTIVE", content |-> content])
    /\ UNCHANGED <<identity, source, item, clock>>

\* Lifecycle ACTIVE: first, changed or again after an ending; what is active
\* and unchanged is refused. Another assignment changes a conflict.
Establish(s, contents) ==
    /\ identity[s.identity].state = "ACTIVE" /\ integrity[s].version < MaxOccurrences
    /\ \E content \in contents :
          /\ integrity[s].state = "ACTIVE" => LastOf(s).content # content
          /\ Occur(s, [state |-> "ACTIVE", content |-> content])
    /\ UNCHANGED <<identity, source, item, clock>>

\* Lifecycle ENDED: what was in the last occurrence is copied into this one;
\* the identity may have ended meanwhile.
End(s) ==
    /\ integrity[s].state = "ACTIVE" /\ integrity[s].version < MaxOccurrences
    /\ Occur(s, [state |-> "ENDED", content |-> LastOf(s).content])
    /\ UNCHANGED <<identity, source, item, clock>>

EstablishConflict(s) == s.kind = "CONFLICT" /\ Establish(s, Contradictions(s.identity))
EndConflict(s) == s.kind = "CONFLICT" /\ End(s)

EstablishUncertainty(s) == s.kind # "CONFLICT" /\ Establish(s, Doubts(s))
EndUncertainty(s) == s.kind # "CONFLICT" /\ End(s)

-------------------------------------------------------------------------------
(* Read by reconciliation                                                  *)

SubjectsOf(i) == {s \in Subjects : s.identity = i}

ActiveConflict(i) == \E s \in SubjectsOf(i) : s.kind = "CONFLICT" /\ integrity[s].state = "ACTIVE"
ActiveUncertainty(i) == \E s \in SubjectsOf(i) : s.kind # "CONFLICT" /\ integrity[s].state = "ACTIVE"

\* MUTANT: the largest version stands for all of them.
IntegrityMaximum(i) == Max({integrity[s].version : s \in SubjectsOf(i)})

\* The versions of the rows of S, taken together.
VersionSum(rows, S) == MapThenSumSet(LAMBDA s : rows[s].version, S)

\* The sum of the current versions, which moves with each of them.
IntegrityVersion(i) == VersionSum(integrity, SubjectsOf(i))

-------------------------------------------------------------------------------

\* The history of a conflict or an uncertainty is one line that the current row
\* sums up: it begins active, an ending closes an active occurrence and keeps
\* what was in it, and an active occurrence never repeats an active one.
OneIntegrityHistory ==
    \A s \in Subjects :
        LET h == integrity[s].history IN
        /\ integrity[s].version = Len(h)
        /\ integrity[s].state = (IF h = << >> THEN "NONE" ELSE h[Len(h)].state)
        /\ \A n \in DOMAIN h :
              IF h[n].state = "ENDED"
              THEN n > 1 /\ h[n - 1] = [state |-> "ACTIVE", content |-> h[n].content]
              ELSE n > 1 => h[n - 1] # h[n]
===============================================================================
