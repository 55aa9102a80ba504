-------------------------- MODULE ChangeProposals --------------------------
(***************************************************************************)
(* Change proposals and the backlog (migration 013): a reconciliation      *)
(* record becomes an item of a proposal, the item it replaces points to    *)
(* it, and a refresh marks what no longer rests on the present as stale.   *)
(*                                                                         *)
(* Transactions are READ COMMITTED: what a step does to a row is seen by   *)
(* others at the commit, and a locked row is waited for.  Materialisation  *)
(* holds the project row in share mode, an advisory lock for the identity  *)
(* and one for the group, and the rows it selected for update; refresh     *)
(* holds the items it marked.  What waits for nothing between two reads is *)
(* one step.                                                               *)
(*                                                                         *)
(* The planes of Reconciliation appear as two versions for each identity:  *)
(* known moves under the project row (reviewed Context, authority,         *)
(* conflicts), loose does not (the frontier, intake of other candidates).  *)
(***************************************************************************)
EXTENDS Integers, Sequences, FiniteSetsExt

CONSTANTS Workers,     \* callers of the two functions
          Identities,  \* context identities
          Candidates,  \* candidate assertions
          IdentityOf,  \* the identity of each candidate
          GroupOf,     \* its submission, scope and facet: the grouping key
          MaxRecords,  \* bound: reconciliation records
          MaxMoves     \* bound: moves of the versions

ASSUME ChangeProposalsAssumption ==
    /\ IdentityOf \in [Candidates -> Identities]
    /\ MaxRecords \in Nat /\ MaxMoves \in Nat

VARIABLES known,      \* version of what the project row guards, by identity
          loose,      \* version of what it does not guard, by identity
          records,    \* reconciliation records in the order of their commits
          proposals,  \* change_proposals with their current states
          items,      \* change_proposal_items with theirs
          job         \* the transaction of each worker

vars == <<known, loose, records, proposals, items, job>>

Groups == {GroupOf[c] : c \in Candidates}

Idle == [pc |-> "IDLE", record |-> 0, item |-> 0, proposal |-> 0, emptied |-> FALSE,
         stale |-> {}, void |-> {}]

Materializing == {"BEGUN", "SELECTED", "EVALUATED"}
Refreshing == {"READ", "MARKED", "COUNTED"}

\* The columns keep their types, and a superseded row points to its successor.
TypeOK ==
    /\ known \in [Identities -> Nat] /\ loose \in [Identities -> Nat]
    /\ records \in Seq([candidate : Candidates, known : Nat, loose : Nat, reviewable : BOOLEAN])
    /\ \A p \in DOMAIN proposals :
          /\ proposals[p] \in [group : Groups, state : {"OPEN", "STALE", "SUPERSEDED"},
                               successor : 0..Len(proposals)]
          /\ proposals[p].state = "SUPERSEDED" <=> proposals[p].successor # 0
    /\ \A x \in DOMAIN items :
          /\ items[x] \in [record : DOMAIN records, proposal : DOMAIN proposals,
                           state : {"CURRENT", "STALE", "SUPERSEDED"}, successor : 0..Len(items)]
          /\ items[x].state = "SUPERSEDED" <=> items[x].successor # 0
    /\ job \in [Workers -> [pc : {"IDLE"} \cup Materializing \cup Refreshing,
                            record : 0..Len(records), item : 0..Len(items),
                            proposal : 0..Len(proposals), emptied : BOOLEAN,
                            stale : SUBSET DOMAIN items, void : SUBSET DOMAIN proposals]]

Init ==
    /\ known = [i \in Identities |-> 0]
    /\ loose = [i \in Identities |-> 0]
    /\ records = << >> /\ proposals = << >> /\ items = << >>
    /\ job = [w \in Workers |-> Idle]

-------------------------------------------------------------------------------
(* What proposals rest on                                                  *)

\* MUTANT: materialisation does not hold the project row.
ProjectNeverHeld == TRUE

\* The project row is taken exclusively: nobody holds it in share mode.
ProjectFree == \A w \in Workers : job[w].pc \notin Materializing

IdentityOfRecord(n) == IdentityOf[records[n].candidate]

Moved == MapThenSumSet(LAMBDA i : known[i] + loose[i], Identities)

\* put_context_record_v2, set_source_authority, record_conflict_state, ...
MoveKnown(i) ==
    /\ ProjectFree /\ Moved < MaxMoves
    /\ known' = [known EXCEPT ![i] = @ + 1]
    /\ UNCHANGED <<loose, records, proposals, items, job>>

\* schedule_source_observation and its kind, for the whole project, or intake.
MoveLoose(some) ==
    /\ Moved + Cardinality(some) <= MaxMoves
    /\ loose' = [i \in Identities |-> loose[i] + IF i \in some THEN 1 ELSE 0]
    /\ UNCHANGED <<known, records, proposals, items, job>>

\* commit_reconciliation_result; UNCHANGED is not reviewable.
Reconcile(c) ==
    /\ ProjectFree /\ Len(records) < MaxRecords
    /\ \E reviewable \in BOOLEAN :
          records' = Append(records, [candidate |-> c, known |-> known[IdentityOf[c]],
                                      loose |-> loose[IdentityOf[c]], reviewable |-> reviewable])
    /\ UNCHANGED <<known, loose, proposals, items, job>>

\* Not the record of a candidate that has a later one, nor of an identity with
\* a later instant in Working Context, nor of versions that moved.
BasisCurrent(n) ==
    LET i == IdentityOfRecord(n) IN
    /\ records[n].known = known[i] /\ records[n].loose = loose[i]
    /\ \A later \in (n + 1)..Len(records) :
          /\ records[later].candidate # records[n].candidate
          /\ IdentityOfRecord(later) = i => ~records[later].reviewable

-------------------------------------------------------------------------------
(* Row locks                                                               *)

ItemHeld(x) ==
    x # 0 /\ \E w \in Workers : \/ job[w].pc \in {"SELECTED", "EVALUATED"} /\ job[w].item = x
                                \/ job[w].pc \in {"MARKED", "COUNTED"} /\ x \in job[w].stale

ProposalHeld(p) ==
    p # 0 /\ \E w \in Workers : job[w].pc = "SELECTED" /\ job[w].proposal = p

CurrentItems == {x \in DOMAIN items : items[x].state = "CURRENT"}
OpenProposals == {p \in DOMAIN proposals : proposals[p].state = "OPEN"}

-------------------------------------------------------------------------------
(* materialize_change_proposal                                             *)

\* Project row, current reconciliation, identity lock, basis.
Begin(w, n) ==
    /\ job[w].pc = "IDLE"
    /\ records[n].reviewable /\ BasisCurrent(n)
    /\ \A v \in Workers : job[v].pc \in Materializing =>
          IdentityOfRecord(job[v].record) # IdentityOfRecord(n)
    /\ job' = [job EXCEPT ![w] = [@ EXCEPT !.pc = "BEGUN", !.record = n]]
    /\ UNCHANGED <<known, loose, records, proposals, items>>

\* MUTANT: only an item of the same group is replaced.
PredecessorsInGroup(n) ==
    {x \in CurrentItems : /\ IdentityOfRecord(items[x].record) = IdentityOfRecord(n)
                          /\ proposals[items[x].proposal].group = GroupOf[records[n].candidate]}

\* The current items of the identity, whatever their proposal.
Predecessors(n) ==
    {x \in CurrentItems : IdentityOfRecord(items[x].record) = IdentityOfRecord(n)}

OpenOf(group) == {p \in OpenProposals : proposals[p].group = group}

GroupFree(w, group) ==
    \A v \in Workers \ {w} : job[v].pc \in {"SELECTED", "EVALUATED"} =>
        GroupOf[records[job[v].record].candidate] # group

\* Of two records of one identity only one has a current basis, so what has
\* the fingerprint of this one and a current basis is the item of this one.
Replayable(n) == \E x \in CurrentItems : items[x].record = n /\ BasisCurrent(n)

ReplayItem(w) ==
    /\ job[w].pc = "BEGUN" /\ Replayable(job[w].record)
    /\ GroupFree(w, GroupOf[records[job[w].record].candidate])
    /\ job' = [job EXCEPT ![w] = Idle]
    /\ UNCHANGED <<known, loose, records, proposals, items>>

\* The group's lock, then the predecessor, or else the first open proposal of
\* the group; either is locked.
Select(w) ==
    LET n == job[w].record
        group == GroupOf[records[n].candidate]
        item == Max({0} \cup Predecessors(n))
        proposal == IF item # 0 \/ OpenOf(group) = {} THEN 0 ELSE Min(OpenOf(group)) IN
    /\ job[w].pc = "BEGUN" /\ ~Replayable(n) /\ GroupFree(w, group)
    /\ ~ItemHeld(item) /\ ~ProposalHeld(proposal)
    /\ job' = [job EXCEPT ![w] =
                   [@ EXCEPT !.pc = "SELECTED", !.item = item, !.proposal = proposal]]
    /\ UNCHANGED <<known, loose, records, proposals, items>>

\* change_proposal_items_reconciliation_unique
HasItem(n) == \E x \in DOMAIN items : items[x].record = n

\* Does the predecessor's proposal keep a current item?  Read without a lock,
\* before the update that may have to wait.
Evaluate(w) ==
    /\ job[w].pc = "SELECTED" /\ job[w].item # 0 /\ ~HasItem(job[w].record)
    /\ LET emptied == \A x \in CurrentItems \ {job[w].item} :
                          items[x].proposal # items[job[w].item].proposal IN
       job' = [job EXCEPT ![w] = [@ EXCEPT !.pc = "EVALUATED", !.emptied = emptied]]
    /\ UNCHANGED <<known, loose, records, proposals, items>>

Opened(w) ==
    IF job[w].proposal # 0 THEN proposals
    ELSE Append(proposals, [group |-> GroupOf[records[job[w].record].candidate],
                            state |-> "OPEN", successor |-> 0])

\* The record has an item already, whose basis or state moved on meanwhile: it
\* is returned, and the proposal opened for it stays, without an item.
MaterializeAgain(w) ==
    /\ job[w].pc = "SELECTED" /\ HasItem(job[w].record)
    /\ proposals' = Opened(w)
    /\ job' = [job EXCEPT ![w] = Idle]
    /\ UNCHANGED <<known, loose, records, items>>

NewItem(w) ==
    [record |-> job[w].record, state |-> "CURRENT", successor |-> 0,
     proposal |-> IF job[w].proposal # 0 THEN job[w].proposal ELSE Len(proposals) + 1]

\* MUTANT: the predecessor is superseded by nobody.
ItemAddedUnlinked(w) ==
    Append([x \in DOMAIN items |->
               IF x = job[w].item THEN [items[x] EXCEPT !.state = "SUPERSEDED"] ELSE items[x]],
           NewItem(w))

\* The new item, and the predecessor that points to it.
ItemAdded(w) ==
    Append([x \in DOMAIN items |->
               IF x = job[w].item
               THEN [items[x] EXCEPT !.state = "SUPERSEDED", !.successor = Len(items) + 1]
               ELSE items[x]],
           NewItem(w))

\* The new item and, where it empties the predecessor's proposal, that proposal
\* as well, if it is still open when its row is free.
Materialize(w) ==
    LET p == IF job[w].item = 0 THEN 0 ELSE items[job[w].item].proposal IN
    /\ job[w].pc = (IF job[w].item = 0 THEN "SELECTED" ELSE "EVALUATED") /\ ~HasItem(job[w].record)
    /\ job[w].emptied => ~ProposalHeld(p)
    /\ items' = ItemAdded(w)
    /\ proposals' = IF job[w].emptied /\ proposals[p].state = "OPEN"
                    THEN [Opened(w) EXCEPT ![p] =
                             [@ EXCEPT !.state = "SUPERSEDED", !.successor = Len(proposals) + 1]]
                    ELSE Opened(w)
    /\ job' = [job EXCEPT ![w] = Idle]
    /\ UNCHANGED <<known, loose, records>>

-------------------------------------------------------------------------------
(* refresh_change_proposal_backlog                                         *)

\* The current items whose basis moved on; nothing else happens without one.
RefreshItems(w) ==
    LET stale == {x \in CurrentItems : ~BasisCurrent(items[x].record)} IN
    /\ job[w].pc = "IDLE" /\ stale # {}
    /\ job' = [job EXCEPT ![w] = [@ EXCEPT !.pc = "READ", !.stale = stale]]
    /\ UNCHANGED <<known, loose, records, proposals, items>>

\* MUTANT: the items are not locked, so none is waited for or read again.
MarkUnlocked(w) ==
    /\ job[w].pc = "READ"
    /\ job' = [job EXCEPT ![w].pc = "MARKED"]
    /\ UNCHANGED <<known, loose, records, proposals, items>>

\* Each is locked in turn, and kept if it is still current.
Mark(w) ==
    LET still == job[w].stale \cap CurrentItems IN
    /\ job[w].pc = "READ" /\ \A x \in job[w].stale : ~ItemHeld(x)
    /\ job' = [job EXCEPT ![w] = IF still = {} THEN Idle ELSE [@ EXCEPT !.pc = "MARKED", !.stale = still]]
    /\ UNCHANGED <<known, loose, records, proposals, items>>

\* The open proposals that have no current item but those just marked.
CountItems(w) ==
    /\ job[w].pc = "MARKED"
    /\ LET void == {p \in OpenProposals :
                       \A x \in CurrentItems \ job[w].stale : items[x].proposal # p} IN
       job' = [job EXCEPT ![w] = [@ EXCEPT !.pc = "COUNTED", !.void = void]]
    /\ UNCHANGED <<known, loose, records, proposals, items>>

\* Their rows are waited for, and only their state is read again.
RefreshProposals(w) ==
    /\ job[w].pc = "COUNTED" /\ \A p \in job[w].void : ~ProposalHeld(p)
    /\ items' = [x \in DOMAIN items |->
                    IF x \in job[w].stale THEN [items[x] EXCEPT !.state = "STALE"] ELSE items[x]]
    /\ proposals' = [p \in DOMAIN proposals |->
                        IF p \in job[w].void \cap OpenProposals
                        THEN [proposals[p] EXCEPT !.state = "STALE"] ELSE proposals[p]]
    /\ job' = [job EXCEPT ![w] = Idle]
    /\ UNCHANGED <<known, loose, records>>

-------------------------------------------------------------------------------
\* The connection or the process goes away: the transaction leaves nothing.
Crash(w) ==
    /\ job[w].pc # "IDLE"
    /\ job' = [job EXCEPT ![w] = Idle]
    /\ UNCHANGED <<known, loose, records, proposals, items>>

Next ==
    \/ \E i \in Identities : MoveKnown(i)
    \/ \E some \in {Identities} \cup {{i} : i \in Identities} : MoveLoose(some)
    \/ \E c \in Candidates : Reconcile(c)
    \/ \E w \in Workers :
          \/ \E n \in DOMAIN records : Begin(w, n)
          \/ ReplayItem(w) \/ Select(w) \/ Evaluate(w) \/ MaterializeAgain(w) \/ Materialize(w)
          \/ RefreshItems(w) \/ Mark(w) \/ CountItems(w) \/ RefreshProposals(w)
          \/ Crash(w)

Spec == Init /\ [][Next]_vars

-------------------------------------------------------------------------------

\* An identity has one line of items at a time: at most one is current, in all
\* proposals together, and whoever was superseded points to a later item of the
\* same identity, as a superseded proposal points to a later proposal, so the
\* triggers' search for a cycle never finds one.
OneLineage ==
    /\ \A x, y \in CurrentItems :
          IdentityOfRecord(items[x].record) = IdentityOfRecord(items[y].record) => x = y
    /\ \A x \in DOMAIN items : items[x].state = "SUPERSEDED" =>
          /\ items[x].successor > x
          /\ IdentityOfRecord(items[items[x].successor].record) = IdentityOfRecord(items[x].record)
    /\ \A p \in DOMAIN proposals : proposals[p].state = "SUPERSEDED" => proposals[p].successor > p

\* An item is born with a basis that is still the present one, as far as the
\* project row guards it: several statements after the basis was compared, no
\* record, authority or conflict and no later reconciliation has come between.
FreshWhenMaterialized ==
    [][Len(items') > Len(items) =>
          LET n == items'[Len(items')].record IN
          /\ records[n].known = known[IdentityOfRecord(n)]
          /\ \A later \in (n + 1)..Len(records) :
                IdentityOfRecord(later) = IdentityOfRecord(n) => ~records[later].reviewable]_vars

\* What left CURRENT or OPEN never changes again: refresh and materialisation
\* meet at the same rows, and refresh writes items without looking at their
\* state, yet the triggers on transitions never refuse.
HistoryFinal ==
    [][/\ \A x \in DOMAIN items : items[x].state # "CURRENT" => items'[x] = items[x]
       /\ \A p \in DOMAIN proposals : proposals[p].state # "OPEN" => proposals'[p] = proposals[p]]_vars
===============================================================================
