--------------------------- MODULE GitHubConnection ---------------------------
(***************************************************************************)
(* The GitHub Source of each Project (migration 006): the intents a user   *)
(* opens, the repositories the provider confirmed for them, the            *)
(* transaction that turns a confirmed repository into the connection, and  *)
(* the lifecycle signals of GitHub's webhooks that run beside it.          *)
(*                                                                         *)
(* connect_github_repository reads the fences early and writes the         *)
(* connection late; it holds the locks of its Project and its intent       *)
(* meanwhile, which apply_github_lifecycle_signal never asks for.  So      *)
(* connecting is two steps here, and a signal, whose own statements nobody *)
(* can tell apart, is one.  A function reads the clock when it is entered  *)
(* and may run later: its time is any time up to now.                      *)
(*                                                                         *)
(* A call that raises changes nothing and is not an action, be it a        *)
(* revoked session, a retired state value or a replayed delivery with      *)
(* another payload.  A webhook may be delivered late, twice, in any order, *)
(* or never.                                                               *)
(***************************************************************************)
EXTENDS Integers, SequencesExt, FiniteSetsExt

CONSTANTS Projects,
          Repositories,  \* identities <<installation, repository>> at GitHub
          Deliveries,    \* webhook signals: [id, installation, repository, state]
          Keys,          \* idempotency keys of connect requests
          IntentLife,    \* how long an intent lives, in ticks
          ProofLife,     \* how long a confirmed repository counts, in ticks
          MaxIntents,    \* bound: intents opened
          MaxTime        \* bound: the clock stops there

Whole == "*"             \* SQL null of a signal's repository: the whole installation

\* Webhook states, the stronger one has the higher rank.
Severity == [ACTIVE |-> 1, VERIFICATION_REQUIRED |-> 1, SUSPENDED |-> 2,
             REPOSITORY_ACCESS_REMOVED |-> 3, REPOSITORY_DELETED |-> 4,
             INSTALLATION_DELETED |-> 5]
States == DOMAIN Severity

ASSUME GitHubConnectionAssumption ==
    /\ Deliveries \subseteq [id : Nat, installation : STRING, repository : STRING,
                             state : States \ {"ACTIVE"}]
    /\ IntentLife \in Nat \ {0} /\ ProofLife \in Nat \ {0}
    /\ MaxIntents \in Nat /\ MaxTime \in Nat

VARIABLES connection,    \* github_source_connections, by Project that has one
          fences,        \* github_provider_lifecycle_fences
          receipts,      \* provider_event_receipts of each Project, in order
          intents,       \* github_connection_intents with their candidates
          requests,      \* completed idempotency records of connect requests
          audit,         \* GITHUB_SOURCE_CONNECTED and _REVERIFIED events, in order
          connecting,    \* the open connect transaction of each Project
          now            \* clock_timestamp()

vars == <<connection, fences, receipts, intents, requests, audit, connecting, now>>

Idle == [pc |-> "idle"]

Connections == [identity : Repositories, state : States, verified : Nat, created : Nat]
Fences == [id : Nat, installation : STRING, repository : STRING, state : States, at : Nat]

TypeOK ==
    /\ DOMAIN connection \subseteq Projects
    /\ \A p \in DOMAIN connection : connection[p] \in Connections
    /\ fences \subseteq Fences
    /\ receipts \in [Projects -> Seq([id : Nat, installation : STRING, state : States, at : Nat])]
    /\ \A i \in DOMAIN intents :
          /\ intents[i].project \in Projects /\ intents[i].expires \in Nat
          /\ intents[i].consumed \in BOOLEAN
          \* candidates of one intent belong to one installation
          /\ \A c, d \in intents[i].candidates : c.identity[1] = d.identity[1]
          /\ \A c, d \in intents[i].candidates : c.identity = d.identity => c = d
    /\ requests \subseteq [project : Projects, key : Keys, identity : Repositories]
    /\ \A p \in Projects : connecting[p].pc \in {"idle", "checked"}
    /\ now \in 0..MaxTime

Init ==
    /\ connection = << >>
    /\ fences = {}
    /\ receipts = [p \in Projects |-> << >>]
    /\ intents = << >>
    /\ requests = {} /\ audit = << >>
    /\ connecting = [p \in Projects |-> Idle]
    /\ now = 0

-------------------------------------------------------------------------------
(* The user: intents and candidates                                        *)

\* connect_github_repository has locked the Project's row, the others ask for it.
Unlocked(p) == connecting[p].pc = "idle"

\* create_github_connection_intent: refused while the connection is ACTIVE.
Begin(p) ==
    /\ Unlocked(p)
    /\ Len(intents) < MaxIntents
    /\ p \in DOMAIN connection => connection[p].state # "ACTIVE"
    /\ intents' = Append(intents, [project |-> p, expires |-> now + IntentLife,
                                   consumed |-> FALSE, candidates |-> {}])
    /\ UNCHANGED <<connection, fences, receipts, requests, audit, connecting, now>>

\* MUTANT: a candidate of another installation is taken as well.
AnyInstallation(i, r) == TRUE

\* The first candidate fixes the installation of its intent.
SameInstallation(i, r) == \A c \in intents[i].candidates : c.identity[1] = r[1]

\* record_github_repository_candidate, after GitHub confirmed the repository:
\* a newer confirmation replaces an older one.
RecordCandidate(i, r, verified, at) ==
    /\ Unlocked(intents[i].project)
    /\ ~intents[i].consumed /\ intents[i].expires > at
    /\ SameInstallation(i, r)
    /\ verified <= at /\ verified >= at - ProofLife
    /\ intents' = [intents EXCEPT ![i].candidates =
           {c \in @ : c.identity # r}
             \cup {[identity |-> r, verified |-> verified,
                    expires |-> Min({intents[i].expires, at + ProofLife})]}]
    /\ UNCHANGED <<connection, fences, receipts, requests, audit, connecting, now>>

-------------------------------------------------------------------------------
(* connect_github_repository                                               *)

Covers(f, r) == f.installation = r[1] /\ f.repository \in {Whole, r[2]}

\* GITHUB_PROVIDER_STATE_CHANGED
FencedOff(r) == \E f \in fences : Covers(f, r)

\* The locks are taken and the fences are read.
ConnectChecks(i, c, key, at) ==
    LET p == intents[i].project IN
    /\ Unlocked(p)
    /\ ~FencedOff(c.identity)
    /\ connecting' = [connecting EXCEPT ![p] =
           [pc |-> "checked", intent |-> i, candidate |-> c, key |-> key, at |-> at]]
    /\ UNCHANGED <<connection, fences, receipts, intents, requests, audit, now>>

\* REPLAY and CONFLICT: the request, or another one, was completed under the key.
Claimed(p, key) == \E q \in requests : q.project = p /\ q.key = key

\* An intent and a candidate are good once, and for a while.
Usable(call) ==
    /\ ~intents[call.intent].consumed
    /\ intents[call.intent].expires > call.at
    /\ call.candidate.expires > call.at

\* MUTANT: whatever repository was confirmed revives the connection.
MayRevive(p, r) == TRUE

\* Otherwise GITHUB_SOURCE_REPLACEMENT_REQUIRES_SEPARATE_WORKFLOW.
Replaceable(p, r) == p \in DOMAIN connection => connection[p].identity = r

\* The row is inserted, or found, locked and made ACTIVE again.
Connected(p, call) ==
    [q \in DOMAIN connection \cup {p} |->
        IF q # p THEN connection[q]
        ELSE IF p \in DOMAIN connection
        THEN [connection[p] EXCEPT !.state = "ACTIVE", !.verified = call.candidate.verified]
        ELSE [identity |-> call.candidate.identity, state |-> "ACTIVE",
              verified |-> call.candidate.verified, created |-> now]]

ConnectCommits(p) ==
    LET call == connecting[p] IN
    /\ call.pc = "checked"
    /\ ~Claimed(p, call.key) /\ Usable(call) /\ Replaceable(p, call.candidate.identity)
    /\ connection' = Connected(p, call)
    /\ intents' = [intents EXCEPT ![call.intent].consumed = TRUE]
    /\ requests' = requests \cup {[project |-> p, key |-> call.key,
                                   identity |-> call.candidate.identity]}
    /\ audit' = Append(audit, [project |-> p, intent |-> call.intent,
           event |-> IF p \in DOMAIN connection THEN "REVERIFIED" ELSE "CONNECTED"])
    /\ connecting' = [connecting EXCEPT ![p] = Idle]
    /\ UNCHANGED <<fences, receipts, now>>

\* A replay, a conflict, a used or expired intent, another repository, a lost
\* client: nothing is written and the locks are released.
ConnectEnds(p) ==
    /\ connecting[p].pc = "checked"
    /\ connecting' = [connecting EXCEPT ![p] = Idle]
    /\ UNCHANGED <<connection, fences, receipts, intents, requests, audit, now>>

-------------------------------------------------------------------------------
(* apply_github_lifecycle_signal                                           *)

Seen(d) == \E f \in fences :
    f.id = d.id /\ f.installation = d.installation /\ f.repository = d.repository

\* The connections a signal is about that have no receipt of its delivery yet.
Touched(d) ==
    {p \in DOMAIN connection :
        /\ Covers(d, connection[p].identity)
        /\ \A n \in DOMAIN receipts[p] :
              ~(receipts[p][n].id = d.id /\ receipts[p][n].installation = d.installation)}

\* MUTANT: the latest signal wins.
OverridesAlways(d, at, c) == at >= c.created

\* A signal counts if it is not older than the connection and not weaker than
\* what the connection already says.
Overrides(d, at, c) == at >= c.created /\ Severity[d.state] >= Severity[c.state]

Signal(d, at) ==
    /\ ~Seen(d)
    /\ fences' = fences \cup {[id |-> d.id, installation |-> d.installation,
                               repository |-> d.repository, state |-> d.state, at |-> at]}
    /\ receipts' = [p \in Projects |->
           IF p \in Touched(d)
           THEN Append(receipts[p], [id |-> d.id, installation |-> d.installation,
                                     state |-> d.state, at |-> at])
           ELSE receipts[p]]
    /\ connection' = [p \in DOMAIN connection |->
           IF p \in Touched(d) /\ Overrides(d, at, connection[p])
           THEN [connection[p] EXCEPT !.state = d.state]
           ELSE connection[p]]
    /\ UNCHANGED <<intents, requests, audit, connecting, now>>

-------------------------------------------------------------------------------

Tick ==
    /\ now < MaxTime
    /\ now' = now + 1
    /\ UNCHANGED <<connection, fences, receipts, intents, requests, audit, connecting>>

Next ==
    \/ \E p \in Projects : Begin(p) \/ ConnectCommits(p) \/ ConnectEnds(p)
    \/ \E i \in DOMAIN intents, r \in Repositories, verified, at \in 0..now :
          RecordCandidate(i, r, verified, at)
    \/ \E i \in DOMAIN intents, key \in Keys, at \in 0..now :
          \E c \in intents[i].candidates : ConnectChecks(i, c, key, at)
    \/ \E d \in Deliveries, at \in 0..now : Signal(d, at)
    \/ Tick

Spec == Init /\ [][Next]_vars

-------------------------------------------------------------------------------
(* Properties                                                              *)

Reverified(p) == \E n \in DOMAIN audit : audit[n].project = p /\ audit[n].event = "REVERIFIED"

\* The signals that reached a connection and are not older than it, in order of arrival.
Counting(p) == {n \in DOMAIN receipts[p] : receipts[p][n].at >= connection[p].created}

\* Until a user verifies a connection anew it says what some signal said, never ACTIVE
\* once one came, and nothing milder than any signal since the last that asked for
\* verification: suspensions, removals and deletions that come twice, late or in
\* another order than GitHub sent them never regress one another (challenge E8).
SignalsNeverRegress ==
    \A p \in DOMAIN connection : ~Reverified(p) =>
        /\ connection[p].state \in
              IF Counting(p) = {} THEN {"ACTIVE"} ELSE {receipts[p][n].state : n \in Counting(p)}
        /\ \A n \in Counting(p) :
              (\A m \in Counting(p) : m > n => receipts[p][m].state # "VERIFICATION_REQUIRED")
                  => Severity[connection[p].state] >= Severity[receipts[p][n].state]

\* Challenge E8: "unsuspension [...] move[s] the association to VERIFICATION_REQUIRED
\* until an authoritative GitHub read refreshes metadata".  Here delivery ids are in
\* the order of sending, and the last signal to come is also the last one sent.
UnsuspendedNeedsVerification ==
    \A p \in DOMAIN connection :
        LET last == receipts[p][Len(receipts[p])] IN
        /\ ~Reverified(p) /\ Counting(p) # {} /\ Len(receipts[p]) \in Counting(p)
        /\ last.state = "VERIFICATION_REQUIRED"
        /\ \A n \in DOMAIN receipts[p] :
              receipts[p][n].id <= last.id
              /\ receipts[p][n].state \in {"SUSPENDED", "VERIFICATION_REQUIRED"}
        => connection[p].state = "VERIFICATION_REQUIRED"

\* A connection rests on a confirmation of that very repository, in that very
\* installation, given for an intent of the same Project; candidates of other
\* intents, other Projects or other repositories never revive it.
RestsOnProof ==
    \A p \in DOMAIN connection :
        \E i \in DOMAIN intents :
            /\ intents[i].project = p /\ intents[i].consumed
            /\ \E c \in intents[i].candidates :
                  c.identity = connection[p].identity /\ c.verified = connection[p].verified

\* Challenge E7: the fence is kept "so callback/webhook races cannot create an
\* active connection from a newly suspended or deleted installation".
NoActiveUnderFence ==
    \A p \in DOMAIN connection :
        connection[p].state = "ACTIVE" => ~FencedOff(connection[p].identity)
===============================================================================
