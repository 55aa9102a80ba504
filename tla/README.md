# A TLA+ model of Memoid

Memoid keeps, for each Project, durable and attributable context drawn from a
GitHub repository. Its state is one PostgreSQL database; nearly everything that
decides anything is a PL/pgSQL function of a migration
(`src/packages/db/src/migrations`), called by an API process, a web process and
several worker processes that share nothing but that database and a pg-boss
queue. What is hard in it is therefore what happens between two transactions,
and between reading the clock and getting a row lock. This directory models that
part, checks it with TLC on small instances and proves the parts that do not
depend on their size with TLAPS.

Migration `NNN` below means the file of that number in
`src/packages/db/src/migrations`.

## Inventory

| Part | State | Operations | Talks to |
|---|---|---|---|
| Operations (003) | `operations`, `operation_attempts` | `acquire_operation`, `renew_operation_lease`, `finish_operation`, `request_operation_cancellation` | any worker; audit events |
| Processing units (003) | `processing_units` | `advance_processing_desired`, `acquire_processing_unit`, `renew_processing_unit_lease`, `complete_processing_unit`, `retry_processing_unit` | source ingestion, reconciliation |
| Idempotency (003, 005) | `idempotency_records` | `claim_idempotency`, `finish_idempotency` | every mutation a user can send twice |
| Source ingestion (007, 010; `application/src/source-ingestion.ts`, `adapters/src/source-ingestion.ts`, `apps/worker`, `jobs`) | frontier, observations, evidence references, dispositions, one processing unit per ref | observe, schedule, acquire, extract, record, complete, retry | GitHub, the queue, processing units |
| GitHub connection (006; `github-source.ts` of domain, application, adapters) | intents, candidates, connections, lifecycle fences, receipts | begin, rotate, record candidate, connect, lifecycle signal | GitHub (OAuth, webhooks), idempotency, ingestion |
| Provider receipts (003) | `provider_event_receipts` | register, dispositions | lifecycle signals |
| Identity and sessions (004; `packages/auth`, the auth routes and `proxy.ts` of `apps/web`) | accounts, bindings, sessions, security epochs, step-up intents | resolve identity, create, authenticate, mark the provider's answer, step up, revoke one, all, by provider event | the identity provider; every user call |
| Workspaces and Projects (005) | `workspaces`, `projects` with a version | create, update metadata | idempotency, audit |
| Source authority (008, 010) | scopes with a version, assignments, endings | `set_source_authority`, `revoke_source_authority`, `qualify_...`, `resolve_effective_...` | connection, frontier; context records |
| Context records (009, 010; `context-record.ts` of domain, adapters) | identities, records, origins, evidence provenance | `put_context_record_v2`, `end_context_identity`, freshness | authority, evidence, frontier |
| Candidate frontier (002) | submissions, stable dispositions, one frontier row | two inserts with their triggers, the guard of the row's update | reconciliation |
| Conflict and uncertainty (011) | two rows with a version and a history of occurrences | establish, end, for conflicts and for uncertainties | context records; reconciliation reads it |
| Hybrid reconciliation (012; `application/src/reconciliation.ts`, `adapters`, `domain`) | records, current states, Working Context items, model invocation attempts | load material, decide by rule or by model, account for an attempt, commit | every plane above; change proposals |
| Change proposals and backlog (013) | proposals, items, their current states | materialise, refresh | reconciliation, context |
| Audit and actors (003) | append-only events | insert | all of them |
| Row level security (004) | none | predicates over session settings | all of them |
| Contracts, config, observability, UI, API, web | none of their own | parsing, presentation, entry points | the packages above |

Interaction is by function call within a transaction (a mutation claims its
idempotency key, acts and finishes it; a completion of ingestion completes its
processing unit), by rows read in a later transaction (the frontier, the
connection's state), and by jobs, which carry no data the worker relies on: it
asks the provider again.

What makes each part correct, and what is hard about it:

- **Operations.** The row and its attempts agree on the live attempt; attempts
  do not overlap; a stale worker cannot decide an outcome; no Operation waits
  that can no longer run. Hard: `now_at` is taken when a function is entered,
  before it waits for the row, so calls take effect in another order than their
  clocks; workers die; cancellation crosses completion.
- **Processing units.** No wakeup is lost: work desired during a lease is done
  after it. A holder completes only what it was told to do. Hard: stale holders,
  desires that arrive in the middle, an attempt number used as fencing token.
- **Idempotency.** One effect and one answer for one key. Hard: two first claims
  at once, a claim that runs out under its holder, an answer that gets lost.
- **Ingestion.** Coalescing hides no gap, the evidence shows the tree that was
  ingested, and the ref's final state is ingested in the end. Hard: the provider
  is read outside the transactions, each reference is its own transaction,
  attempts die half way, force pushes, signals that are lost or reordered, a limit
  on references that cuts an extraction, one job for all targets.
- **Connection.** A connection rests on a proof of that repository, for that
  Project, used once; signals that come twice or out of order never take back
  what a stronger one said. Hard: signals and connecting share no lock, and
  severity and time both have a say.
- **Authority.** A scope has one history; for a piece of evidence there is at most
  one winner, and the overview and the write path agree on whether it may be used.
  Hard: the resolver joins scopes, connections and frontiers that change apart.
- **Context records.** An identity has one chain of records; nobody writes over
  what he has not read; what a record names was authoritative when it committed,
  and CURRENT means current. Hard: `put_context_record_v2` resolves, reads the
  frontier and inserts in separate statements, and only some of what they read
  waits for the project row it holds.
- **Candidate frontier.** What is accepted has no gap and the watermark is exact.
  Hard: it is kept by triggers whose queries see only what was committed when they
  began, so two dispositions that close one gap do not see each other.
- **Conflict and uncertainty.** The current row sums up the history. Hard: what an
  occurrence refers to changes or goes away while it is active.
- **Reconciliation.** What is committed is what the present facts say, although
  they were read in another transaction and a model was asked in between; the
  projections follow the records. Hard: six versions stand for all facts, one of
  them is a sum, not all of them are guarded by the project row, and calls with
  one basis race, replay and retry.
- **Change proposals.** An identity has one line of items; an item is born fresh;
  what left CURRENT or OPEN is history. Hard: project row, two advisory locks and
  row locks are taken in the middle of a function, and refresh takes only the last.
- **Sessions.** What a revocation ended stays ended, a session is rotated once, a
  lost event of the provider costs a bounded time. Hard: a sweep does not see the row a
  rotation is about to insert; events and answers of the provider come late or never.

`PROJECT.json` lists the hazards at their lines, with the properties that watch
each of them.

## Modules

    OperationLifecycle   abstract        LostWakeup          abstract
        ^ refined by                        ^ refined by
    Operations                       ProcessingUnit      SourceIngestion
                                            \               /
                                            ProcessingUnitRow

    SourceAuthority     <-EXTENDS- ContextRecords
    ConflictUncertainty <-EXTENDS- Reconciliation

    Idempotency   GitHubConnection   ChangeProposals   Sessions   CandidateFrontier

The theorems about a module `M` are in `MProofs`, which EXTENDS it. Those about two
small modules are with a relative, whose proof module extends both:
`ContextRecordsProofs` has the idempotency key, which every mutation of authority and
Context claims and finishes inline, and `ProcessingUnitProofs` has the candidate
frontier, the other frontier of a project. The names the two would share with their
hosts begin with `Key` and `Frontier` (`KeySpec`, `FrontierTypeOK`).

**`ProcessingUnitRow`** states the five functions of 003 as guards and row
transformers over one `processing_units` row (`CanAcquire`/`Acquired`, ...).
Two modules use them, so the queue's semantics are written once.
**`ProcessingUnit`** adds the callers: a call is *entered* (it reads the clock)
and *runs* (it gets the row), with any other call in between.
**`LostWakeup`** is what the unit promises: a desire, a claim, a progress.

**`Operations`** does the same for `operations` and `operation_attempts`
including the triggers of 003 that guard updates. A function that raises changes
nothing and is no step. **`OperationLifecycle`** is `domain/src/operation.ts`:
the states and their legal transitions.

**`SourceIngestion`** follows one ref through the worker. There is one action per
transaction or provider call, in the order of `executeSourceIngestionSignal`,
`observe` and `processNext`; between two of them a worker has only its local
variables (`worker[w]`). `Extractions` is `extractEvidence` with its fallbacks;
file contents are abstract blobs, policies a set `Eligible`. `Bounded` is the limit
of 2,000 references: beyond it an extraction leaves out every further candidate, a
deletion too, and the observation is completed all the same; which ones it keeps is
up to GitHub's order. `Fits` is the same limit in 007, where it counts the
references of lost attempts as well and raises. One ref is modelled, but not alone
in its job: `EarlierTargetFails` is the target before it in the loop that throws and
ends the job for both. Time is an event here (a lease lapses), since `ProcessingUnit`
treats the clock itself.

**`Idempotency`** is one key, its row, the transaction that owns the row, and the
clients, in `caller`. `inline`, chosen at the start, says which of two uses it is: the product's
(claim, effect and finish in one transaction) or the one of the Stage 10B tests
(three transactions).

**`GitHubConnection`** has intents with their candidates, the connection of each
Project, the fences and receipts. `connect_github_repository` is two steps,
the fence check and the rest, because a signal can be committed between the two;
a signal is one, since nobody can tell its statements apart.

**`SourceAuthority`** has the scopes with their assignments and endings, the two
functions of 008 that change them, and the resolver of 010 as operators
(`Qualification`, `Candidates`, `Stronger`, `ResolveEffective`). Of connection,
frontier and evidence it keeps the columns the resolver reads, and one action
for each transaction of 006 and 007 that writes them (`LoseSources`,
`VerifySource`, `Observe`, `RecordEvidence`, `CompleteIngestion`). The update of a
signal names the Project only, so `LoseSources` is a step of all its sources. A path
is a sequence of characters there, because `LIKE` looks at them (`Like`); `Below` is
what the domain's `applies` says of a path instead.
**`ContextRecords`** adds identities, records, and authors who have read an
identity (`page`) and put or end it. A put is three steps: it locks the project
row, compares tokens and resolves (`PutResolve`), reads the frontier
(`PutCover`), inserts and commits (`PutCommit`). `lock` is the project row: the
functions that take it `for update` are not enabled while another transaction
has it, and the others run in between. Freshness is the operator `Freshness`,
from `listCurrent` and `sourceFreshness`.

**`CandidateFrontier`** has transactions of any number of statements. An insert
and the triggers after it are two steps: `Submit` then `AdvanceAccepted`,
`Dispose` then `Refresh`, since the trigger waits for the frontier row and its
query then sees what has been committed in the meantime. `Update` is a direct
update of the row, under `Guard`.

**`ConflictUncertainty`** has the four functions of 011, each one step under the
project row, over the four planes a conflict or an uncertainty refers to, which
it keeps in small. Among the participants of a conflict, evidence carries its
qualification and the assignment it was resolved to, both of which are in the hash that
tells a repetition. **`Reconciliation`** adds the service: a call loads its material
in two steps (`LoadCandidate` reads the basis and most facts, `LoadEvidence` the
qualification of the evidence), is decided by `Verdict` or asks the models of the
route with their retries (`Answer`, `Fail`), and commits under the basis it read
(`Commit`), finds it committed already (`Replay`) or gone (`CommitStale`).
`Abandon` is a crash anywhere. A claim is a hash in a small set; the answer of a
model is any class of `ModelClasses`.

**`ChangeProposals`** has the two functions of 013 cut at every lock they may wait
for. `Begin` is the comparison of the basis, with the project row held in share
mode and the identity's advisory lock; `Select` waits for
the group's lock and locks the item that is replaced, or else the open proposal that
is joined; `Evaluate` reads whether the predecessor's proposal is emptied;
`Materialize` inserts, supersedes and commits. `ReplayItem` and `MaterializeAgain` are
the two ways out for a record that has its item already.
`RefreshItems`, `Mark`, `CountItems` and `RefreshProposals` are the statements of a
refresh. Of the planes it keeps two versions, one that moves only under the
project row (`known`) and one that does not (`loose`).

**`Sessions`** follows a callback (`Exchange`, `ResolveIdentity`, then
`CreateSession` or `CompleteStepUp`), a page that authenticates and may ask the
provider again (`Authenticate`, `AskProvider`, `MarkProviderState`), and the
revocations. A function that revokes many rows is two steps, what it saw and what
it does (`RevokeAll` or an event, then `Sweep`). `loggedOut` and `reset` are history
variables: what a global logout or the sweep of a password reset ended, and what is
rotated out of that. `RevokeAll` is in the model because 004 defines
the function, but it is reserved: no runtime role may execute it (004:639-649) and nothing in
`src` calls it. The revocation of a whole account that does happen is the event of
the identity provider (`IdentityEvent`, 004:359), which leaves the epoch alone.

The correspondence of each definition with its lines is the `map` of
`PROJECT.json`.

### Conventions

- Time is a natural number; a function may run at any time after it read the
  clock. `Null` is `-1`, SQL null. A UUID token is the number of its attempt:
  both are fresh, which is all the code uses.
- A row is a record. What a function leaves unchanged is in `UNCHANGED`.
- Names that end in a mutation (`CanCompleteAny`, ...) and carry the comment
  `MUTANT` are deliberately wrong variants of the definition that follows them.
  No specification uses them; replacing the right one by it must break a property.
- A call that only fails, because a check of the code refuses it, changes nothing
  and is no step.
- A transaction is one step where all it reads and writes is under a lock it holds
  from the start, or where nobody can tell its statements apart; otherwise it is
  cut where another transaction may commit in between.

## Runs

| Run | Question | Bounds | Distinct states |
|---|---|---|---|
| `MCOperations` | Do rows and attempts agree, do leases fence, is the lifecycle implemented? | 2 workers, 2 attempts, lease 2, delay 1, time 3, 2 entered calls | 577,026 |
| `MCFrontiers` | Is no wakeup lost, does no constraint trip, does no stale holder end a lease? Is the watermark exact at every commit? | frontier 3, 3 tokens, lease 2, delay 1, time 4, 2 entered calls; 3 transactions, 5 submissions | 856,260 |
| `MCSourceIngestion` | Do progress records agree, is coalescing sound, does evidence show the tree, is the last state of the ref ingested after any fault, once earlier targets stop failing? | 2 workers, 6 histories of up to 3 revisions, at most 2 references, 2 passes, 1 fault, with fairness | 650,028 |
| `MCIdempotency` | One effect, everybody answered? Does only the latest claim decide? | 3 callers, 2 requests, 2 attempts, claim 1, time 2, with fairness | 67,986 |
| `MCGitHubConnection` | Does a connection rest on its own proof, do signals never regress? | 2 installations, 2 intents that last 1, 2 keys, 3 signals, time 2 | 2,253,795 |
| `MCContextRecords` | Are histories linear, is a write made under what wins, is CURRENT current, what ties? | 2 authors, 2 sources, 2 refs, 4 overlapping scopes, 1 identity, 2 decisions, 1 change of a connection, 2 records | 995,391 |
| `MCReconciliation` | Is what is committed what the present facts say, do histories and projections agree? | 2 callers, 2 candidates of 1 identity, 2 claims, a route of 2 models, 2 decisions, 3 writes to the planes, 1 record, 2 occurrences | 639,105 |
| `MCChangeProposals` | One line of items, born fresh, history final? | 2 workers, 2 identities, 3 candidates in 2 groups, 3 records, 2 moves of versions | 1,670,866 |
| `MCSessions` | Is a logout for good, a session rotated once, a lost event bounded? | 1 browser, 1 sweeper, 2 provider sessions of 1 user, 3 sessions, 2 intents, 1 global logout, time 3 | 3,375,694 |

Three more runs each show one statement of a document violated, `MCGitHubRace`,
`MCGitHubUnsuspend` and `MCSessionsReset`; see *Findings*. `MCFrontiers` has two modules
that share no table: a behaviour explores one of them while the other rests.

**Why the bounds are enough.** Each is the least that lets the interesting case
happen, and each property is shown to fail, within the same bounds, when the
code is changed in one plausible place. Two attempts are needed for a takeover,
a takeover by the *last* attempt is `MaxAttempts = 2`; two calls entered at the
same time suffice for every pairwise reordering of clock and lock, since a call
that has run leaves only the row behind. Three revisions give a coalesced one
between two that are ingested; that history goes through a deletion, and those of two
revisions go forward with a rename, forward with a rename out of the policy, back by
a force push, to a ref that is no longer the default branch, and from a revision with
three files where an extraction may draw up two references, so that one is cut. How
evidence holds up over a chain of compares is left to `EvidenceComplete`, which has any
history; with
the real limit only a walk is cut, since a compare of 300 files or more is not
believed. An attempt whose references do not fit (`Fits`) takes more than
the two there are. One fault puts a crash at every point of an
attempt, and the second attempt is then itself free of faults. A delivery is
identified by a number, so two deliveries of the same kind differ from a
duplicate, which is a signal that is sent again. `KeySymmetry` permutes
idempotency keys: they occur only in equality tests. Two decisions are a
replacement, a revocation, or two scopes that compete; the four scopes are one
for the project, one for the default branch, one for the directory of the file, and
one of the same rank whose key has `_`, so every rule of precedence decides
somewhere and two of the scopes tie. An intent that lasts 1 runs out within the time of 2, and
the three signals are a suspension, a removal of the repository, and the
unsuspension that asks for verification. In `MCReconciliation` two callers can have one
basis, replay each other or come late, two candidates with one claim make a
duplicate and a Working item of each other's, and three writes are enough for an
establishment, its end and another one, or for a source that goes away and comes
back; the second model of the route is unusable, so the route ends in an answer as
well as in its exhaustion. In `MCChangeProposals` identity
`a` has candidates in both groups, so its advisory lock and the group's are crossed,
and `b` shares a group with it, so a proposal holds items of two identities. Two
intents are two step-ups of one session, and a browser that is in the middle of one
call meets a sweep that began before or after it; time 3 is past the absolute and
the verification life. Three transactions are two that close one gap and one that
moves the row.

**Deadlock** is not checked where the system really stops: when an Operation is
terminal, a ref is ingested, or a bound on time, records or writes is reached.
The candidate frontier never stops, since a transaction can be rolled back and begun
again; what a blocked transaction waits for is not a property there.

**Fairness.** `MCSourceIngestion` assumes that each worker process keeps running
(weak fairness of its next step, which the Node event loop gives), that signals
keep arriving (the five-minute cron of `jobs`), and that leases and retry delays
end (clocks advance). It assumes nothing of pushes, reconnections or faults. `Converges`
itself has two premises: that the connection stays, and that in the end no target
before this ref fails in its job. The second is not for the scheduler to give:
`executeSourceIngestionSignal` has no `catch` around a target, so without it the ref
may starve for good. `MCIdempotency` assumes that
an open transaction goes on or is lost, and that a client that asks for a row lock
again and again gets it (strong fairness: PostgreSQL serves the waiters of a row).

### Properties worth knowing

- `AttemptsDisjoint`, `Fenced` (`Operations`): what survives of exclusive leases
  when clocks are read too early.
- `WaitingHasBudget`: `acquire_operation` wants to write FAILED from a waiting
  state, which its own trigger forbids; it never has to.
- `ImplementsLostWakeup` (`ProcessingUnit`).
- `CoalescedIntoIngested`, `EvidenceCoversTree`, `Converges` (`SourceIngestion`).
  `EvidenceCoversTree` is about extractions that were not cut. Whether one was is not
  in the database as such (the counts of excluded files are checked by the
  completion and not stored), but its audit event has the number of references: below the
  limit nothing is missing (`NothingCut`).
- `ExactlyOnce`, `LatestClaimDecides` (`Idempotency`).
- `LeaseExclusive` (`ProcessingUnit`): a stale holder ends no lease but its own.
- `SignalsNeverRegress`, `RestsOnProof` (`GitHubConnection`). The first leaves to an
  unsuspension what the documents give it; that the code does not is a finding.
- `OneAuthorityHistory`, `TiesOnlyByWildcard` (`SourceAuthority`). Ties do occur in
  the instance; the property says where they come from.
- `WinsAtCommit`, `EvidenceKept`, `CurrentIsCurrent`, `OneContextHistory`
  (`ContextRecords`). `WinsAtCommit` says exactly what the project row protects: the
  winner and the branch, not the connection's state nor the frontier, which may
  move between the check and the commit.
- `DecidedOnPresentFacts` (`Reconciliation`): the rules applied to the facts at the
  commit give what is committed, although only versions are compared. It says too
  what is not in the basis, the connection, which it takes as it was read.
- `ProjectionsFollowRecords`, `OneIntegrityHistory`.
- `OneLineage`, `FreshWhenMaterialized`, `HistoryFinal` (`ChangeProposals`). That
  refresh writes items without looking at their state is saved by the row locks
  of both functions, which is what `HistoryFinal` is about.
- `LoggedOutForGood` (`Sessions`): the sweep does miss a row in flight; the epoch
  that the row inherits is what saves it. It is about a function that is reserved;
  the sweep of a password reset has no epoch to save it, and `ResetForGood` fails. `HorizonBounds` bounds what a lost event
  of the provider costs, and `MaxLag` in it is real: the answer of a recheck is
  written down without the time it was given.
- `WatermarkExact` (`CandidateFrontier`).

Some invariants are proved and are no property of a run, because others say more:
`OneLiveAttempt`, `LeaseNeverShrinks`, `CompletesOwnTarget`, `FrontierTypeOK`,
`UnchangedSinceRead`, `OverviewAgrees`, `NeverOutlives`.

## Findings

Three are runs, each of a property that states what a document says.

- `MCGitHubRace`, `NoActiveUnderFence`: a signal committed between the fence check and
  the commit of a connect transaction (006:372) leaves an ACTIVE connection under a
  fence, against challenge E7 of the source stage.
- `MCGitHubUnsuspend`, `UnsuspendedNeedsVerification`: VERIFICATION_REQUIRED ranks below
  SUSPENDED (006:533), so an unsuspension that comes in order leaves the connection SUSPENDED,
  where challenge E8 moves it to VERIFICATION_REQUIRED.
- `MCSessionsReset`, `ResetForGood`: the sweep of a password reset (004:371) does not see the row
  that a step-up inserts for the session it rotates, while the sweep waits for that
  session. No epoch is counted up, so the new session is authentic after the reset,
  against the challenge of stage 10C.

What follows was met while modelling. The models have the behaviour, and where a
property would say otherwise it is stated with the exception.

*Where a document says otherwise.*

1. Two workers that read the ref in one order and schedule in the other make an
   older revision the desired one (007:223), against stage 9C, S9C-FR-011. A later
   signal repairs it, which `Converges` shows.
2. A file renamed to a path the policy excludes leaves no trace of the path that
   went away (`adapters/src/source-ingestion.ts:182`), against challenge F1.
   `EvidenceCoversTree` has exactly that exception.
3. The fence check compares no times and fences are never removed (006:372), so a
   repository GitHub confirmed after the last signal is refused all the same,
   against challenge E8 (and E2: reconnecting may restore access).
4. A refresh reads which open proposals have no current item and then waits for
   their rows; it looks again at the state of the proposal only (013:350), so a
   proposal to which an item was added in between becomes STALE with a current
   item in it, against `docs/architecture/change-proposals-backlog.md`.
5. A session can be established after its provider session has ended: the callback
   exchanges the code and creates the session in calls of its own
   (`auth/src/index.ts:68`), and an event in between finds no row (004:250).
   `HorizonBounds` says what that costs.
6. References are recorded one transaction each, before the completion that
   disposes of their observation, where challenge F6 has them commit together.
7. The resolver's `LIKE` does not escape the scope key (010:108), whose alphabet has
   `_`, so a scope for `a_b` wins for `a-b/f`, against challenge G2 of stage 10G, where
   a scope is a path prefix, and the domain's own `applies`. Next to a scope for `a-b`
   it ties, and writes are refused. `TiesOnlyByWildcard` says that no tie has another cause.
8. One job goes through all targets (`worker/src/runtime.ts:38`), and one that keeps
   failing keeps the periodic scan from those behind it, where challenge F11 of stage
   10F recovers a missing webhook by refetching every active ref. The order of the
   targets is that of a `select distinct` (010:154), which nothing makes change from one
   job to the next. It is why `Converges` has its second premise.

*What a reader of the code may want to know.*

- Beyond 2,000 references an extraction leaves out every further file and counts it as
  POLICY_EXCLUDED (`adapters/src/source-ingestion.ts:158`), a count nobody stores; the
  observation is INGESTED like any other. The documents state the limit and not what
  lies beyond it, so this is no divergence, but the ingested tree is then incomplete
  until a walk of a smaller one, since later compares do not mention the files that
  were cut.
- An attempt that died leaves its references under the observation, and 007:372 counts
  them: a compare that is retried as a walk may exceed the limit only because of them,
  and fail each time until the ref moves on.
- Two equal candidates that are both pending count as the duplicate of each other
  (`adapters/src/reconciliation.ts:104`): each may be dismissed as UNCHANGED for the
  sake of the other.
- A commit of a model's answer that is refused as stale is tried again with the same
  material (`application/src/reconciliation.ts:287`), which can only be refused again.
- The attempts of two callers with one basis share a key, and the second is dropped
  by `on conflict do nothing` (012:162): the account of invocations is a lower bound.
- The state of the connection is not in the basis of a reconciliation: a source
  that is lost after its evidence was qualified does not make the commit stale.
- Materialising a record a second time, once its item is STALE, opens a proposal that
  may stay OPEN and without items. And the SUPERSEDED event of a proposal is inserted
  whether or not a row changed (013:308).
- Two global logouts of one account at once can each wait for a row the other has;
  PostgreSQL aborts one.
- A live row that has expired still holds the unique index of its provider session
  (004:107), so a new login with that provider session fails until it is revoked.
- The result of marking the provider's answer is not looked at (`proxy.ts:23`): the
  page that found out is served.
- `Freshness` never is REVALIDATION_REQUIRED: once the default branch has moved, the
  resolver does not find the assignment and AUTHORITY_CHANGED is answered first. For
  the same reason evidence on the old branch falls through from a DEFAULT_BRANCH
  scope to a broader ANY_REF one rather than waiting for a review.

## Proofs

TLAPS proves, for every value of the constants that meets the named `ASSUME` of
the module (naturals for bounds, finite or infinite sets of workers):

| Module | Theorem | States |
|---|---|---|
| `ProcessingUnitProofs` | `TypeCorrect`, `RowConstraintsCorrect`, `CompletionCorrect`, `LeaseCorrect` | `TypeOK`, `RowConstraintsHold`, `CompletesOwnTarget`, `LeaseExclusive` |
| | `LostWakeupImplemented` | `ImplementsLostWakeup`, the refinement |
| | `FrontierTypeCorrect`, `WatermarkCorrect` | `FrontierTypeOK`, `WatermarkExact` of `CandidateFrontier` |
| `OperationsProofs` | `TypeCorrect`, `AttemptsAgree`, `AttemptsNeverOverlap`, `WaitingCanRun` | `TypeOK`, `OneLiveAttempt`, `AttemptsDisjoint`, `WaitingHasBudget` |
| | `LeasesFence`, `LeaseMonotonic` | `Fenced`, `LeaseNeverShrinks` |
| | `LifecycleImplemented` | `ImplementsLifecycle`, the refinement |
| `GitHubConnectionProofs` | `TypeCorrect`, `SignalsWin`, `ProofCorrect` | `TypeOK`, `SignalsNeverRegress`, `RestsOnProof` |
| `SourceIngestionProofs` | `TypeCorrect`, `ProgressCorrect` | `TypeOK`, `ProgressAgrees` |
| | `CoalescingCorrect`, `EvidenceComplete` | `CoalescedIntoIngested`, `EvidenceCoversTree` |
| `ContextRecordsProofs` | `TypeCorrect`, `HistoryLinear`, `EvidenceStays`, `CurrentMeansCurrent` | `TypeOK`, `OneContextHistory`, `EvidenceKept`, `CurrentIsCurrent` |
| | `RevisedAsRead`, `AuthorityAtCommit` | `UnchangedSinceRead`, `WinsAtCommit` |
| | `OverviewNeverBehind`, `TiesExplained` | `OverviewAgrees`, `TiesOnlyByWildcard` |
| | `AuthorityHistoryLinear` | `OneAuthorityHistory` |
| | `KeyTypeCorrect`, `CarriedOutOnce`, `NewestClaimResolves` | `KeyTypeOK`, `ExactlyOnce`, `LatestClaimDecides` of `Idempotency` |
| `SessionsProofs` | `TypeCorrect`, `LogoutIsForGood`, `RotationOnce` | `TypeOK`, `LoggedOutForGood`, `RotatedOnce` |
| | `StepUpsNeverOutlive`, `HorizonCorrect` | `NeverOutlives`, `HorizonBounds` |
| `ChangeProposalsProofs` | `TypeCorrect`, `LineageCorrect` | `TypeOK`, `OneLineage` |
| | `FreshAtBirth`, `HistoryIsFinal` | `FreshWhenMaterialized`, `HistoryFinal` |
| `ReconciliationProofs` | `HistoryIsOneLine`, `ProjectionsCorrect` | `OneIntegrityHistory`, `ProjectionsFollowRecords` |
| | `TypeCorrect`, `DecisionsCorrect` | `TypeOK`, `DecidedOnPresentFacts` |

With these, every invariant and every action property that a passing run checks is
a theorem; the exceptions are the two liveness properties.

*Processing units.* First, each row transformer, under its guard, keeps the check
constraints (`AcquiredRow`, ...); the invariant joins those with the fact that a lease in the
row carries the token and target its worker was told, since no token is given out
twice. Completion and the refinement follow from that one step at a time.

*Operations.* The three properties of the tables are not inductive alone. A
granted attempt starts at the clock of its call, so that attempts do not overlap
needs that a lease that has expired by that clock ended before it (`AcquiredPast`,
`Timing`), and that calls carry a clock that has passed (`CallsEntered`). `Inv`
is the conjunction; `AcquireEffect`, `RenewEffect` and `FinishEffect` say once
what each function does to the row and its attempt, and `StepEffect` gathers
them for the action properties.

*Idempotency.* `RowOK` and `LocalOK` say what a row and a client are by themselves.
What joins them differs between the two uses, and so does the invariant. Inline
(`InlineClaims`), a claim is an uncommitted change: whoever holds one owns the row,
which is still absent to all others, so nothing has been carried out. In transactions
of their own (`CommittedClaims`), claims are numbered: a client's token is never ahead
of the row's count, and who has the newest one claimed the request that the row shows.
`EffectsRecorded` says that a completed row names an effect that took place for its
request, and that inline there is one effect exactly when the row is completed.

*GitHub connection.* `SignalsNeverRegress` is not inductive as it stands: it allows
for an unsuspension what the code never does. The invariant says what the code does, that
the connection says the strongest of the signals that count (`IsStrongest`, and
`StrongestOfMore` for one signal more); `SignalsCounted` is that of every Project,
with the fact that one without a connection has no receipts. For
`RestsOnProof` the invariant says of a connect transaction between its two steps that
the candidate it checked is still in its intent (`CallOK`), since the transaction holds
the locks that keep others from rotating it away.

*Source ingestion.* `Ledger` is what the tables say together and `AttemptOK` what a
worker's variables say of them. Nothing can be said of a worker whose attempt was
lost but that its token is old, for what it still records is evidence all the same.
So `EvidenceOK` says of every reference, whoever recorded it, that it belongs to an
extraction from the present frontier if it lies beyond it, and lies at or before the
target of a live attempt; and `AttemptOK` says of the attempt that has the lease that
its target and base are the unit's and that what is no more to be done is recorded.
A completion then moves the frontier to evidence that is whole. For
`EvidenceCoversTree` the last reference to a path is followed through that completion:
a count below the limit means that the extraction was not cut (`Bounded` is then the identity), a
full walk covers the tree by itself (`FullCovers`), a compare covers what it says is
new, changed or gone (`CompareNew`, `CompareGone`) and leaves the rest to the view before it
(`OldShows`, `CompareCovers`). The proof needs of the constants that a path names one
file of a tree and that a rename takes a path of its base away, which `SourceIngestion`
assumes and every Git compare gives. `CoalescedIntoIngested` follows from a description of a
completion as an operation on dispositions alone (`Disposes`).

*Context records.* What a put compared and resolved is stored in `client` and used
later, so the invariant has to say that it still holds (`PutInv`): while the put
is open, its tokens are the identity's, its assignment wins and its evidence is
ingested. That is kept because everything that could change it waits for the lock
(`ReviewKept`) or only adds (`IngestedKept`), which is shown once for reviewers
and sources (`SetEffect`, `RevokeEffect`, `SourceStepEffect`). `RecordsInv` says
of each record that its evidence is ingested and its assignment was made for that
source; with `ResolvedTo` and `EffectiveIs`, which say what the resolver's answer
means, that gives `CurrentIsCurrent`. `TiesExplained` is a fact of the operators
alone: of two scopes of one rank that a file lies below, one is no deeper than the
other and so each is the other (`BelowPrefix`, `DeeperHasMore`, `UniqueWinner`).

The history of a scope needs nothing of that: `Line` says of one scope what
`OneAuthorityHistory` says of all, as a fact about two finite sets, the version and
the current assignment, and `LineWhenSet` and `LineWhenRevoked` carry it over one
decision (the cardinalities grow by one, since versions are new). What it takes
from the invariant is that the current assignment exists.

*Candidate frontier.* `Exact` is `WatermarkExact` of any frontier, submissions and
dispositions. The invariant asserts it not only of what is committed but of what
each open transaction would commit if it holds the row (`Consistent`): its frontier
is exact for the committed rows and its own. Who does not hold the row has nothing
of its own to commit, since an insert is followed by its trigger, which waits for
the row; so the committed rows stand still under the holder.

*Sessions.* `RowInv` says of a row by itself that its epoch is not ahead of its
account's, and is behind it once a global logout has ended the session or what it was
rotated out of; since the account's epoch only grows and a rotation inherits the old
one, whether the sweep saw the row does not matter. `OriginInv` says of a rotated
row that its origin is an earlier row that is revoked and that no other row names,
and that it ends no later. For `HorizonBounds`, `CallOK` says that a positive answer
in the middle of a call is no older than `MaxLag` and was given before the end of
the provider session.

*Change proposals.* `JobOK` says of a transaction what it read and still holds: its
record is the newest of its identity and its basis is the present one (it has the
project row), what it selected as predecessors is what is current for the identity
and is locked, what a refresh marked is current and locked. `Apart` says that two
transactions hold disjoint things. Then a materialisation replaces all that is
current of the identity with one item (`OneCurrent`), and what a refresh writes is still CURRENT,
which is `HistoryFinal`.

*Reconciliation.* The histories and the projections are independent. `HistoryOK` joins a row to its
history, and `Fits` each occurrence to the one before; `OccurKeeps` and `EndKeeps`
carry it over a change. `Projected` says of a candidate that its current row and
its item come from the last of two sets of indices; a commit appends an index to
both or to the first, and every other step leaves item and records of the candidate
alone or is an intake, which only comes before all decisions.

`DecidedOnPresentFacts` needs a second invariant, `Typed` and `CallsTruthful`. A call has
read facts under a basis of versions and commits only if its basis is the present
one. `Truthful` says that the basis of a call is never ahead of the present one in
any of its parts and that, if the two are equal, the call knows the present facts or
the rules still say what they said. That this is kept takes two facts of every step
(`Onward`): no part of a basis moves back, and what a part stands for stays while the
part stays. `KnowledgeMoves` shows them of each plane for each step of the planes,
`BelowOnward` and `TruthLasts` carry a call over it: if its basis is the present one
after the step, it was the present one before, since it lay between.

One part of the basis is a sum of versions (`IntegrityVersion`, a `MapThenSumSet`), which
is defined by a recursive function. That it is a natural, and that it grows
strictly when one summand grows and none falls, takes an induction over the size of
the set. It is done without the induction theorems, from the well-ordering of the
naturals: `Least` gives a least size at which the claim fails, and the sum unfolds by
one element (`SumUnfold`). `Part` and `SumExists` show that the recursive
function exists at all, by the same argument.

## Only model-checked

- Liveness: `Converges` (`MCSourceIngestion`) and `Answered` (`MCIdempotency`), which is out
  of the prover's reach. What the proofs give towards it is safety: a frontier that has
  come to agree with the ref does so for a reason.
- The three violated statements, which are counterexamples and need no proof.

No module declares a recursive operator.

## Not modelled, and why

- Audit events, actors, row level security: written or evaluated inside the
  transactions above, nothing reads them back to decide. `GitHubConnection` keeps
  the audit events that say whether a connection was verified again.
- Workspaces and Projects: two rows with a version that is compared in the
  transaction that changes it; the idempotency of those calls is `Idempotency`.
- The rotation of an intent's secret state and OAuth: the calls that fail on them
  raise and change nothing. In `Sessions`: the inactivity limit, the life of an
  intent, invitations, and which mutations ask for a step-up.
- In `Reconciliation`: what is in the packet a model is sent and what it costs, and
  the hashes that bind it to its answer. Intake is modelled as the item it leaves;
  no function of the repository does it yet.
- In `ChangeProposals`: events and audit rows, and the pages of the backlog.
- Contents of files, the policies, hashing, formatting, HTTP.
- The synthetic job of `jobs`, configuration, user interface: no logic of their own.
- In `ContextRecords`: the session, step-up, archival and idempotency checks that
  precede each mutation (a call that fails them changes nothing; the key is
  `Idempotency`), and the payload of a record. The version a reviewer expects is
  compared in the same transaction that changes it, so only calls that expect
  the right one are steps. 006 lets a project connect one repository while 010
  and the domain reason about several; the model has several.
- The lock order of acquire against record and complete in 007: PostgreSQL aborts
  one side of a cycle, which `SourceIngestion` has as a job that fails.
- In `SourceIngestion`, what becomes of the other targets of a job: they matter to a
  ref by ending its job, and by the time they take, which is abstract.
