---------------------------- MODULE SourceIngestion ----------------------------
(***************************************************************************)
(* Ingestion of one ref of one GitHub source: the job runtime              *)
(* (apps/worker/src/runtime.ts), the service (observe, processNext of      *)
(* packages/application/src/source-ingestion.ts), the provider adapter     *)
(* (packages/adapters/src/source-ingestion.ts) and the functions of        *)
(* migration 007 over the frontier, the processing unit, the evidence      *)
(* references and the dispositions.                                        *)
(*                                                                         *)
(* One action per transaction or provider call: between two of them a      *)
(* worker holds nothing but its local variables and, perhaps, a lease.     *)
(* Time is abstract here (ProcessingUnit has the clock): a lease or a      *)
(* retry delay is live, 1, until an event makes it lapse, 0; the current   *)
(* time is 0.  Jobs of the queue are alike, since every signal makes the   *)
(* worker refetch the ref: webhook, cron and start-up only add a job.      *)
(***************************************************************************)
EXTENDS ProcessingUnitRow, Sequences, FiniteSetsExt

CONSTANTS Workers,       \* worker processes
          Histories,     \* what GitHub may answer for the ref over time
          Tree,          \* the files of each revision, a set of <<path, blob>>
          Ahead,         \* pairs <<base, target>> GitHub compares as "ahead"
          Renames,       \* <<base, target, from, to>>: a rename GitHub reports
          Eligible,      \* the files that pass the path and content policy
          MaxReferences, \* references of one extraction and one observation (2000 in the code)
          MaxPasses,     \* passes of one job over one target (10 in the code)
          MaxJobs,       \* bound: jobs waiting in the queue
          MaxFaults      \* bound: crashes, provider failures, disconnections, slow attempts

Revisions == DOMAIN Tree
PathsOf(files) == {f[1] : f \in files}

\* What the ref points to, "REF_DELETED" when it is gone, and whether it is the default branch.
Answers == [revision : Revisions \cup {"REF_DELETED"}, isDefault : BOOLEAN]

\* A path names one file of a revision; a rename takes a path of its base away.
ASSUME SourceIngestionAssumption ==
    /\ Histories \subseteq Seq(Answers) \ {<< >>}
    /\ \A r \in Revisions : \A f, g \in Tree[r] :
          f = <<f[1], f[2]>> /\ f[1] # "" /\ (f[1] = g[1] => f = g)
    /\ \A r \in Revisions : IsFiniteSet(Tree[r])
    /\ IsFiniteSet(Renames)
    /\ Ahead \subseteq Revisions \X Revisions
    /\ \A s \in Renames :
          /\ s[1] \in Revisions /\ s[2] \in Revisions
          /\ s[3] \in PathsOf(Tree[s[1]]) \ PathsOf(Tree[s[2]])
    /\ MaxReferences \in Nat \ {0}
    /\ MaxPasses \in Nat \ {0} /\ MaxJobs \in Nat \ {0} /\ MaxFaults \in Nat

Live == 1
Lapsed == 0

VARIABLES provider,      \* its history of the ref, and the index of what it serves now
          observations,  \* source_observations in sequence order
          frontier,      \* source_frontier_states: observed, desired, ingested
          unit,          \* the processing_units row of the ref
          evidence,      \* evidence_references
          dispositions,  \* source_ingestion_dispositions
          completed,     \* the SOURCE_INGESTION_COMPLETED audit events
          connected,     \* github_source_connections.connection_state = 'ACTIVE'
          jobs,          \* jobs waiting in the queue
          worker,        \* the local variables of each worker process
          faults         \* faults so far

database == <<observations, frontier, unit, evidence, dispositions, completed>>
vars == <<provider, observations, frontier, unit, evidence, dispositions, completed,
          connected, jobs, worker, faults>>

History == provider.history
head == provider.head

Idle == [pc |-> "idle"]
Busy(w) == worker[w].pc # "idle"

Modes == {"INITIAL_TREE", "INCREMENTAL_COMPARE", "BOUNDED_TREE_FALLBACK", "REF_DELETED"}

Init ==
    /\ provider \in [history : Histories, head : {1}]
    /\ observations = << >>
    /\ frontier = [observed |-> 0, desired |-> 0, ingested |-> 0]
    /\ unit = NewUnit
    /\ evidence = {} /\ dispositions = {} /\ completed = {}
    /\ connected = TRUE
    /\ jobs = 0
    /\ worker = [w \in Workers |-> Idle]
    /\ faults = 0

Fault == faults < MaxFaults /\ faults' = faults + 1

-------------------------------------------------------------------------------
(* The environment                                                         *)

Push ==
    /\ head < Len(History)
    /\ provider' = [provider EXCEPT !.head = @ + 1]
    /\ UNCHANGED <<database, connected, jobs, worker, faults>>

\* A webhook, the five-minute cron or the start of a worker adds a job.
Signal ==
    /\ jobs < MaxJobs
    /\ jobs' = jobs + 1
    /\ UNCHANGED <<provider, database, connected, worker, faults>>

Disconnect ==
    /\ connected /\ Fault
    /\ connected' = FALSE
    /\ UNCHANGED <<provider, database, jobs, worker>>

\* A connect transaction that had read the fences before the signal came
\* (GitHubConnection) makes the connection ACTIVE again.
Reconnect ==
    /\ ~connected
    /\ connected' = TRUE
    /\ UNCHANGED <<provider, database, jobs, worker, faults>>

\* The worker the current lease belongs to still works under it.
LeaseInUse == \E w \in Workers :
    worker[w].pc \in {"extract", "record"} /\ worker[w].token = unit.token

\* The lease ends; under a worker that is still at it, that is a fault.
LeaseRunsOut ==
    /\ unit.expires = Live
    /\ unit' = [unit EXCEPT !.expires = Lapsed]
    /\ IF LeaseInUse THEN Fault ELSE UNCHANGED faults
    /\ UNCHANGED <<provider, observations, frontier, evidence, dispositions, completed,
                   connected, jobs, worker>>

RetryDue ==
    /\ unit.next = Live
    /\ unit' = [unit EXCEPT !.next = Lapsed]
    /\ UNCHANGED <<provider, observations, frontier, evidence, dispositions, completed,
                   connected, jobs, worker, faults>>

-------------------------------------------------------------------------------
(* Jobs                                                                    *)

Goes(w, local) == worker' = [worker EXCEPT ![w] = local]

\* A job that throws is retried by the queue, or was at its last retry.
JobFails(w) ==
    /\ Goes(w, Idle)
    /\ jobs' \in {jobs, Min({jobs + 1, MaxJobs})}

JobEnds(w) == Goes(w, Idle) /\ UNCHANGED jobs

\* list_source_ingestion_runtime_targets: an inactive connection is no target.
TakeJob(w) ==
    /\ worker[w].pc = "idle" /\ jobs > 0
    /\ jobs' = jobs - 1
    /\ Goes(w, IF connected THEN [pc |-> "observe"] ELSE Idle)
    /\ UNCHANGED <<provider, database, connected, faults>>

\* A worker process dies, or the shutdown closes its database under it.
Crash(w) ==
    /\ Busy(w) /\ Fault
    /\ JobFails(w)
    /\ UNCHANGED <<provider, database, connected>>

-------------------------------------------------------------------------------
(* observe                                                                 *)

\* A job of the cron or of a start-up goes through every ref of every active
\* source, in no stated order: one before this ref that throws ends the job.
EarlierTargetFails(w) ==
    /\ worker[w].pc = "observe"
    /\ JobFails(w)
    /\ UNCHANGED <<provider, database, connected, faults>>

\* The connection is read and the provider is asked, outside any transaction.
ObserveRef(w) ==
    /\ worker[w].pc = "observe"
    /\ \/ /\ connected
          /\ Goes(w, [pc |-> "schedule", seen |-> head])
          /\ UNCHANGED <<jobs, faults>>
       \/ (connected => Fault) /\ (~connected => UNCHANGED faults) /\ JobFails(w)
    /\ UNCHANGED <<provider, database, connected>>

Current == observations[frontier.observed]

\* MUTANT: the observation is recorded, the processing unit is not advanced.
UpsertedKeeps(n) == unit

\* The processing unit is created or brought forward with the observation.
Upserted(n) == [unit EXCEPT !.desired = n, !.followUp = TRUE]

Observed(version) ==
    LET n == frontier.observed + 1 IN
    /\ observations' = Append(observations, History[version])
    /\ frontier' = [frontier EXCEPT !.observed = n, !.desired = n]
    /\ unit' = Upserted(n)
    /\ UNCHANGED <<evidence, dispositions, completed>>

\* schedule_source_observation: an answer like the newest observation adds none.
Schedule(w) ==
    /\ worker[w].pc = "schedule"
    /\ \/ /\ connected
          /\ IF frontier.observed > 0 /\ Current = History[worker[w].seen]
             THEN UNCHANGED database
             ELSE Observed(worker[w].seen)
          /\ Goes(w, [pc |-> "acquire", passes |-> 0])
          /\ UNCHANGED jobs
       \/ ~connected /\ JobFails(w) /\ UNCHANGED database
    /\ UNCHANGED <<provider, connected, faults>>

-------------------------------------------------------------------------------
(* processNext                                                             *)

RevisionAt(n) == IF n = 0 THEN "REF_DELETED" ELSE observations[n].revision

\* acquire_source_ingestion: the lease and the base are taken in one transaction.
Acquire(w) ==
    /\ worker[w].pc = "acquire"
    /\ \/ /\ CanAcquire(unit, Lapsed) /\ connected
          /\ unit' = Acquired(unit, unit.attempt + 1, Live)
          /\ Goes(w, [pc |-> "extract", passes |-> worker[w].passes,
                      token |-> unit.attempt + 1, seq |-> unit.desired,
                      base |-> RevisionAt(frontier.ingested)])
          /\ UNCHANGED jobs
       \/ CanAcquire(unit, Lapsed) /\ ~connected /\ JobFails(w) /\ UNCHANGED unit
       \/ ~CanAcquire(unit, Lapsed) /\ JobEnds(w) /\ UNCHANGED unit
    /\ UNCHANGED <<provider, observations, frontier, evidence, dispositions, completed,
                   connected, faults>>

\* References an attempt draws up; a renamed file carries the path it had.
Reference(kind, path, previous, blob) ==
    [kind |-> kind, path |-> path, previous |-> previous, blob |-> blob]

\* readTree, then the content policy
TreeReferences(target) ==
    {Reference("FILE", f[1], "", f[2]) : f \in Tree[target] \cap Eligible}

\* The path a file of the target had in the base, if GitHub reports a rename.
RenamedFrom(base, target, f) ==
    {r[3] : r \in {s \in Renames : s[1] = base /\ s[2] = target /\ s[4] = f[1]}}

Changed(base, target) == Tree[target] \ Tree[base]

\* Paths that compare lists as "removed": a rename is listed under its new path.
Removed(base, target) ==
    (PathsOf(Tree[base]) \ PathsOf(Tree[target]))
      \ UNION {RenamedFrom(base, target, f) : f \in Changed(base, target)}

\* MUTANT: a renamed file is recorded without the path it had.
CompareReferencesNoPrevious(base, target) ==
    {Reference("DELETION", p, "", "") : p \in Removed(base, target)}
      \cup {Reference("FILE", f[1], "", f[2]) : f \in Changed(base, target) \cap Eligible}

\* compare, then the path and content policy
CompareReferences(base, target) ==
    {Reference("DELETION", p, "", "") : p \in Removed(base, target)}
      \cup {Reference("FILE", f[1], "", f[2]) :
              f \in {g \in Changed(base, target) \cap Eligible : RenamedFrom(base, target, g) = {}}}
      \cup UNION {{Reference("RENAMED_FILE", f[1], p, f[2]) : p \in RenamedFrom(base, target, f)} :
                    f \in Changed(base, target) \cap Eligible}

\* MUTANT: the limit is met one reference early.
BoundedEarly(references) ==
    IF Cardinality(references) < MaxReferences THEN references
    ELSE CHOOSE s \in SUBSET references : Cardinality(s) = MaxReferences - 1

\* What extractEvidence keeps of the references: beyond the limit each further
\* candidate, a deletion too, is counted as excluded.  GitHub's order decides
\* which; it is the same each time.
Bounded(references) ==
    IF Cardinality(references) <= MaxReferences THEN references
    ELSE CHOOSE s \in SUBSET references : Cardinality(s) = MaxReferences

Extraction(mode, references) == [mode |-> mode, references |-> Bounded(references)]

\* MUTANT: a compare that is not forward, whose file list is empty, is believed.
ExtractionsBelievingCompare(base, target) ==
    IF target = "REF_DELETED" THEN {Extraction("REF_DELETED", {})}
    ELSE IF base = "REF_DELETED" THEN {Extraction("INITIAL_TREE", TreeReferences(target))}
    ELSE {Extraction("INCREMENTAL_COMPARE",
                     IF <<base, target>> \in Ahead THEN CompareReferences(base, target) ELSE {})}

\* extractEvidence: the extractions it may return; a compare that is too large,
\* or not forward, or cannot resolve a path falls back to the tree.
Extractions(base, target) ==
    IF target = "REF_DELETED" THEN {Extraction("REF_DELETED", {})}
    ELSE IF base = "REF_DELETED" THEN {Extraction("INITIAL_TREE", TreeReferences(target))}
    ELSE IF base = target THEN {Extraction("INCREMENTAL_COMPARE", {})}
    ELSE {Extraction("BOUNDED_TREE_FALLBACK", TreeReferences(target))}
           \cup (IF <<base, target>> \in Ahead
                 THEN {Extraction("INCREMENTAL_COMPARE", CompareReferences(base, target))} ELSE {})

Extracted(w, x) ==
    Goes(w, [pc |-> "record", passes |-> worker[w].passes, token |-> worker[w].token,
             seq |-> worker[w].seq, base |-> worker[w].base, mode |-> x.mode,
             todo |-> x.references])

\* The provider fails: the lease is given back if it is still held, the job throws.
ExtractFails(w) ==
    /\ Fault
    /\ unit' = IF CanRetry(unit, worker[w].token, Live, Lapsed)
               THEN Retried(unit, Live) ELSE unit
    /\ JobFails(w)

Extract(w) ==
    /\ worker[w].pc = "extract"
    /\ \/ /\ \E x \in Extractions(worker[w].base, RevisionAt(worker[w].seq)) : Extracted(w, x)
          /\ UNCHANGED <<unit, jobs, faults>>
       \/ RevisionAt(worker[w].seq) # "REF_DELETED" /\ ExtractFails(w)
    /\ UNCHANGED <<provider, observations, frontier, evidence, dispositions, completed, connected>>

\* The worker, its lease and its target still fit the unit.
Leases(w) == HoldsUnit(unit, worker[w].token, Lapsed) /\ unit.target = worker[w].seq

\* The references of an observation, those of lost attempts included.
Recorded(n) == {e.ref : e \in {f \in evidence : f.seq = n}}

\* EVIDENCE_REFERENCE_LIMIT_EXCEEDED is raised for one more than the limit.
Fits(n, r) == r \in Recorded(n) \/ Cardinality(Recorded(n)) < MaxReferences

\* record_evidence_reference: one transaction for each reference; failure throws
\* without a retry call, so the lease stays until it runs out.
RecordReference(w) ==
    /\ worker[w].pc = "record"
    /\ \E r \in worker[w].todo :
          \/ /\ connected /\ Leases(w) /\ Fits(worker[w].seq, r)
             /\ evidence' = evidence \cup {[seq |-> worker[w].seq, ref |-> r]}
             /\ Goes(w, [worker[w] EXCEPT !.todo = @ \ {r}])
             /\ UNCHANGED jobs
          \/ /\ ~(connected /\ Leases(w) /\ Fits(worker[w].seq, r))
             /\ JobFails(w) /\ UNCHANGED evidence
    /\ UNCHANGED <<provider, observations, frontier, unit, dispositions, completed,
                   connected, faults>>

\* The observations this completion passes over.
Skipped(n) == (frontier.ingested + 1)..(n - 1)

\* The references of attempts that were lost on them are dropped.
KeptEvidence(n) == {e \in evidence : e.seq \notin Skipped(n)}

\* MUTANT: each is said to be covered by the next observation, not by this one.
DisposedByNext(n) ==
    dispositions
      \cup {[seq |-> s, value |-> "COALESCED", coveredBy |-> s + 1] : s \in Skipped(n)}
      \cup {[seq |-> n, coveredBy |-> Null,
             value |-> IF RevisionAt(n) = "REF_DELETED" THEN "REF_DELETED" ELSE "INGESTED"]}

Disposed(n) ==
    dispositions
      \cup {[seq |-> s, value |-> "COALESCED", coveredBy |-> n] : s \in Skipped(n)}
      \cup {[seq |-> n, coveredBy |-> Null,
             value |-> IF RevisionAt(n) = "REF_DELETED" THEN "REF_DELETED" ELSE "INGESTED"]}

\* SOURCE_INGESTION_FRONTIER_GAP is raised unless the range is disposed of exactly.
NoGap(n) ==
    Cardinality({d \in Disposed(n) : d.seq \in (frontier.ingested + 1)..n})
      = n - frontier.ingested

\* The loop of executeSourceIngestionSignal after a processed pass: again, or
\* done, or out of passes and the work is handed to a recovery job, which the
\* queue drops when one was sent within the last minute.
NextPass(w, followUp) ==
    LET passes == worker[w].passes + 1 IN
    IF followUp /\ passes < MaxPasses
    THEN Goes(w, [pc |-> "acquire", passes |-> passes]) /\ UNCHANGED jobs
    ELSE /\ Goes(w, Idle)
         /\ jobs' \in {jobs, IF followUp THEN Min({jobs + 1, MaxJobs}) ELSE jobs}

\* complete_source_ingestion, one transaction.
CompleteAccepted(w) ==
    LET n == worker[w].seq IN
    /\ connected /\ Leases(w) /\ NoGap(n)
    /\ CanComplete(unit, worker[w].token, n, Lapsed)
    /\ evidence' = KeptEvidence(n)
    /\ dispositions' = Disposed(n)
    /\ frontier' = [frontier EXCEPT !.ingested = n]
    /\ unit' = Completed(unit, n)
    /\ completed' = completed
          \cup {[seq |-> n, mode |-> worker[w].mode, count |-> Cardinality(Recorded(n))]}
    /\ NextPass(w, unit.desired > n)

Complete(w) ==
    /\ worker[w].pc = "record" /\ worker[w].todo = {}
    /\ \/ CompleteAccepted(w)
       \/ /\ ~(connected /\ Leases(w) /\ NoGap(worker[w].seq))
          /\ JobFails(w)
          /\ UNCHANGED <<frontier, unit, evidence, dispositions, completed>>
    /\ UNCHANGED <<provider, observations, connected, faults>>

-------------------------------------------------------------------------------

Step(w) ==
    \/ TakeJob(w) \/ EarlierTargetFails(w) \/ ObserveRef(w) \/ Schedule(w) \/ Acquire(w)
    \/ Extract(w) \/ RecordReference(w) \/ Complete(w)

Next ==
    \/ Push \/ Signal \/ Disconnect \/ Reconnect \/ LeaseRunsOut \/ RetryDue
    \/ \E w \in Workers : Step(w) \/ Crash(w)

Spec == Init /\ [][Next]_vars

\* Workers run, the cron fires, clocks advance.  Nobody promises a push, a
\* reconnection, or any fault.
Fairness ==
    /\ \A w \in Workers : WF_vars(Step(w))
    /\ WF_vars(Signal) /\ WF_vars(LeaseRunsOut) /\ WF_vars(RetryDue)

FairSpec == Spec /\ Fairness

-------------------------------------------------------------------------------
(* Properties                                                              *)

Files == UNION {Tree[r] : r \in Revisions}
References == [kind : {"FILE", "RENAMED_FILE", "DELETION"}, path : PathsOf(Files),
               previous : PathsOf(Files) \cup {""}, blob : {f[2] : f \in Files} \cup {""}]

Extracting == [pc : {"extract"}, passes : Nat, token : Nat, seq : Nat,
               base : Revisions \cup {"REF_DELETED"}]
Recording == [pc : {"record"}, passes : Nat, token : Nat, seq : Nat,
              base : Revisions \cup {"REF_DELETED"}, mode : Modes,
              todo : SUBSET References]

TypeOK ==
    /\ History \in Histories /\ head \in DOMAIN History
    /\ observations \in Seq(Answers)
    /\ frontier \in [observed : Nat, desired : Nat, ingested : Nat]
    /\ unit \in Units
    /\ \A e \in evidence : e.seq \in Nat /\ e.ref \in References
    /\ dispositions \subseteq [seq : Nat, coveredBy : Nat \cup {Null},
                               value : {"INGESTED", "COALESCED", "REF_DELETED"}]
    /\ completed \subseteq [seq : Nat, mode : Modes, count : 0..MaxReferences]
    /\ connected \in BOOLEAN
    /\ jobs \in 0..MaxJobs
    /\ faults \in 0..MaxFaults
    /\ \A w \in Workers :
          \/ worker[w] \in [pc : {"idle", "observe"}]
          \/ worker[w] \in [pc : {"schedule"}, seen : DOMAIN History]
          \/ worker[w] \in [pc : {"acquire"}, passes : 0..MaxPasses]
          \/ worker[w] \in Extracting
          \/ worker[w].pc = "record" /\ worker[w].todo \subseteq References

\* The three records of progress, written by different functions, agree: the
\* frontier row, the processing unit, and the dispositions, which cover exactly
\* the ingested prefix.
ProgressAgrees ==
    /\ frontier.observed = Len(observations)
    /\ frontier.desired = frontier.observed /\ unit.desired = frontier.desired
    /\ unit.processed = frontier.ingested
    /\ Constraints(unit)
    /\ {d.seq : d \in dispositions} = 1..frontier.ingested
    /\ Cardinality(dispositions) = frontier.ingested

\* A coalesced observation is subsumed by a later one that was itself ingested,
\* and that one is the first non-coalesced one after it: no gap is hidden
\* behind a completion that skipped further (challenge F2).
CoalescedIntoIngested ==
    \A d \in dispositions : d.value = "COALESCED" =>
        /\ \E c \in dispositions : c.seq = d.coveredBy /\ c.value # "COALESCED"
        /\ \A c \in dispositions : d.seq < c.seq /\ c.seq < d.coveredBy => c.value = "COALESCED"
        /\ d.seq < d.coveredBy

\* The last completion, up to the frontier, that walked the whole tree.
LastFull ==
    Max({0} \cup {c.seq : c \in {x \in completed : x.mode # "INCREMENTAL_COMPARE"}})

Touches(e, path) == e.ref.path = path \/ e.ref.previous = path

\* What the evidence of the ingested observations says the ref contains: the
\* latest reference to each path since the last full walk.
View ==
    {<<e.ref.path, e.ref.blob>> :
        e \in {f \in evidence :
                 /\ f.ref.kind # "DELETION"
                 /\ LastFull <= f.seq /\ f.seq <= frontier.ingested
                 /\ \A g \in evidence :
                      f.seq < g.seq /\ g.seq <= frontier.ingested => ~Touches(g, f.ref.path)}}

\* Paths that went away by a rename into a file the policy excludes.
RenamedAway ==
    {r[3] : r \in {s \in Renames : \E f \in Tree[s[2]] \ Eligible : f[1] = s[4]}}

Served(n) == IF RevisionAt(n) = "REF_DELETED" THEN {} ELSE Tree[RevisionAt(n)]

\* The audit events since the last full walk all report fewer references than the
\* limit: nothing the ingested revision rests on was cut.
NothingCut == \A c \in completed : LastFull <= c.seq => c.count < MaxReferences

\* Whatever mixture of full walks, compares, lost attempts, takeovers and
\* coalescing led to the ingested frontier, an extraction that was cut is told by
\* the counts of the audit events: without one, the evidence shows every eligible
\* file of the ingested revision and no path the revision lacks, but for paths
\* whose file was renamed into one the policy excludes: a compare does not
\* mention those.
EvidenceCoversTree ==
    NothingCut =>
      /\ Served(frontier.ingested) \cap Eligible \subseteq View
      /\ PathsOf(View) \subseteq PathsOf(Served(frontier.ingested)) \cup RenamedAway

\* What the frontier has ingested in the end is what the ref points to in the end.
Converged ==
    /\ frontier.ingested > 0 /\ frontier.ingested = frontier.desired
    /\ RevisionAt(frontier.ingested) = History[head].revision

\* As long as the connection stays and the targets before this ref in a job fail
\* no more, the frontier converges, whatever signals were lost or reordered and
\* whatever faults happened before (S9C-FR-011, challenge F7).
Converges ==
    <>[]connected /\ <>[][\A w \in Workers : ~EarlierTargetFails(w)]_vars => <>[]Converged
===============================================================================
