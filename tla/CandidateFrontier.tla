------------------------- MODULE CandidateFrontier -------------------------
(***************************************************************************)
(* The candidate frontier of a project (migration 002): submissions are    *)
(* accepted in the order of their sequence, dispositions make them stable  *)
(* in any order, and triggers keep one row that says how far the project   *)
(* has accepted and through which sequence everything is stable.           *)
(*                                                                         *)
(* Transactions are READ COMMITTED and hold any number of statements.  An  *)
(* insert and the triggers after it are two steps: the trigger waits for   *)
(* the frontier row, and each of its statements sees what was committed    *)
(* when it begins and what its own transaction wrote.                      *)
(***************************************************************************)
EXTENDS Integers, FiniteSetsExt

CONSTANTS Workers,         \* transactions at a time
          MaxSubmissions   \* bound: submissions

ASSUME CandidateFrontierAssumption == MaxSubmissions \in Nat

VARIABLES submitted,  \* candidate_submissions: the sequences committed
          stable,     \* candidate_stable_dispositions: the sequences committed
          frontier,   \* candidate_frontier_states, as committed
          tx          \* the transaction of each worker

frontierVars == <<submitted, stable, frontier, tx>>

Sequences == 1..MaxSubmissions

Frontiers == [accepted : 0..MaxSubmissions, reconciled : 0..MaxSubmissions]

\* Nothing written, no trigger due, and the frontier row not held.
Idle == [pc |-> "OPEN", row |-> 0, submitted |-> {}, stable |-> {}, locked |-> FALSE,
         frontier |-> [accepted |-> 0, reconciled |-> 0]]

\* The columns keep their types; one transaction at most holds the frontier.
FrontierTypeOK ==
    /\ submitted \subseteq Sequences /\ stable \subseteq submitted
    /\ frontier \in Frontiers
    /\ tx \in [Workers -> [pc : {"OPEN", "ACCEPT", "REFRESH"}, row : 0..MaxSubmissions,
                           submitted : SUBSET Sequences, stable : SUBSET Sequences,
                           locked : BOOLEAN, frontier : Frontiers]]
    /\ \A v, w \in Workers : tx[v].locked /\ tx[w].locked => v = w

FrontierInit ==
    /\ submitted = {} /\ stable = {}
    /\ frontier = [accepted |-> 0, reconciled |-> 0]
    /\ tx = [w \in Workers |-> Idle]

-------------------------------------------------------------------------------

\* MUTANT: the row is read without a lock.
RowUnlocked(w) == TRUE

\* Whoever wrote to the row holds it to the end of the transaction.
RowFree(w) == \A v \in Workers \ {w} : ~tx[v].locked

\* The row as the transaction of w finds it once it has the lock.
FrontierOf(w) == IF tx[w].locked THEN tx[w].frontier ELSE frontier

\* What a statement of w sees; the row it just inserted is there for triggers.
SeesSubmitted(w) == submitted \cup tx[w].submitted
SeesStable(w) == stable \cup tx[w].stable

\* Unique keys: a row of a transaction in progress is waited for.
NobodyInserts(w, pc, n) == \A v \in Workers \ {w} : ~(tx[v].pc = pc /\ tx[v].row = n)

\* An insert of a submission; the caller chooses its sequence.
Submit(w, n) ==
    /\ tx[w].pc = "OPEN" /\ n \notin SeesSubmitted(w)
    /\ NobodyInserts(w, "ACCEPT", n) /\ \A v \in Workers : n \notin tx[v].submitted
    /\ tx' = [tx EXCEPT ![w].pc = "ACCEPT", ![w].row = n]
    /\ UNCHANGED <<submitted, stable, frontier>>

\* An insert of a disposition; the foreign key wants to see its submission.
Dispose(w, n) ==
    /\ tx[w].pc = "OPEN" /\ n \in SeesSubmitted(w) \ SeesStable(w)
    /\ NobodyInserts(w, "REFRESH", n) /\ \A v \in Workers : n \notin tx[v].stable
    /\ tx' = [tx EXCEPT ![w].pc = "REFRESH", ![w].row = n]
    /\ UNCHANGED <<submitted, stable, frontier>>

\* advance_candidate_accepted_frontier: any sequence but the next is refused.
AdvanceAccepted(w) ==
    /\ tx[w].pc = "ACCEPT" /\ RowFree(w)
    /\ tx[w].row = FrontierOf(w).accepted + 1
    /\ tx' = [tx EXCEPT ![w] = [tx[w] EXCEPT
                  !.pc = "OPEN", !.row = 0, !.locked = TRUE,
                  !.submitted = tx[w].submitted \cup {tx[w].row},
                  !.frontier = [FrontierOf(w) EXCEPT !.accepted = tx[w].row]]]
    /\ UNCHANGED <<submitted, stable, frontier>>

\* MUTANT: the last sequence that is stable, whatever lies before it.
LastStable(f, seen, disposed) == Max({f.reconciled} \cup (disposed \cap 1..f.accepted))

\* Before the first submission that is not stable.
Watermark(f, seen, disposed) ==
    LET unstable == {n \in seen \ disposed : f.reconciled < n /\ n <= f.accepted} IN
    IF unstable = {} THEN f.accepted ELSE Min(unstable) - 1

\* refresh_candidate_reconciled_frontier, after a disposition or on its own.
Refresh(w) ==
    LET inserted == {tx[w].row} \ {0}
        f == FrontierOf(w)
        next == Watermark(f, SeesSubmitted(w), SeesStable(w) \cup inserted) IN
    /\ tx[w].pc \in {"OPEN", "REFRESH"} /\ RowFree(w)
    /\ tx' = [tx EXCEPT ![w] = [tx[w] EXCEPT
                  !.pc = "OPEN", !.row = 0, !.locked = TRUE,
                  !.stable = tx[w].stable \cup inserted,
                  !.frontier = [f EXCEPT
                      !.reconciled = IF next > f.reconciled THEN next ELSE f.reconciled]]]
    /\ UNCHANGED <<submitted, stable, frontier>>

\* MUTANT: neither submissions nor dispositions are counted.
GuardForward(w, to) ==
    /\ FrontierOf(w).accepted <= to.accepted /\ FrontierOf(w).reconciled <= to.reconciled

\* guard_candidate_frontier_update: neither backwards nor past what is missing.
Guard(w, to) ==
    /\ FrontierOf(w).accepted <= to.accepted /\ FrontierOf(w).reconciled <= to.reconciled
    /\ Cardinality(SeesSubmitted(w) \cap (FrontierOf(w).accepted + 1)..to.accepted)
         = to.accepted - FrontierOf(w).accepted
    /\ Cardinality(SeesStable(w) \cap (FrontierOf(w).reconciled + 1)..to.reconciled)
         = to.reconciled - FrontierOf(w).reconciled

\* A direct update of the row.
Update(w, to) ==
    /\ tx[w].pc = "OPEN" /\ RowFree(w)
    /\ to.reconciled <= to.accepted /\ Guard(w, to)
    /\ tx' = [tx EXCEPT ![w].locked = TRUE, ![w].frontier = to]
    /\ UNCHANGED <<submitted, stable, frontier>>

Commit(w) ==
    /\ tx[w].pc = "OPEN" /\ tx[w] # Idle
    /\ submitted' = SeesSubmitted(w)
    /\ stable' = SeesStable(w)
    /\ frontier' = FrontierOf(w)
    /\ tx' = [tx EXCEPT ![w] = Idle]

\* An exception, a deadlock, a crash.
Rollback(w) ==
    /\ tx[w] # Idle
    /\ tx' = [tx EXCEPT ![w] = Idle]
    /\ UNCHANGED <<submitted, stable, frontier>>

FrontierNext ==
    \E w \in Workers :
        \/ \E n \in Sequences : Submit(w, n) \/ Dispose(w, n)
        \/ AdvanceAccepted(w) \/ Refresh(w)
        \/ \E to \in Frontiers : Update(w, to)
        \/ Commit(w) \/ Rollback(w)

FrontierSpec == FrontierInit /\ [][FrontierNext]_frontierVars

-------------------------------------------------------------------------------

\* What is accepted has no gap, and the watermark is exact: everything through
\* it is stable and the next one is not.  Dispositions that are inserted at the
\* same time, neither of which sees the other, must not leave it behind, and no
\* update of the row, however it is made, gets past a gap.
WatermarkExact ==
    /\ submitted = 1..frontier.accepted
    /\ frontier.reconciled <= frontier.accepted
    /\ 1..frontier.reconciled \subseteq stable
    /\ frontier.reconciled + 1 \notin stable
===============================================================================
