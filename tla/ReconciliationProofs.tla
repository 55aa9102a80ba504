------------------------ MODULE ReconciliationProofs ------------------------
(***************************************************************************)
(* The histories of conflicts and uncertainties are single lines, what     *)
(* reconciliation projects follows its records, and what it decides rests  *)
(* on the facts of that moment, for any number of workers, identities,     *)
(* candidates and claims.                                                  *)
(*                                                                         *)
(* A basis carries the sum of the versions of an identity's conflicts and  *)
(* uncertainties.  That sums grow with their members is shown by induction *)
(* on the number of members: the least counterexample is picked, since the *)
(* numbers are well ordered, and has a smaller one.                        *)
(***************************************************************************)
EXTENDS Reconciliation, FiniteSetTheorems, WellFoundedInduction, TLAPS

\* h is a sequence of length N, whatever is in it.
Sequence(h, N) == N = Len(h) /\ \E S : h \in Seq(S)

\* g is h and then e.
Extends(g, h, N, e) ==
    /\ Sequence(g, N + 1) /\ g[N + 1] = e
    /\ \A n \in 1..N : g[n] = h[n]

\* A sequence has a length, and the indices up to it.
LEMMA Indices == ASSUME NEW h, NEW N, Sequence(h, N) PROVE N \in Nat /\ DOMAIN h = 1..N
  BY SMT DEF Sequence

\* What Append does to a sequence.
LEMMA Appended ==
    ASSUME NEW h, NEW N, Sequence(h, N), NEW e, NEW g, g = Append(h, e)
    PROVE  Extends(g, h, N, e)
<1>1. PICK T : h \in Seq(T) /\ N = Len(h)
  BY Zenon DEF Sequence
<1>2. PICK S : S = T \cup {e}
  OBVIOUS
<1>3. h \in Seq(S) /\ e \in S
  BY <1>1, <1>2, SMT
<1>4. /\ g \in Seq(S) /\ Len(g) = N + 1 /\ g[N + 1] = e
      /\ \A n \in 1..N : g[n] = h[n]
  BY <1>1, <1>3, SMT
<1> QED  BY <1>4, Zenon DEF Extends, Sequence

-------------------------------------------------------------------------------
(* The invariant                                                           *)

\* An occurrence h[n] fits the one before it.
Fits(h, n) ==
    /\ h[n] = [state |-> h[n].state, content |-> h[n].content]
    /\ h[n].state \in {"ACTIVE", "ENDED"}
    /\ h[n].state = "ENDED" => n > 1 /\ h[n - 1] = [state |-> "ACTIVE", content |-> h[n].content]
    /\ h[n].state = "ACTIVE" /\ n > 1 => h[n - 1] # h[n]

\* A row and its history.
HistoryOK(r) ==
    /\ Sequence(r.history, r.version)
    /\ r.state = IF r.version = 0 THEN "NONE" ELSE r.history[r.version].state
    /\ \A n \in 1..r.version : Fits(r.history, n)

Histories ==
    /\ integrity = [s \in Subjects |-> integrity[s]]
    /\ \A s \in Subjects : HistoryOK(integrity[s])

\* The number of records.
N0 == Len(records)

Of(c) == {n \in 1..N0 : records[n].candidate = c}
Changing(c) == {n \in Of(c) : records[n].result.class # "UNCHANGED"}

\* n is the last of the indices in S, or 0 where there is none.
LastIn(n, S) == IF S = {} THEN n = 0 ELSE n \in S /\ \A m \in S : n >= m

Projected(c) ==
    /\ LastIn(current[c], Of(c))
    /\ IF Changing(c) = {} THEN item[c].trust # "RECONCILED"
       ELSE \E n \in Changing(c) :
                /\ \A m \in Changing(c) : n >= m
                /\ item[c].trust = "RECONCILED" /\ item[c].claim = records[n].result.claim

Projections ==
    /\ Sequence(records, N0)
    /\ current = [c \in Candidates |-> current[c]] /\ item = [c \in Candidates |-> item[c]]
    /\ \A c \in Candidates : Projected(c)

\* A call that is made is made for a candidate.
CallOK(k) == "candidate" \in DOMAIN k /\ (k.pc # "IDLE" => k.candidate \in Candidates)

Calls ==
    /\ call = [w \in Workers |-> call[w]]
    /\ \A w \in Workers : CallOK(call[w])

Inv == Histories /\ Projections /\ Calls

-------------------------------------------------------------------------------
(* Histories                                                               *)

\* One more occurrence that fits.
LEMMA OccurKeeps ==
    ASSUME Histories, NEW s \in Subjects, NEW e, Occur(s, e),
           e = [state |-> e.state, content |-> e.content], e.state \in {"ACTIVE", "ENDED"},
           e.state = "ENDED" => integrity[s].state = "ACTIVE" /\ e.content = LastOf(s).content,
           e.state = "ACTIVE" /\ integrity[s].state = "ACTIVE" => LastOf(s).content # e.content
    PROVE  Histories'
<1>1. PICK r, h, N : r = integrity[s] /\ h = r.history /\ N = r.version
  OBVIOUS
<1>2. HistoryOK(r) /\ Sequence(h, N) /\ N \in Nat
  <2>1. HistoryOK(r) /\ Sequence(h, N)
    BY <1>1, Zenon DEF Histories, HistoryOK
  <2> QED  BY <2>1, Indices, Zenon
<1>3. PICK g : g = Append(h, e)
  OBVIOUS
<1>4. Sequence(g, N + 1) /\ g[N + 1] = e /\ \A n \in 1..N : g[n] = h[n]
  <2>1. Extends(g, h, N, e)
    BY <1>2, <1>3, Appended, Zenon
  <2> QED  BY <2>1, Zenon DEF Extends
<1>5. PICK new : new = [version |-> N + 1, state |-> e.state, history |-> g]
  OBVIOUS
<1>6. integrity' = [integrity EXCEPT ![s] = new]
  BY <1>1, <1>3, <1>5, Zenon DEF Occur
<1>7. new.version = N + 1 /\ new.state = e.state /\ new.history = g
  BY <1>5, Zenon
<1>8. LastOf(s) = h[N]
  BY <1>1, Zenon DEF LastOf
<1>9. /\ integrity[s].state = r.state
      /\ r.state = IF N = 0 THEN "NONE" ELSE h[N].state
      /\ \A n \in 1..N : Fits(h, n)
  BY <1>1, <1>2, Zenon DEF HistoryOK
<1>10. ASSUME NEW n \in 1..N PROVE Fits(g, n)
  <2>1. g[n] = h[n] /\ (n > 1 => g[n - 1] = h[n - 1])
    <3>1. n > 1 => n - 1 \in 1..N
      BY <1>2, SMT
    <3> QED  BY <3>1, <1>4, Zenon
  <2>2. Fits(h, n)
    BY <1>9, Zenon
  <2> QED  BY <2>1, <2>2, Zenon DEF Fits
<1>11. Fits(g, N + 1)
  <2>1. g[N + 1] = e /\ (N > 0 => g[(N + 1) - 1] = h[N] /\ N \in 1..N) /\ (N + 1 > 1 <=> N > 0)
    <3>1. (N > 0 => N \in 1..N) /\ (N + 1) - 1 = N /\ (N + 1 > 1 <=> N > 0)
      BY <1>2, SMT
    <3> QED  BY <3>1, <1>4, Zenon
  <2>2. CASE e.state = "ENDED"
    <3>1. r.state = "ACTIVE" /\ e.content = h[N].content
      BY <2>2, <1>8, <1>9, Zenon
    <3>2. N # 0 /\ h[N].state = "ACTIVE"
      BY <3>1, <1>9, SMT
    <3>3. N > 0
      BY <3>2, <1>2, SMT
    <3>4. h[N] = [state |-> "ACTIVE", content |-> e.content]
      BY <3>1, <3>2, <3>3, <2>1, <1>9, Zenon DEF Fits
    <3> QED  BY <3>3, <3>4, <2>1, <2>2, Zenon DEF Fits
  <2>3. CASE e.state = "ACTIVE"
    <3>1. ASSUME N > 0 PROVE h[N] # e
      <4>1. N # 0
        BY <3>1, <1>2, SMT
      <4>2. r.state = h[N].state
        BY <4>1, <1>9, Zenon
      <4>3. CASE r.state = "ACTIVE"
        BY <4>3, <2>3, <1>8, <1>9, Zenon
      <4>4. CASE r.state # "ACTIVE"
        BY <4>2, <4>4, <2>3, Zenon
      <4> QED  BY <4>3, <4>4
    <3> QED  BY <3>1, <2>1, <2>3, SMT DEF Fits
  <2> QED  BY <2>2, <2>3
<1>12. HistoryOK(new)
  <2>1. \A n \in 1..(N + 1) : n \in 1..N \/ n = N + 1
    BY <1>2, SMT
  <2>2. N + 1 # 0
    BY <1>2, SMT
  <2> QED  BY <2>1, <2>2, <1>4, <1>7, <1>10, <1>11, Zenon DEF HistoryOK
<1>13. integrity = [q \in Subjects |-> integrity[q]]
  BY Zenon DEF Histories
<1>14. \A q \in Subjects : integrity'[q] = IF q = s THEN new ELSE integrity[q]
  BY <1>6, <1>13, Zenon
<1>15. integrity' = [q \in Subjects |-> integrity'[q]]
  BY <1>6, <1>13, Zenon
<1>16. PICK I : I = integrity'
  OBVIOUS
<1>17. \A q \in Subjects : HistoryOK(I[q])
  BY <1>12, <1>14, <1>16, Zenon DEF Histories
<1> QED  BY <1>15, <1>16, <1>17, Zenon DEF Histories, HistoryOK

\* ACTIVE for the first time, changed, or again.
LEMMA EstablishKeeps ==
    ASSUME Histories, NEW s \in Subjects, NEW contents, Establish(s, contents) PROVE Histories'
<1>1. PICK content \in contents :
          /\ integrity[s].state = "ACTIVE" => LastOf(s).content # content
          /\ Occur(s, [state |-> "ACTIVE", content |-> content])
  BY Zenon DEF Establish
<1>2. PICK e : e = [state |-> "ACTIVE", content |-> content]
  OBVIOUS
<1>3. /\ e.state = "ACTIVE" /\ e.content = content /\ e = [state |-> e.state, content |-> e.content]
      /\ Occur(s, e)
  BY <1>1, <1>2, Zenon
<1> QED  BY <1>1, <1>3, OccurKeeps, Zenon

\* ENDED, with what was in the last occurrence.
LEMMA EndKeeps == ASSUME Histories, NEW s \in Subjects, End(s) PROVE Histories'
<1>1. PICK c : c = LastOf(s).content
  OBVIOUS
<1>2. integrity[s].state = "ACTIVE" /\ Occur(s, [state |-> "ENDED", content |-> c])
  BY <1>1, Zenon DEF End
<1>3. PICK e : e = [state |-> "ENDED", content |-> c]
  OBVIOUS
<1>4. /\ e.state = "ENDED" /\ e.content = c /\ e = [state |-> e.state, content |-> e.content]
      /\ Occur(s, e)
  BY <1>2, <1>3, Zenon
<1> QED  BY <1>1, <1>2, <1>4, OccurKeeps, Zenon

-------------------------------------------------------------------------------
(* Projections                                                             *)

\* A decision on c becomes its current one and, unless nothing changed, goes
\* into its Working item; those on other candidates stay as they are.
LEMMA CommitKeeps ==
    ASSUME Projections, Calls, NEW w \in Workers, Commit(w)
    PROVE  Projections'
<1>1. PICK c, result, basis :
          c = call[w].candidate /\ result = call[w].result /\ basis = call[w].basis
  OBVIOUS
<1>2. PICK N : N = N0
  OBVIOUS
<1>3. PICK row : row = [candidate |-> c, basis |-> basis, result |-> result]
  OBVIOUS
<1>4. row.candidate = c /\ row.result = result
  BY <1>3, Zenon
<1>5. /\ call[w].pc = "COMMIT" /\ item' = Reconciled(c, result)
      /\ records' = Append(records, row) /\ current' = [current EXCEPT ![c] = Len(records')]
  BY <1>1, <1>3, Zenon DEF Commit
<1>6. c \in Candidates
  <2>1. CallOK(call[w]) /\ call[w].pc # "IDLE"
    BY <1>5, Zenon DEF Calls
  <2> QED  BY <1>1, <2>1, Zenon DEF CallOK
<1>7. Sequence(records, N) /\ N \in Nat
  <2>1. Sequence(records, N)
    BY <1>2, Zenon DEF Projections
  <2> QED  BY <2>1, Indices, Zenon
<1>8. PICK R : R = records'
  OBVIOUS
<1>9. /\ Len(R) = N + 1 /\ Sequence(R, N + 1) /\ R[N + 1] = row
      /\ \A n \in 1..N : R[n] = records[n]
  <2>1. PICK old : old = records
    OBVIOUS
  <2>2. Sequence(old, N) /\ R = Append(old, row)
    BY <1>5, <1>7, <1>8, <2>1, Zenon
  <2>3. Extends(R, old, N, row)
    BY <2>2, Appended, Zenon
  <2> QED  BY <2>1, <2>3, Zenon DEF Extends, Sequence
<1>10. N0' = N + 1
  BY <1>8, <1>9, Zenon DEF N0
<1>11. Sequence(records, N0)'
  BY <1>8, <1>9, <1>10, Zenon DEF Sequence
<1>12. current = [d \in Candidates |-> current[d]] /\ item = [d \in Candidates |-> item[d]]
  BY Zenon DEF Projections
<1>13. \A d \in Candidates : current'[d] = IF d = c THEN N + 1 ELSE current[d]
  BY <1>5, <1>6, <1>8, <1>9, <1>12, Zenon
<1>14. current' = [d \in Candidates |-> current'[d]]
  BY <1>5, <1>12, Zenon
<1>15. /\ item' = [d \in Candidates |-> item'[d]]
       /\ \A d \in Candidates : d # c \/ result.class = "UNCHANGED" => item'[d] = item[d]
       /\ result.class # "UNCHANGED" => item'[c].trust = "RECONCILED" /\ item'[c].claim = result.claim
  <2>1. CASE result.class = "UNCHANGED"
    BY <2>1, <1>5, <1>12, Zenon DEF Reconciled
  <2>2. CASE result.class # "UNCHANGED"
    <3>1. PICK new : new = [trust |-> "RECONCILED", claim |-> result.claim, at |-> clock']
      OBVIOUS
    <3>2. new.trust = "RECONCILED" /\ new.claim = result.claim
      BY <3>1, Zenon
    <3>3. item' = [item EXCEPT ![c] = new]
      BY <2>2, <3>1, <1>5, Zenon DEF Reconciled, Worked
    <3> QED  BY <2>2, <3>2, <3>3, <1>6, <1>12, Zenon
  <2> QED  BY <2>1, <2>2
<1>16. \A n \in 1..(N + 1) : n \in 1..N \/ n = N + 1
  BY <1>7, SMT
<1>17. N + 1 \in 1..(N + 1) /\ \A n \in 1..N : n \in 1..(N + 1) /\ N + 1 >= n /\ n # N + 1
  BY <1>7, SMT
<1>18. N + 1 >= N + 1 /\ N + 1 # 0
  BY <1>7, SMT
<1>19. ASSUME NEW d
       PROVE  /\ Of(d)' = Of(d) \cup (IF d = c THEN {N + 1} ELSE {})
              /\ Changing(d)' = Changing(d) \cup (IF d = c /\ result.class # "UNCHANGED" THEN {N + 1} ELSE {})
  <2>1. /\ Of(d)' = {n \in 1..(N + 1) : R[n].candidate = d}
        /\ Changing(d)' = {n \in {m \in 1..(N + 1) : R[m].candidate = d} : R[n].result.class # "UNCHANGED"}
    BY <1>8, <1>10, Zenon DEF Of, Changing
  <2>2. /\ Of(d) = {n \in 1..N : records[n].candidate = d}
        /\ Changing(d) = {n \in {m \in 1..N : records[m].candidate = d} : records[n].result.class # "UNCHANGED"}
    BY <1>2, Zenon DEF Of, Changing
  <2>3. Of(d)' = Of(d) \cup (IF d = c THEN {N + 1} ELSE {})
    BY <2>1, <2>2, <1>4, <1>9, <1>16, <1>17, Zenon
  <2>4. Changing(d)' = Changing(d) \cup (IF d = c /\ result.class # "UNCHANGED" THEN {N + 1} ELSE {})
    BY <2>1, <2>2, <1>4, <1>9, <1>16, <1>17, Zenon
  <2> QED  BY <2>3, <2>4
<1>20. \A d, n : n \in Of(d) => n \in 1..N
  BY <1>2, Zenon DEF Of
<1>21. \A d, n : n \in Changing(d) => n \in 1..N
  BY <1>2, Zenon DEF Of, Changing
<1>22. ASSUME NEW d \in Candidates PROVE Projected(d)'
  <2>1. Projected(d)
    BY Zenon DEF Projections
  <2>2. PICK A, B, A1, B1 : A = Of(d) /\ B = Changing(d) /\ A1 = Of(d)' /\ B1 = Changing(d)'
    OBVIOUS
  <2>3. PICK cur, it : cur = current'[d] /\ it = item'[d]
    OBVIOUS
  <2>4. LastIn(cur, A1)
    <3>1. CASE d = c
      BY <3>1, <2>2, <2>3, <1>13, <1>17, <1>18, <1>19, <1>20, Zenon DEF LastIn
    <3>2. CASE d # c
      BY <3>2, <2>1, <2>2, <2>3, <1>13, <1>19, Zenon DEF LastIn, Projected
    <3> QED  BY <3>1, <3>2
  <2>5. IF B1 = {} THEN it.trust # "RECONCILED"
        ELSE \E n \in B1 : /\ \A m \in B1 : n >= m
                           /\ it.trust = "RECONCILED" /\ it.claim = R[n].result.claim
    <3>1. CASE d = c /\ result.class # "UNCHANGED"
      <4>1. N + 1 \in B1 /\ \A m \in B1 : N + 1 >= m
        BY <3>1, <2>2, <1>17, <1>18, <1>19, <1>21, Zenon
      <4>2. it.trust = "RECONCILED" /\ it.claim = R[N + 1].result.claim
        BY <3>1, <2>3, <1>4, <1>9, <1>15, Zenon
      <4> QED  BY <4>1, <4>2, Zenon
    <3>2. CASE d # c \/ result.class = "UNCHANGED"
      <4>1. B1 = B /\ it = item[d]
        BY <3>2, <2>2, <2>3, <1>15, <1>19, Zenon
      <4>2. \A n \in B : R[n] = records[n]
        BY <2>2, <1>9, <1>21, Zenon
      <4> QED  BY <4>1, <4>2, <2>1, <2>2, Zenon DEF Projected
    <3> QED  BY <3>1, <3>2
  <2> QED  BY <2>2, <2>3, <2>4, <2>5, <1>8, Zenon DEF Projected, LastIn
<1> QED  BY <1>11, <1>12, <1>14, <1>15, <1>22, Zenon DEF Projections

\* A new item is pending, and its candidate had no decision.
LEMMA IntakeKeeps ==
    ASSUME Projections, NEW c \in Candidates, Intake(c), UNCHANGED <<records, current>>
    PROVE  Projections'
<1>1. PICK new : new = [trust |-> "PENDING", claim |-> Claim[c], at |-> clock']
  OBVIOUS
<1>2. item[c].trust = "NONE" /\ item' = [item EXCEPT ![c] = new] /\ new.trust = "PENDING"
  <2>1. item[c] = NoItem /\ NoItem.trust = "NONE"
    BY Zenon DEF Intake, NoItem
  <2>2. item' = [item EXCEPT ![c] = new]
    BY <1>1, Zenon DEF Intake
  <2>3. new.trust = "PENDING"
    BY <1>1, Zenon
  <2> QED  BY <2>1, <2>2, <2>3, Zenon
<1>3. item = [d \in Candidates |-> item[d]]
  BY Zenon DEF Projections
<1>4. \A d \in Candidates : item'[d] = IF d = c THEN new ELSE item[d]
  BY <1>2, <1>3, Zenon
<1>5. item' = [d \in Candidates |-> item'[d]]
  BY <1>2, <1>3, Zenon
<1>6. N0' = N0
  BY Zenon DEF N0
<1>7. ASSUME NEW d PROVE Of(d)' = Of(d) /\ Changing(d)' = Changing(d)
  BY <1>6, Zenon DEF Of, Changing
<1>8. ASSUME NEW d \in Candidates PROVE Projected(d)'
  <2>1. Projected(d)
    BY Zenon DEF Projections
  <2>2. PICK A, B : A = Of(d) /\ B = Changing(d)
    OBVIOUS
  <2>3. PICK it : it = item'[d]
    OBVIOUS
  <2>4. IF B = {} THEN it.trust # "RECONCILED"
        ELSE \E n \in B : /\ \A m \in B : n >= m
                          /\ it.trust = "RECONCILED" /\ it.claim = records[n].result.claim
    <3>1. CASE d = c
      <4>1. B = {}
        BY <3>1, <2>1, <2>2, <1>2, Zenon DEF Projected
      <4> QED  BY <3>1, <4>1, <2>3, <1>2, <1>4, Zenon
    <3>2. CASE d # c
      BY <3>2, <2>1, <2>2, <2>3, <1>4, Zenon DEF Projected
    <3> QED  BY <3>1, <3>2
  <2>5. LastIn(current[d], A)
    BY <2>1, <2>2, Zenon DEF Projected
  <2> QED  BY <2>2, <2>3, <2>4, <2>5, <1>7, Zenon DEF Projected, LastIn
<1>9. (Sequence(records, N0) /\ current = [d \in Candidates |-> current[d]])'
  BY <1>6, Zenon DEF Projections, Sequence
<1> QED  BY <1>5, <1>8, <1>9, Zenon DEF Projections

\* Steps that touch neither records nor projections.
LEMMA ProjectionsKept ==
    ASSUME Projections, UNCHANGED <<records, current, item>> PROVE Projections'
<1>1. N0' = N0
  BY Zenon DEF N0
<1>2. ASSUME NEW d PROVE Of(d)' = Of(d) /\ Changing(d)' = Changing(d)
  BY <1>1, Zenon DEF Of, Changing
<1>3. \A d \in Candidates : Projected(d)'
  BY <1>2, Zenon DEF Projections, Projected, LastIn
<1>4. (Sequence(records, N0) /\ current = [d \in Candidates |-> current[d]]
       /\ item = [d \in Candidates |-> item[d]])'
  BY <1>1, Zenon DEF Projections, Sequence
<1> QED  BY <1>3, <1>4, Zenon DEF Projections

\* Steps that touch no conflict and no uncertainty.
LEMMA HistoriesKept == ASSUME Histories, UNCHANGED integrity PROVE Histories'
  BY Zenon DEF Histories, HistoryOK, Sequence, Fits

-------------------------------------------------------------------------------
(* Calls                                                                   *)

\* A step of one call that keeps its candidate, or ends it.
LEMMA CallKeeps ==
    ASSUME Calls, NEW w \in Workers, NEW k, CallOK(k), call' = [call EXCEPT ![w] = k]
    PROVE  Calls'
<1>1. call = [v \in Workers |-> call[v]]
  BY Zenon DEF Calls
<1>2. /\ \A v \in Workers : call'[v] = IF v = w THEN k ELSE call[v]
      /\ call' = [v \in Workers |-> call'[v]]
  BY <1>1, Zenon
<1>3. PICK K : K = call'
  OBVIOUS
<1>4. \A v \in Workers : CallOK(K[v])
  BY <1>2, <1>3, Zenon DEF Calls
<1> QED  BY <1>2, <1>3, <1>4, Zenon DEF Calls, CallOK

\* No call is fine.
LEMMA IdleOK == CallOK(Idle)
  BY Zenon DEF CallOK, Idle

\* The next attempt is about the same candidate.
LEMMA AttemptOK ==
    ASSUME NEW k, NEW a, "candidate" \in DOMAIN k, k.candidate \in Candidates
    PROVE  CallOK(Attempt(k, a))
<1>1. PICK r : r = [k EXCEPT !.pc = "ASK", !.attempt = a, !.result = NoResult]
  OBVIOUS
<1>2. "candidate" \in DOMAIN r /\ r.candidate = k.candidate
  BY <1>1, Zenon
<1>3. Attempt(k, a) = r \/ Attempt(k, a) = Idle
  BY <1>1, Zenon DEF Attempt
<1> QED  BY <1>2, <1>3, IdleOK, Zenon DEF CallOK

\* What a call is in the steps of a worker.
LEMMA WorkerKeepsCalls ==
    ASSUME Calls, NEW w \in Workers,
           \/ \E c \in Candidates : LoadCandidate(w, c)
           \/ LoadEvidence(w) \/ Answer(w) \/ Fail(w) \/ Abandon(w)
           \/ Replay(w) \/ CommitStale(w) \/ Commit(w)
    PROVE  Calls'
<1>1. CallOK(call[w])
  BY Zenon DEF Calls
<1>2. ASSUME NEW c \in Candidates, LoadCandidate(w, c) PROVE Calls'
  <2>1. PICK B, F : B = Basis(IdentityOf[c]) /\ F = Facts(c)
    OBVIOUS
  <2>2. PICK k : k = [Idle EXCEPT !.pc = "READ", !.candidate = c, !.basis = B, !.facts = F]
    OBVIOUS
  <2>3. call' = [call EXCEPT ![w] = k]
    BY <1>2, <2>1, <2>2, Zenon DEF LoadCandidate
  <2>4. CallOK(k)
    BY <2>2, Zenon DEF CallOK, Idle
  <2> QED  BY <2>3, <2>4, CallKeeps, Zenon
<1>3. ASSUME LoadEvidence(w) PROVE Calls'
  <2>1. PICK b : b = source.connected
    OBVIOUS
  <2>2. PICK m : m = [call[w] EXCEPT !.connected = b, !.facts = {}]
    OBVIOUS
  <2>3. PICK v : v = Verdict(call[w].facts, Qualified(call[w].candidate, b))
    OBVIOUS
  <2>4. PICK res : res = Result("DETERMINISTIC", v, Claim[call[w].candidate])
    OBVIOUS
  <2>5. PICK d : d = [m EXCEPT !.pc = "COMMIT", !.result = res]
    OBVIOUS
  <2>6. PICK k : k = IF v = "OPEN" THEN Attempt(m, 1) ELSE d
    OBVIOUS
  <2>7. call[w].pc = "READ" /\ call' = [call EXCEPT ![w] = k]
    BY <1>3, <2>1, <2>2, <2>3, <2>4, <2>5, <2>6, Zenon DEF LoadEvidence
  <2>8. "candidate" \in DOMAIN call[w] /\ call[w].candidate \in Candidates
    BY <1>1, <2>7, Zenon DEF CallOK
  <2>9. "candidate" \in DOMAIN m /\ m.candidate \in Candidates
    BY <2>2, <2>8, Zenon
  <2>10. "candidate" \in DOMAIN d /\ d.candidate \in Candidates
    BY <2>5, <2>9, Zenon
  <2>11. CallOK(k)
    BY <2>6, <2>9, <2>10, AttemptOK, Zenon DEF CallOK
  <2> QED  BY <2>7, <2>11, CallKeeps, Zenon
<1>4. ASSUME Answer(w) PROVE Calls'
  <2>1. PICK res \in Accepted : call' = [call EXCEPT ![w].pc = "COMMIT", ![w].result = res]
    BY <1>4, Zenon DEF Answer
  <2>3. PICK k : k = [call[w] EXCEPT !.pc = "COMMIT", !.result = res]
    OBVIOUS
  <2>4. call' = [call EXCEPT ![w] = k] /\ call[w].pc = "ASK"
    BY <1>4, <2>1, <2>3, Zenon DEF Answer
  <2>5. CallOK(k)
    BY <1>1, <2>3, <2>4, Zenon DEF CallOK
  <2> QED  BY <2>4, <2>5, CallKeeps, Zenon
<1>5. ASSUME Fail(w) PROVE Calls'
  <2>1. PICK k \in {Attempt(call[w], call[w].attempt + 1), Idle} : call' = [call EXCEPT ![w] = k]
    BY <1>5, Zenon DEF Fail
  <2>2. call[w].pc # "IDLE"
    BY <1>5, Zenon DEF Fail
  <2>3. CallOK(k)
    BY <1>1, <2>1, <2>2, AttemptOK, IdleOK, Zenon DEF CallOK
  <2> QED  BY <2>1, <2>3, CallKeeps, Zenon
<1>6. ASSUME Abandon(w) \/ Replay(w) \/ Commit(w) PROVE Calls'
  <2>1. call' = [call EXCEPT ![w] = Idle]
    BY <1>6, Zenon DEF Abandon, Replay, Commit
  <2>2. PICK k : k = Idle
    OBVIOUS
  <2> QED  BY <2>1, <2>2, IdleOK, CallKeeps, Zenon
<1>7. ASSUME CommitStale(w) PROVE Calls'
  <2>1. PICK k : k = Attempt(call[w], call[w].attempt + 1)
    OBVIOUS
  <2>2. PICK i : i = Idle
    OBVIOUS
  <2>3. /\ call[w].pc = "COMMIT"
        /\ call' = [call EXCEPT ![w] = k] \/ call' = [call EXCEPT ![w] = i]
    BY <1>7, <2>1, <2>2, Zenon DEF CommitStale
  <2>4. CallOK(k) /\ CallOK(i)
    BY <1>1, <2>1, <2>2, <2>3, AttemptOK, IdleOK, Zenon DEF CallOK
  <2> QED  BY <2>3, <2>4, CallKeeps, Zenon
<1> QED  BY <1>2, <1>3, <1>4, <1>5, <1>6, <1>7, Zenon

-------------------------------------------------------------------------------

\* The invariant holds at first.
LEMMA Initially == Init => Inv
<1> SUFFICES ASSUME Init PROVE Inv
  OBVIOUS
<1>1. /\ records = << >> /\ current = [c \in Candidates |-> 0] /\ call = [w \in Workers |-> Idle]
      /\ item = [c \in Candidates |-> NoItem] /\ integrity = [s \in Subjects |-> NotRecorded]
  BY Zenon DEF Init, KnowledgeInit
<1>2. Sequence(<< >>, 0) /\ 1..0 = {}
  <2>1. << >> \in Seq({}) /\ Len(<< >>) = 0 /\ 1..0 = {}
    BY SMT
  <2> QED  BY <2>1, Zenon DEF Sequence
<1>3. Histories
  <2>1. HistoryOK(NotRecorded)
    <3>1. NotRecorded.version = 0 /\ NotRecorded.state = "NONE" /\ NotRecorded.history = << >>
      BY Zenon DEF NotRecorded
    <3> QED  BY <3>1, <1>2, Zenon DEF HistoryOK
  <2>2. \A s \in Subjects : integrity[s] = NotRecorded
    BY <1>1, Zenon
  <2>3. integrity = [s \in Subjects |-> integrity[s]]
    BY <1>1, Zenon
  <2> QED  BY <2>1, <2>2, <2>3, Zenon DEF Histories
<1>4. Projections
  <2>1. N0 = 0 /\ Sequence(records, N0)
    BY <1>1, <1>2, Zenon DEF N0, Sequence
  <2>2. \A c \in Candidates : current[c] = 0 /\ item[c] = NoItem
    BY <1>1, Zenon
  <2>3. NoItem.trust # "RECONCILED"
    BY SMT DEF NoItem
  <2>4. \A c : Of(c) = {} /\ Changing(c) = {}
    BY <1>2, <2>1, Zenon DEF Of, Changing
  <2>5. \A c \in Candidates : Projected(c)
    BY <2>2, <2>3, <2>4, Zenon DEF Projected, LastIn
  <2>6. current = [c \in Candidates |-> current[c]] /\ item = [c \in Candidates |-> item[c]]
    BY <1>1, Zenon
  <2> QED  BY <2>1, <2>5, <2>6, Zenon DEF Projections
<1>5. Calls
  <2>1. (\A w \in Workers : call[w] = Idle) /\ call = [w \in Workers |-> call[w]]
    BY <1>1, Zenon
  <2> QED  BY <2>1, IdleOK, Zenon DEF Calls
<1> QED  BY <1>3, <1>4, <1>5, Zenon DEF Inv

\* Every step keeps the invariant.
LEMMA Stepwise == Inv /\ [Next]_vars => Inv'
<1> SUFFICES ASSUME Inv, [Next]_vars PROVE Inv'
  OBVIOUS
<1>1. Histories /\ Projections /\ Calls
  BY Zenon DEF Inv
<1>2. ASSUME UNCHANGED call PROVE Calls'
  BY <1>1, <1>2, Zenon DEF Calls
<1>3. CASE UNCHANGED vars
  <2>1. UNCHANGED <<integrity, item, records, current, call>>
    BY <1>3, Zenon DEF vars, knowledge
  <2> QED  BY <1>1, <1>2, <2>1, HistoriesKept, ProjectionsKept, Zenon DEF Inv
<1>4. ASSUME NEW s \in Subjects,
             \/ Write(EstablishConflict(s)) \/ Write(EndConflict(s))
             \/ Write(EstablishUncertainty(s)) \/ Write(EndUncertainty(s))
      PROVE  Inv'
  <2>1. UNCHANGED <<records, current, call>>
    BY <1>4, Zenon DEF Write
  <2>2. \/ \E contents : Establish(s, contents)
        \/ End(s)
    BY <1>4, Zenon DEF Write, EstablishConflict, EndConflict, EstablishUncertainty, EndUncertainty
  <2>3. UNCHANGED item
    BY <2>2, Zenon DEF Establish, End
  <2> QED  BY <1>1, <1>2, <2>1, <2>2, <2>3, EstablishKeeps, EndKeeps, ProjectionsKept, Zenon DEF Inv
<1>5. ASSUME \/ \E i \in Identities : Write(PutRecord(i)) \/ Write(EndIdentity(i))
             \/ Write(DecideAuthority) \/ Write(Observe) \/ Write(CompleteIngestion)
             \/ Write(ToggleConnection)
      PROVE  Inv'
  <2>1. UNCHANGED <<integrity, item, records, current, call>>
    BY <1>5, Zenon DEF Write, PutRecord, EndIdentity, DecideAuthority, Observe, CompleteIngestion,
                      ToggleConnection
  <2> QED  BY <1>1, <1>2, <2>1, HistoriesKept, ProjectionsKept, Zenon DEF Inv
<1>6. ASSUME NEW c \in Candidates, Write(Intake(c)) PROVE Inv'
  <2>1. Intake(c) /\ UNCHANGED <<integrity, records, current, call>>
    BY <1>6, Zenon DEF Write, Intake
  <2> QED  BY <1>1, <1>2, <2>1, HistoriesKept, IntakeKeeps, Zenon DEF Inv
<1>7. ASSUME NEW w \in Workers,
             \/ \E c \in Candidates : LoadCandidate(w, c)
             \/ LoadEvidence(w) \/ Answer(w) \/ Fail(w) \/ Abandon(w)
             \/ Replay(w) \/ CommitStale(w) \/ Commit(w)
      PROVE  Inv'
  <2>1. Calls'
    BY <1>1, <1>7, WorkerKeepsCalls, Zenon
  <2>2. UNCHANGED integrity
    BY <1>7, Zenon DEF LoadCandidate, LoadEvidence, Answer, Fail, Abandon, Replay, CommitStale, Commit,
                      knowledge
  <2>3. Commit(w) \/ UNCHANGED <<records, current, item>>
    BY <1>7, Zenon DEF LoadCandidate, LoadEvidence, Answer, Fail, Abandon, Replay, CommitStale, knowledge
  <2> QED  BY <1>1, <2>1, <2>2, <2>3, HistoriesKept, CommitKeeps, ProjectionsKept, Zenon DEF Inv
<1> QED  BY <1>3, <1>4, <1>5, <1>6, <1>7, Zenon DEF Next

\* The invariant holds throughout.
LEMMA Invariance == Spec => []Inv
  BY Initially, Stepwise, PTL DEF Spec

-------------------------------------------------------------------------------

\* The history of every conflict and uncertainty is one line that its current row
\* sums up, whatever changes around it: it begins active, an ending closes an
\* active occurrence and keeps what was in it, and none repeats the one before.
THEOREM HistoryIsOneLine == Spec => []OneIntegrityHistory
<1>1. ASSUME Inv, NEW s \in Subjects, NEW r, r = integrity[s]
      PROVE  /\ r.version = Len(r.history)
             /\ r.state = (IF r.history = << >> THEN "NONE" ELSE r.history[Len(r.history)].state)
             /\ \A n \in DOMAIN r.history :
                   IF r.history[n].state = "ENDED"
                   THEN n > 1 /\ r.history[n - 1] = [state |-> "ACTIVE", content |-> r.history[n].content]
                   ELSE n > 1 => r.history[n - 1] # r.history[n]
  <2>1. HistoryOK(r)
    BY <1>1, Zenon DEF Inv, Histories
  <2>2. PICK h, N : h = r.history /\ N = r.version
    OBVIOUS
  <2>3. /\ Sequence(h, N) /\ (r.state = IF N = 0 THEN "NONE" ELSE h[N].state)
        /\ \A n \in 1..N : Fits(h, n)
    BY <2>1, <2>2, Zenon DEF HistoryOK
  <2>4. N \in Nat /\ DOMAIN h = 1..N /\ N = Len(h)
    BY <2>3, Indices, Zenon DEF Sequence
  <2>5. h = << >> <=> N = 0
    BY <2>3, <2>4, SMT DEF Sequence
  <2>6. \A n \in 1..N : IF h[n].state = "ENDED"
                        THEN n > 1 /\ h[n - 1] = [state |-> "ACTIVE", content |-> h[n].content]
                        ELSE n > 1 => h[n - 1] # h[n]
    BY <2>3, Zenon DEF Fits
  <2> QED  BY <2>2, <2>3, <2>4, <2>5, <2>6, Zenon
<1>2. Inv => OneIntegrityHistory
  BY <1>1, Zenon DEF OneIntegrityHistory
<1> QED  BY <1>2, Invariance, PTL

\* The greatest element is what Max finds.
LEMMA GreatestIsMax ==
    ASSUME NEW S, S \subseteq Nat, NEW m \in S, \A x \in S : m >= x
    PROVE  Max(S) = m
<1>1. Max(S) \in S /\ \A x \in S : Max(S) >= x
  BY Zenon DEF Max
<1>2. PICK M : M = Max(S)
  OBVIOUS
<1>3. M \in Nat /\ m \in Nat /\ M >= m /\ m >= M
  BY <1>1, <1>2, Zenon
<1>4. M = m
  BY <1>3, SMT
<1> QED  BY <1>2, <1>4

\* The current row of a candidate is its latest decision and its Working item the
\* latest that changed something: calls that race with one basis, replay each
\* other or come late with a stale one never bring the two out of step.
THEOREM ProjectionsCorrect == Spec => []ProjectionsFollowRecords
<1>1. ASSUME Inv, NEW c \in Candidates
      PROVE  LET all == {n \in DOMAIN records : records[n].candidate = c}
                 changing == {n \in all : records[n].result.class # "UNCHANGED"} IN
             /\ current[c] = Max({0} \cup all)
             /\ IF changing = {} THEN item[c].trust # "RECONCILED"
                ELSE item[c].trust = "RECONCILED" /\ item[c].claim = records[Max(changing)].result.claim
  <2>1. Projected(c) /\ Sequence(records, N0)
    BY <1>1, Zenon DEF Inv, Projections
  <2>2. N0 \in Nat /\ DOMAIN records = 1..N0
    <3>1. PICK R, N : R = records /\ N = N0
      OBVIOUS
    <3> QED  BY <3>1, <2>1, Indices, Zenon
  <2>3. /\ {n \in DOMAIN records : records[n].candidate = c} = Of(c)
        /\ {n \in Of(c) : records[n].result.class # "UNCHANGED"} = Changing(c)
    BY <2>2, Zenon DEF Of, Changing
  <2>4. Of(c) \subseteq 1..N0 /\ Changing(c) \subseteq Of(c)
    BY Zenon DEF Of, Changing
  <2>5. PICK A, B : A = Of(c) /\ B = Changing(c)
    OBVIOUS
  <2>6. A \subseteq Nat /\ B \subseteq Nat
    BY <2>2, <2>4, <2>5, SMT
  <2>7. current[c] = Max({0} \cup A)
    <3>1. PICK k : k = current[c]
      OBVIOUS
    <3>2. LastIn(k, A)
      BY <2>1, <2>5, <3>1, Zenon DEF Projected
    <3>3. k \in {0} \cup A /\ {0} \cup A \subseteq Nat /\ \A x \in {0} \cup A : k >= x
      <4>1. CASE A = {}
        BY <3>2, <4>1, SMT DEF LastIn
      <4>2. CASE A # {}
        <5>1. k \in A /\ k \in Nat /\ \A x \in A : k >= x
          BY <2>6, <3>2, <4>2, Zenon DEF LastIn
        <5>2. k >= 0
          BY <5>1, SMT
        <5> QED  BY <5>1, <5>2, <2>6, SMT
      <4> QED  BY <4>1, <4>2
    <3> QED  BY <3>1, <3>3, GreatestIsMax, Zenon
  <2>8. IF B = {} THEN item[c].trust # "RECONCILED"
        ELSE item[c].trust = "RECONCILED" /\ item[c].claim = records[Max(B)].result.claim
    <3>1. CASE B = {}
      BY <3>1, <2>1, <2>5, Zenon DEF Projected
    <3>2. CASE B # {}
      <4>1. PICK n \in B : /\ \A m \in B : n >= m
                           /\ item[c].trust = "RECONCILED" /\ item[c].claim = records[n].result.claim
        BY <3>2, <2>1, <2>5, Zenon DEF Projected
      <4>2. Max(B) = n
        BY <4>1, <2>6, GreatestIsMax, Zenon
      <4> QED  BY <3>2, <4>1, <4>2, Zenon
    <3> QED  BY <3>1, <3>2
  <2> QED  BY <2>3, <2>5, <2>7, <2>8, Zenon
<1>2. Inv => ProjectionsFollowRecords
  BY <1>1, Zenon DEF ProjectionsFollowRecords
<1> QED  BY <1>2, Invariance, PTL

-------------------------------------------------------------------------------
(* Sums of versions                                                        *)

\* Any set of numbers that has one has a least one.
LEMMA Least == ASSUME NEW T, T \subseteq Nat, T # {} PROVE \E m \in T : \A k \in T : m <= k
<1>1. PICK R : R = OpToRel(<, Nat)
  OBVIOUS
<1>2. IsWellFoundedOn(R, Nat)
  BY <1>1, NatLessThanWellFounded
<1>3. \E m \in T : \A k \in T : ~(<<k, m>> \in R)
  BY <1>2, WFMin, Zenon
<1>4. ASSUME NEW k \in Nat, NEW m \in Nat, k < m PROVE <<k, m>> \in R
  BY <1>1, <1>4 DEF OpToRel
<1>5. PICK m \in T : \A k \in T : ~(<<k, m>> \in R)
  BY <1>3
<1>6. ASSUME NEW k \in T PROVE m <= k
  <2>1. k \in Nat /\ m \in Nat
    OBVIOUS
  <2>2. ~(k < m)
    BY <1>4, <1>5, <2>1
  <2> QED  BY <2>1, <2>2
<1> QED  BY <1>6

\* A set of numbers that has one and does not exceed n has a greatest one.
LEMMA Greatest ==
    ASSUME NEW S, S \subseteq Nat, S # {}, NEW n \in Nat, \A x \in S : x <= n
    PROVE  Max(S) \in S /\ \A x \in S : x <= Max(S)
<1>1. PICK B : B = {b \in Nat : \A x \in S : x <= b}
  OBVIOUS
<1>2. n \in B /\ B \subseteq Nat
  BY <1>1, Zenon
<1>3. PICK m \in B : \A k \in B : m <= k
  BY <1>2, Least, Zenon
<1>4. m \in Nat /\ \A x \in S : x <= m
  BY <1>1, <1>3, Zenon
<1>5. m \in S
  <2>1. SUFFICES ASSUME m \notin S PROVE FALSE
    OBVIOUS
  <2>2. \A x \in S : x < m
    BY <1>4, <2>1, SMT
  <2>3. m - 1 \in Nat /\ \A x \in S : x <= m - 1
    <3>1. PICK y \in S : TRUE
      OBVIOUS
    <3>2. y \in Nat /\ y < m
      BY <2>2, <3>1, Zenon
    <3>3. m - 1 \in Nat
      BY <1>4, <3>2, SMT
    <3>4. ASSUME NEW x \in S PROVE x <= m - 1
      <4>1. x \in Nat /\ x < m
        BY <2>2, <3>4, Zenon
      <4> QED  BY <1>4, <4>1, SMT
    <3> QED  BY <3>3, <3>4
  <2>4. m - 1 \in B
    BY <1>1, <2>3, Zenon
  <2>5. m <= m - 1
    BY <1>3, <2>4, Zenon
  <2> QED  BY <1>4, <2>5, SMT
<1>6. \A x \in S : m >= x
  BY <1>4, SMT
<1>7. Max(S) \in S /\ \A x \in S : Max(S) >= x
  BY <1>5, <1>6, Zenon DEF Max
<1>8. PICK M : M = Max(S)
  OBVIOUS
<1>9. M \in S /\ \A x \in S : x <= M
  <2>1. M \in S /\ \A x \in S : M >= x
    BY <1>7, <1>8, Zenon
  <2> QED  BY <2>1, SMT
<1> QED  BY <1>8, <1>9, Zenon

\* The sum of the versions of the rows in S, one after the other.
First(s) == CHOOSE y \in s : TRUE
SumStep(g, I, s) == IF s = {} THEN 0 ELSE I[First(s)].version + g[s \ {First(s)}]
IsSum(g, I, S) == g = [s \in SUBSET S |-> SumStep(g, I, s)]

\* What the library computes is such a sum, if there is one.
LEMMA SumUnfold ==
    ASSUME NEW I, NEW S, \E g : IsSum(g, I, S)
    PROVE  \E g : IsSum(g, I, S) /\ VersionSum(I, S) = g[S]
<1>1. PICK h : h = CHOOSE g : IsSum(g, I, S)
  OBVIOUS
<1>2. IsSum(h, I, S)
  BY <1>1
<1>3. VersionSum(I, S) = h[S]
  BY <1>1 DEF VersionSum, MapThenSumSet, MapThenFoldSet, IsSum, SumStep, First
<1> QED BY <1>2, <1>3

\* The element a sum begins with is one of the set.
LEMMA FirstIn == ASSUME NEW s, s # {} PROVE First(s) \in s
  BY DEF First

\* One element less.
LEMMA Rest ==
    ASSUME NEW S, IsFiniteSet(S), NEW s \in SUBSET S
    PROVE  /\ IsFiniteSet(s) /\ Cardinality(s) \in Nat
           /\ s = {} <=> Cardinality(s) = 0
           /\ s # {} => /\ First(s) \in S /\ s \ {First(s)} \in SUBSET S
                        /\ Cardinality(s \ {First(s)}) = Cardinality(s) - 1
<1>1. IsFiniteSet(s) /\ Cardinality(s) \in Nat
  BY FS_Subset, FS_CardinalityType, Zenon
<1>2. s = {} <=> Cardinality(s) = 0
  BY <1>1, FS_EmptySet, Zenon
<1>3. ASSUME s # {}
      PROVE  /\ First(s) \in S /\ s \ {First(s)} \in SUBSET S
             /\ Cardinality(s \ {First(s)}) = Cardinality(s) - 1
  <2>1. First(s) \in s
    BY <1>3, FirstIn
  <2> QED  BY <1>1, <2>1, FS_RemoveElement, Zenon
<1> QED  BY <1>1, <1>2, <1>3

\* A sum over the subsets of S that have at most n elements.
Small(S, n) == {s \in SUBSET S : Cardinality(s) <= n}
Part(g, I, S, n) ==
    /\ g \in [Small(S, n) -> Nat]
    /\ \A s \in Small(S, n) : g[s] = SumStep(g, I, s)

\* A sum table for sets of n elements has a row for one more.
LEMMA PartGrows ==
    ASSUME NEW S, IsFiniteSet(S), NEW I, \A x \in S : I[x].version \in Nat,
           NEW n \in Nat, NEW g, Part(g, I, S, n)
    PROVE  \E h : Part(h, I, S, n + 1)
<1>1. PICK h : h = [s \in Small(S, n + 1) |-> SumStep(g, I, s)]
  OBVIOUS
<1>2. ASSUME NEW s \in Small(S, n + 1), s # {}
      PROVE  s \ {First(s)} \in Small(S, n) /\ First(s) \in S
  <2>1. s \in SUBSET S /\ Cardinality(s) <= n + 1
    BY DEF Small
  <2>2. /\ Cardinality(s) \in Nat /\ First(s) \in S /\ s \ {First(s)} \in SUBSET S
        /\ Cardinality(s \ {First(s)}) = Cardinality(s) - 1
    BY <1>2, <2>1, Rest, Zenon
  <2>3. Cardinality(s \ {First(s)}) <= n
    BY <2>1, <2>2, SMT
  <2> QED  BY <2>2, <2>3, Zenon DEF Small
<1>3. ASSUME NEW s \in Small(S, n + 1) PROVE SumStep(g, I, s) \in Nat
  <2>1. CASE s = {}
    BY <2>1, SMT DEF SumStep
  <2>2. CASE s # {}
    <3>1. I[First(s)].version \in Nat /\ g[s \ {First(s)}] \in Nat
      BY <1>2, <2>2, Zenon DEF Part
    <3>2. SumStep(g, I, s) = I[First(s)].version + g[s \ {First(s)}]
      BY <2>2, Zenon DEF SumStep
    <3> QED  BY <3>1, <3>2, SMT
  <2> QED  BY <2>1, <2>2
<1>4. h \in [Small(S, n + 1) -> Nat]
  BY <1>1, <1>3, Zenon
<1>5. ASSUME NEW s \in Small(S, n) PROVE h[s] = g[s]
  <2>1. s \in Small(S, n + 1)
    <3>1. s \in SUBSET S /\ Cardinality(s) <= n
      BY Zenon DEF Small
    <3>2. Cardinality(s) \in Nat
      BY <3>1, Rest, Zenon
    <3>3. Cardinality(s) <= n + 1
      BY <3>1, <3>2, SMT
    <3> QED  BY <3>1, <3>3, Zenon DEF Small
  <2> QED  BY <1>1, <2>1, Zenon DEF Part
<1>6. ASSUME NEW s \in Small(S, n + 1) PROVE h[s] = SumStep(h, I, s)
  <2>1. h[s] = SumStep(g, I, s)
    BY <1>1, Zenon
  <2>2. CASE s = {}
    BY <2>1, <2>2, Zenon DEF SumStep
  <2>3. CASE s # {}
    <3>1. h[s \ {First(s)}] = g[s \ {First(s)}]
      BY <1>2, <1>5, <2>3, Zenon
    <3> QED  BY <2>1, <2>3, <3>1, Zenon DEF SumStep
  <2> QED  BY <2>2, <2>3
<1> QED  BY <1>4, <1>6, Zenon DEF Part

\* There is a sum over a finite set.
LEMMA SumExists ==
    ASSUME NEW S, IsFiniteSet(S), NEW I, \A x \in S : I[x].version \in Nat
    PROVE  \E g : IsSum(g, I, S)
<1>1. PICK T : T = {n \in Nat : ~ \E g : Part(g, I, S, n)}
  OBVIOUS
<1>2. T = {}
  <2>1. SUFFICES ASSUME T # {} PROVE FALSE
    OBVIOUS
  <2>2. PICK m \in T : \A k \in T : m <= k
    BY <1>1, <2>1, Least, Zenon
  <2>3. m \in Nat /\ ~ \E g : Part(g, I, S, m)
    BY <1>1, <2>2, Zenon
  <2>4. CASE m = 0
    <3>1. ASSUME NEW s \in Small(S, 0) PROVE s = {}
      <4>1. s \in SUBSET S /\ Cardinality(s) <= 0
        BY Zenon DEF Small
      <4>2. Cardinality(s) \in Nat /\ (s = {} <=> Cardinality(s) = 0)
        BY <4>1, Rest, Zenon
      <4> QED  BY <4>1, <4>2, SMT
    <3>2. PICK g : g = [s \in Small(S, 0) |-> 0]
      OBVIOUS
    <3>3. g \in [Small(S, 0) -> Nat] /\ \A s \in Small(S, 0) : g[s] = 0
      <4>1. 0 \in Nat
        OBVIOUS
      <4> QED  BY <3>2, <4>1, Zenon
    <3>4. Part(g, I, S, 0)
      BY <3>1, <3>3, Zenon DEF Part, SumStep
    <3> QED  BY <2>3, <2>4, <3>4, Zenon
  <2>5. CASE m # 0
    <3>1. PICK k : k = m - 1
      OBVIOUS
    <3>2. k \in Nat /\ m = k + 1 /\ ~(m <= k)
      BY <2>3, <2>5, <3>1, SMT
    <3>3. PICK g : Part(g, I, S, k)
      BY <1>1, <2>2, <3>2, Zenon
    <3>4. \E h : Part(h, I, S, k + 1)
      BY <3>2, <3>3, PartGrows, Zenon
    <3> QED  BY <2>3, <3>2, <3>4, Zenon
  <2> QED  BY <2>4, <2>5
<1>3. PICK n : n = Cardinality(S)
  OBVIOUS
<1>4. n \in Nat
  BY <1>3, FS_CardinalityType, Zenon
<1>5. PICK g : Part(g, I, S, n)
  BY <1>1, <1>2, <1>4, Zenon
<1>6. Small(S, n) = SUBSET S
  <2>1. ASSUME NEW s \in SUBSET S PROVE Cardinality(s) <= n
    BY <1>3, FS_Subset, Zenon
  <2> QED  BY <2>1, Zenon DEF Small
<1>7. IsSum(g, I, S)
  BY <1>5, <1>6, Zenon DEF Part, IsSum
<1> QED  BY <1>7

\* Sums compare as their members do.
Compared(g, h, I, J, s) ==
    /\ g[s] \in Nat /\ h[s] \in Nat /\ g[s] <= h[s]
    /\ g[s] = h[s] => \A x \in s : I[x].version = J[x].version

\* If each member of a finite sum stays or grows, so does the sum; it stays only
\* if each of them does.
LEMMA SumGrows ==
    ASSUME NEW S, IsFiniteSet(S), NEW I, NEW J,
           \A x \in S : I[x].version \in Nat /\ J[x].version \in Nat /\ I[x].version <= J[x].version
    PROVE  /\ VersionSum(I, S) \in Nat /\ VersionSum(J, S) \in Nat /\ VersionSum(I, S) <= VersionSum(J, S)
           /\ VersionSum(I, S) = VersionSum(J, S) => \A x \in S : I[x].version = J[x].version
<1>1. PICK g : IsSum(g, I, S) /\ VersionSum(I, S) = g[S]
  <2>1. \E g : IsSum(g, I, S)
    BY SumExists, Zenon
  <2> QED  BY <2>1, SumUnfold, Zenon
<1>2. PICK h : IsSum(h, J, S) /\ VersionSum(J, S) = h[S]
  <2>1. \E f : IsSum(f, J, S)
    BY SumExists, Zenon
  <2> QED  BY <2>1, SumUnfold, Zenon
<1>3. ASSUME NEW s \in SUBSET S
      PROVE  /\ g[s] = SumStep(g, I, s) /\ h[s] = SumStep(h, J, s)
  BY <1>1, <1>2, Zenon DEF IsSum
<1>4. PICK T : T = {n \in Nat : \E s \in SUBSET S : Cardinality(s) = n /\ ~Compared(g, h, I, J, s)}
  OBVIOUS
<1>5. T = {}
  <2>1. SUFFICES ASSUME T # {} PROVE FALSE
    OBVIOUS
  <2>2. PICK m \in T : \A k \in T : m <= k
    BY <1>4, <2>1, Least, Zenon
  <2>3. PICK s \in SUBSET S : Cardinality(s) = m /\ ~Compared(g, h, I, J, s)
    BY <1>4, <2>2, Zenon
  <2>4. m \in Nat
    BY <1>4, <2>2, Zenon
  <2>5. CASE s = {}
    <3>1. g[s] = 0 /\ h[s] = 0
      BY <1>3, <2>5, Zenon DEF SumStep
    <3>2. 0 \in Nat /\ 0 <= 0
      BY SMT
    <3> QED  BY <2>3, <2>5, <3>1, <3>2, Zenon DEF Compared
  <2>6. CASE s # {}
    <3>1. PICK x, r : x = First(s) /\ r = s \ {First(s)}
      OBVIOUS
    <3>2. x \in S /\ r \in SUBSET S /\ Cardinality(r) = m - 1 /\ x \in s /\ m # 0
      BY <2>3, <2>6, <3>1, Rest, FirstIn, Zenon
    <3>3. m - 1 \in Nat /\ ~(m <= m - 1)
      BY <2>4, <3>2, SMT
    <3>4. Compared(g, h, I, J, r)
      BY <1>4, <2>2, <3>2, <3>3, Zenon
    <3>5. g[s] = I[x].version + g[r] /\ h[s] = J[x].version + h[r]
      BY <1>3, <2>6, <3>1, Zenon DEF SumStep
    <3>6. PICK a, b, p, q, y, z : /\ a = I[x].version /\ b = J[x].version /\ p = g[r] /\ q = h[r]
                                  /\ y = g[s] /\ z = h[s]
      OBVIOUS
    <3>7. a \in Nat /\ b \in Nat /\ a <= b /\ p \in Nat /\ q \in Nat /\ p <= q
          /\ y = a + p /\ z = b + q
      BY <3>2, <3>4, <3>5, <3>6, Zenon DEF Compared
    <3>8. y \in Nat /\ z \in Nat /\ y <= z /\ (y = z => a = b /\ p = q)
      BY <3>7, SMT
    <3>9. y = z => \A w \in s : I[w].version = J[w].version
      <4>1. ASSUME y = z, NEW w \in s PROVE I[w].version = J[w].version
        <5>1. w = x \/ w \in r
          BY <3>1, Zenon
        <5> QED  BY <3>4, <3>6, <3>8, <4>1, <5>1, Zenon DEF Compared
      <4> QED  BY <4>1
    <3>10. Compared(g, h, I, J, s)
      BY <3>6, <3>8, <3>9, Zenon DEF Compared
    <3> QED  BY <2>3, <3>10, Zenon
  <2> QED  BY <2>5, <2>6
<1>6. Compared(g, h, I, J, S)
  <2>1. Cardinality(S) \in Nat /\ S \in SUBSET S
    BY FS_CardinalityType, Zenon
  <2> QED  BY <1>4, <1>5, <2>1, Zenon
<1> QED  BY <1>1, <1>2, <1>6, Zenon DEF Compared

-------------------------------------------------------------------------------
(* The second invariant                                                    *)

\* A Working item asserts something, and no instant is ahead of the clock.
ItemOK(x) == (x.trust # "NONE" => x.claim \in Claims) /\ x.at <= clock

Invocations == [candidate : Candidates, basis : Bases, attempt : Nat, succeeded : BOOLEAN]
Decisions == [candidate : Candidates, basis : Bases, result : Results]
OpenCalls == [pc : {"READ", "ASK", "COMMIT"}, candidate : Candidates, basis : Bases,
              facts : SUBSET FactKinds, connected : BOOLEAN,
              attempt : 0..Len(Route) * MaxAttempts, result : Results \cup {NoResult}]

\* What is committed is a result.
CallTyped(k) == k = Idle \/ (k \in OpenCalls /\ (k.pc = "COMMIT" => k.result \in Results))

\* The types, with what they rest on from one step to the next.
KnowledgeTyped == KnowledgeTypeOK /\ \A c \in Candidates : ItemOK(item[c])

RecordsTyped ==
    /\ records \in Seq(Decisions)
    /\ current \in [Candidates -> 0..Len(records)]

Typed ==
    /\ KnowledgeTyped /\ RecordsTyped
    /\ invoked \subseteq Invocations
    /\ \A w \in Workers : CallTyped(call[w])

\* No version of b is ahead of that of B.
Below(b, B) ==
    /\ b.record <= B.record /\ b.version <= B.version /\ b.working <= B.working
    /\ b.authority <= B.authority /\ b.frontier <= B.frontier /\ b.integrity <= B.integrity

\* What the rules have said to a call, as far as it has come.
Said(k) == IF k.pc = "ASK" \/ k.result.path = "MODEL" THEN "OPEN" ELSE k.result.class

\* The basis of a call is behind the present one or is the present one; then
\* the call knows the present facts, and the rules still say what they said.
Truthful(k) ==
    k.pc # "IDLE" =>
        /\ Below(k.basis, Basis(IdentityOf[k.candidate]))
        /\ k.basis = Basis(IdentityOf[k.candidate]) =>
              IF k.pc = "READ" THEN k.facts = Facts(k.candidate)
              ELSE Verdict(Facts(k.candidate), Qualified(k.candidate, k.connected)) = Said(k)

CallsTruthful == \A w \in Workers : Truthful(call[w])

-------------------------------------------------------------------------------
(* What a basis is made of                                                 *)

\* An identity has finitely many subjects.
LEMMA SubjectsFinite == ASSUME NEW i PROVE IsFiniteSet(SubjectsOf(i))
<1>1. PICK A : A = {Subject(i, "CONFLICT", "none", 0), Subject(i, "SEMANTIC_IDENTITY", "none", 0),
                    Subject(i, "SOURCE_EVIDENCE", "none", 0)}
  OBVIOUS
<1>2. PICK B : B = {Subject(i, "WORKING_CONTEXT", c, 0) : c \in Candidates}
  OBVIOUS
<1>3. PICK C : C = {Subject(i, "REVIEWED_CONTEXT", "none", n) : n \in 1..MaxRecords}
  OBVIOUS
<1>4. IsFiniteSet(A)
  <2>1. PICK x, y, z : /\ x = Subject(i, "CONFLICT", "none", 0)
                       /\ y = Subject(i, "SEMANTIC_IDENTITY", "none", 0)
                       /\ z = Subject(i, "SOURCE_EVIDENCE", "none", 0)
    OBVIOUS
  <2>2. IsFiniteSet({x}) /\ IsFiniteSet({y}) /\ IsFiniteSet({z})
    BY FS_Singleton, Zenon
  <2>3. IsFiniteSet({x} \cup {y})
    BY <2>2, FS_Union, Zenon
  <2>4. IsFiniteSet(({x} \cup {y}) \cup {z})
    BY <2>2, <2>3, FS_Union, Zenon
  <2>5. A = ({x} \cup {y}) \cup {z}
    BY <1>1, <2>1, Zenon
  <2> QED  BY <2>4, <2>5, Zenon
<1>5. IsFiniteSet(B)
  <2>1. PICK f : f = [c \in Candidates |-> Subject(i, "WORKING_CONTEXT", c, 0)]
    OBVIOUS
  <2>2. f \in Surjection(Candidates, B)
    <3>1. f \in [Candidates -> B] /\ \A b \in B : \E c \in Candidates : f[c] = b
      BY <1>2, <2>1, Zenon
    <3> QED  BY <3>1, Zenon DEF Surjection
  <2>3. IsFiniteSet(Candidates)
    BY ConflictUncertaintyAssumption, Zenon
  <2> QED  BY <2>2, <2>3, FS_Surjection, Zenon
<1>6. IsFiniteSet(C)
  <2>1. PICK f : f = [n \in 1..MaxRecords |-> Subject(i, "REVIEWED_CONTEXT", "none", n)]
    OBVIOUS
  <2>2. f \in Surjection(1..MaxRecords, C)
    <3>1. f \in [1..MaxRecords -> C] /\ \A b \in C : \E n \in 1..MaxRecords : f[n] = b
      BY <1>3, <2>1, Zenon
    <3> QED  BY <3>1, Zenon DEF Surjection
  <2>3. MaxRecords \in Nat
    BY ConflictUncertaintyAssumption, Zenon
  <2>4. 1 \in Int /\ MaxRecords \in Int
    BY <2>3, SMT
  <2>5. IsFiniteSet(1..MaxRecords)
    BY <2>4, FS_Interval, Zenon
  <2> QED  BY <2>2, <2>5, FS_Surjection, Zenon
<1>7. IsFiniteSet((A \cup B) \cup C)
  <2>1. IsFiniteSet(A \cup B)
    BY <1>4, <1>5, FS_Union, Zenon
  <2> QED  BY <2>1, <1>6, FS_Union, Zenon
<1>8. ASSUME NEW s \in SubjectsOf(i) PROVE s \in (A \cup B) \cup C
  <2>1. s \in Subjects /\ s.identity = i
    BY Zenon DEF SubjectsOf
  <2>2. CASE s \in Conflicts
    <3>1. PICK j \in Identities : s = Subject(j, "CONFLICT", "none", 0)
      BY <2>2, Zenon DEF Conflicts
    <3>2. s.identity = j
      BY <3>1, Zenon DEF Subject
    <3> QED  BY <1>1, <2>1, <3>1, <3>2, Zenon
  <2>3. CASE \E j \in Identities, kind \in {"SEMANTIC_IDENTITY", "SOURCE_EVIDENCE"} :
                s = Subject(j, kind, "none", 0)
    <3>1. PICK j \in Identities, kind \in {"SEMANTIC_IDENTITY", "SOURCE_EVIDENCE"} :
                s = Subject(j, kind, "none", 0)
      BY <2>3
    <3>2. s.identity = j
      BY <3>1, Zenon DEF Subject
    <3>3. s = Subject(i, kind, "none", 0)
      BY <2>1, <3>1, <3>2, Zenon
    <3> QED  BY <1>1, <3>1, <3>3, Zenon
  <2>4. CASE \E c \in Candidates : s = Subject(IdentityOf[c], "WORKING_CONTEXT", c, 0)
    <3>1. PICK c \in Candidates : s = Subject(IdentityOf[c], "WORKING_CONTEXT", c, 0)
      BY <2>4
    <3>2. s.identity = IdentityOf[c]
      BY <3>1, Zenon DEF Subject
    <3> QED  BY <1>2, <2>1, <3>1, <3>2, Zenon
  <2>5. CASE \E j \in Identities, n \in 1..MaxRecords : s = Subject(j, "REVIEWED_CONTEXT", "none", n)
    <3>1. PICK j \in Identities, n \in 1..MaxRecords : s = Subject(j, "REVIEWED_CONTEXT", "none", n)
      BY <2>5
    <3>2. s.identity = j
      BY <3>1, Zenon DEF Subject
    <3> QED  BY <1>3, <2>1, <3>1, <3>2, Zenon
  <2>6. ASSUME s \in Uncertainties
        PROVE  \/ \E j \in Identities, kind \in {"SEMANTIC_IDENTITY", "SOURCE_EVIDENCE"} :
                     s = Subject(j, kind, "none", 0)
               \/ \E c \in Candidates : s = Subject(IdentityOf[c], "WORKING_CONTEXT", c, 0)
               \/ \E j \in Identities, n \in 1..MaxRecords : s = Subject(j, "REVIEWED_CONTEXT", "none", n)
    <3>1. CASE s \in {Subject(j, kind, "none", 0) : j \in Identities,
                         kind \in TargetKinds \cap {"SEMANTIC_IDENTITY", "SOURCE_EVIDENCE"}}
      BY <3>1, SMT
    <3>2. CASE s \in {Subject(IdentityOf[c], "WORKING_CONTEXT", c, 0) :
                         c \in IF "WORKING_CONTEXT" \in TargetKinds THEN Candidates ELSE {}}
      BY <3>2, SMT
    <3>3. CASE s \in {Subject(j, "REVIEWED_CONTEXT", "none", n) : j \in Identities,
                         n \in IF "REVIEWED_CONTEXT" \in TargetKinds THEN 1..MaxRecords ELSE {}}
      BY <3>3, SMT
    <3> QED  BY <2>6, <3>1, <3>2, <3>3, SMT DEF Uncertainties
  <2>7. s \in Conflicts \/ s \in Uncertainties
    BY <2>1, Zenon DEF Subjects
  <2> QED  BY <2>2, <2>3, <2>4, <2>5, <2>6, <2>7, Zenon
<1>9. SubjectsOf(i) \in SUBSET ((A \cup B) \cup C)
  BY <1>8, Zenon
<1> QED  BY <1>7, <1>9, FS_Subset, Zenon

\* The instants of an identity's Working items.
Instants(it, i) == {0} \cup {it[c].at : c \in {d \in Candidates : IdentityOf[d] = i}}

\* The newest of them is no newer than the clock.
LEMMA NewestInstant ==
    ASSUME NEW it, NEW t \in Nat, \A c \in Candidates : it[c].at \in Nat /\ it[c].at <= t, NEW i
    PROVE  /\ Max(Instants(it, i)) \in Nat /\ Max(Instants(it, i)) <= t
           /\ \A c \in Candidates : IdentityOf[c] = i => it[c].at <= Max(Instants(it, i))
<1>1. PICK S : S = Instants(it, i)
  OBVIOUS
<1>2. 0 \in S /\ \A x \in S : x \in Nat /\ x <= t
  <2>1. 0 \in Nat /\ 0 <= t
    BY SMT
  <2> QED  BY <1>1, <2>1, Zenon DEF Instants
<1>3. S \subseteq Nat /\ S # {} /\ \A x \in S : x <= t
  BY <1>2, Zenon
<1>4. Max(S) \in S /\ \A x \in S : x <= Max(S)
  BY <1>3, Greatest, Zenon
<1>5. \A c \in Candidates : IdentityOf[c] = i => it[c].at \in S
  BY <1>1, Zenon DEF Instants
<1> QED  BY <1>1, <1>2, <1>4, <1>5, Zenon

\* A basis is made of numbers.
LEMMA BasisTyped == ASSUME KnowledgeTyped, NEW i \in Identities PROVE Basis(i) \in Bases
<1>1. /\ Current(i) \in Nat /\ identity[i].version \in Nat
      /\ source.authority \in Nat /\ 2 * source.desired + source.ingested \in Nat
  <2>1. identity[i] \in ContextIdentities
    BY Zenon DEF KnowledgeTyped, KnowledgeTypeOK
  <2>2. identity[i].version \in Nat /\ identity[i].records \in Seq(Claims)
    BY <2>1, Zenon DEF ContextIdentities
  <2>3. Len(identity[i].records) \in Nat
    <3>1. PICK h : h = identity[i].records
      OBVIOUS
    <3>2. Len(h) \in Nat
      BY <2>2, <3>1, SMT
    <3> QED  BY <3>1, <3>2, Zenon
  <2>4. source.authority \in Nat /\ source.desired \in Nat /\ source.ingested \in Nat
    BY Zenon DEF KnowledgeTyped, KnowledgeTypeOK
  <2>5. 2 * source.desired + source.ingested \in Nat
    BY <2>4, SMT
  <2> QED  BY <2>2, <2>3, <2>4, <2>5, Zenon DEF Current
<1>2. WorkingVersion(i) \in Nat
  <2>1. clock \in Nat /\ \A c \in Candidates : item[c].at \in Nat /\ item[c].at <= clock
    BY Zenon DEF KnowledgeTyped, KnowledgeTypeOK, ItemOK, WorkingItems
  <2>2. Max(Instants(item, i)) \in Nat
    BY <2>1, NewestInstant, Zenon
  <2> QED  BY <2>2, Zenon DEF WorkingVersion, Instants
<1>3. IntegrityVersion(i) \in Nat
  <2>1. \A s \in SubjectsOf(i) : integrity[s].version \in Nat
    BY Zenon DEF KnowledgeTyped, KnowledgeTypeOK, SubjectsOf
  <2>2. \A s \in SubjectsOf(i) : /\ integrity[s].version \in Nat /\ integrity[s].version \in Nat
                                 /\ integrity[s].version <= integrity[s].version
    BY <2>1, SMT
  <2>3. VersionSum(integrity, SubjectsOf(i)) \in Nat
    BY <2>2, SubjectsFinite, SumGrows, Zenon
  <2> QED  BY <2>3, Zenon DEF IntegrityVersion
<1> QED  BY <1>1, <1>2, <1>3, Zenon DEF Basis, Bases

-------------------------------------------------------------------------------
(* The types of what is known                                              *)

\* The occurrences of a subject.
Occurrences(s) == IF s.kind = "CONFLICT" THEN ConflictOccurrences ELSE UncertaintyOccurrences

RowOK(s, r) ==
    r.version \in Nat /\ r.state \in {"NONE", "ACTIVE", "ENDED"} /\ r.history \in Seq(Occurrences(s))

\* A subject belongs to an identity.
LEMMA SubjectFields == ASSUME NEW s \in Subjects PROVE s.identity \in Identities
<1>1. CASE \E j \in Identities : \E kind, c, n : s = Subject(j, kind, c, n)
  <2>1. PICK j \in Identities : \E kind, c, n : s = Subject(j, kind, c, n)
    BY <1>1
  <2>2. PICK kind, c, n : s = Subject(j, kind, c, n)
    BY <2>1
  <2>3. s.identity = j
    BY <2>2, Zenon DEF Subject
  <2> QED  BY <2>3
<1>2. CASE \E c \in Candidates : \E kind, n : s = Subject(IdentityOf[c], kind, c, n)
  <2>1. PICK c \in Candidates : \E kind, n : s = Subject(IdentityOf[c], kind, c, n)
    BY <1>2
  <2>2. PICK kind, n : s = Subject(IdentityOf[c], kind, c, n)
    BY <2>1
  <2>3. IdentityOf[c] \in Identities
    BY ConflictUncertaintyAssumption, Zenon
  <2>4. s.identity = IdentityOf[c]
    BY <2>2, Zenon DEF Subject
  <2> QED  BY <2>3, <2>4, Zenon
<1>3. CASE s \in Conflicts
  <2>1. \E j \in Identities : s = Subject(j, "CONFLICT", "none", 0)
    BY <1>3, Zenon DEF Conflicts
  <2> QED  BY <2>1, <1>1, Zenon
<1>4. CASE s \in Uncertainties
  <2>1. CASE s \in {Subject(j, kind, "none", 0) : j \in Identities,
                       kind \in TargetKinds \cap {"SEMANTIC_IDENTITY", "SOURCE_EVIDENCE"}}
    <3>1. \E j \in Identities : \E kind : s = Subject(j, kind, "none", 0)
      BY <2>1, SMT
    <3> QED  BY <3>1, <1>1, Zenon
  <2>2. CASE s \in {Subject(IdentityOf[c], "WORKING_CONTEXT", c, 0) :
                       c \in IF "WORKING_CONTEXT" \in TargetKinds THEN Candidates ELSE {}}
    <3>1. \E c \in Candidates : s = Subject(IdentityOf[c], "WORKING_CONTEXT", c, 0)
      BY <2>2, SMT
    <3> QED  BY <3>1, <1>2, Zenon
  <2>3. CASE s \in {Subject(j, "REVIEWED_CONTEXT", "none", n) : j \in Identities,
                       n \in IF "REVIEWED_CONTEXT" \in TargetKinds THEN 1..MaxRecords ELSE {}}
    <3>1. \E j \in Identities : \E n : s = Subject(j, "REVIEWED_CONTEXT", "none", n)
      BY <2>3, SMT
    <3> QED  BY <3>1, <1>1, Zenon
  <2> QED  BY <1>4, <2>1, <2>2, <2>3, SMT DEF Uncertainties
<1> QED  BY <1>3, <1>4, Zenon DEF Subjects

\* Evidence has a qualification.
LEMMA QualificationTyped == ASSUME NEW q PROVE EvidenceQualification(q) \in Qualifications
  BY SMT DEF EvidenceQualification, Qualifications

\* Whatever may take part in a conflict is a participant.
LEMMA ParticipantsTyped ==
    ASSUME KnowledgeTyped, NEW i \in Identities PROVE Participants(i) \subseteq ConflictParticipants
<1>1. ASSUME NEW p, p = [kind |-> "SOURCE_EVIDENCE", item |-> "none", record |-> 0, claim |-> EvidenceClaim,
                         qualification |-> EvidenceQualification(source.connected),
                         assignment |-> EvidenceAssignment]
      PROVE  p \in ConflictParticipants
  <2>1. EvidenceClaim \in Claims
    BY ConflictUncertaintyAssumption, Zenon
  <2>2. EvidenceAssignment \in Nat
    <3>1. source.authority \in Nat
      BY Zenon DEF KnowledgeTyped, KnowledgeTypeOK
    <3> QED  BY <3>1, SMT DEF EvidenceAssignment
  <2> QED  BY <1>1, <2>1, <2>2, QualificationTyped, Zenon DEF ConflictParticipants
<1>2. ASSUME NEW c \in Candidates, item[c].trust # "NONE",
             NEW p, p = [kind |-> "WORKING_CONTEXT", item |-> c, record |-> 0, claim |-> item[c].claim,
                         qualification |-> "none", assignment |-> 0]
      PROVE  p \in ConflictParticipants
  <2>1. item[c].claim \in Claims
    BY <1>2, Zenon DEF KnowledgeTyped, ItemOK
  <2> QED  BY <1>2, <2>1, Zenon DEF ConflictParticipants
<1>3. ASSUME NEW n \in {Current(i)} \ {0},
             NEW p, p = [kind |-> "REVIEWED_CONTEXT", item |-> "none", record |-> n,
                         claim |-> identity[i].records[n], qualification |-> "none", assignment |-> 0]
      PROVE  p \in ConflictParticipants
  <2>1. PICK h : h = identity[i].records
    OBVIOUS
  <2>2. h \in Seq(Claims)
    BY <2>1, Zenon DEF KnowledgeTyped, KnowledgeTypeOK, ContextIdentities
  <2>3. n = Len(h) /\ n # 0
    BY <2>1, Zenon DEF Current
  <2>4. n \in Nat \ {0} /\ h[n] \in Claims
    BY <2>2, <2>3, SMT
  <2> QED  BY <1>3, <2>1, <2>4, Zenon DEF ConflictParticipants
<1>4. ASSUME NEW p \in Participants(i)
      PROVE  \/ p = [kind |-> "SOURCE_EVIDENCE", item |-> "none", record |-> 0, claim |-> EvidenceClaim,
                     qualification |-> EvidenceQualification(source.connected),
                     assignment |-> EvidenceAssignment]
             \/ \E c \in Candidates :
                   /\ item[c].trust # "NONE"
                   /\ p = [kind |-> "WORKING_CONTEXT", item |-> c, record |-> 0, claim |-> item[c].claim,
                           qualification |-> "none", assignment |-> 0]
             \/ \E n \in {Current(i)} \ {0} :
                   p = [kind |-> "REVIEWED_CONTEXT", item |-> "none", record |-> n,
                        claim |-> identity[i].records[n], qualification |-> "none", assignment |-> 0]
  BY Zenon DEF Participants
<1> QED  BY <1>1, <1>2, <1>3, <1>4, Zenon

\* An occurrence of the right kind.
LEMMA OccurTyped ==
    ASSUME KnowledgeTyped, Histories, NEW s \in Subjects, NEW e \in Occurrences(s), Occur(s, e),
           UNCHANGED <<identity, source, item, clock>>
    PROVE  KnowledgeTyped'
<1>1. PICK r, h, N, O : r = integrity[s] /\ h = r.history /\ N = r.version /\ O = Occurrences(s)
  OBVIOUS
<1>2. h \in Seq(O) /\ N \in Nat
  BY <1>1, Zenon DEF KnowledgeTyped, KnowledgeTypeOK, Occurrences
<1>3. PICK g : g = Append(h, e)
  OBVIOUS
<1>4. g \in Seq(O) /\ N + 1 \in Nat
  BY <1>1, <1>2, <1>3, SMT
<1>5. PICK new : new = [version |-> N + 1, state |-> e.state, history |-> g]
  OBVIOUS
<1>6. integrity' = [integrity EXCEPT ![s] = new]
  BY <1>1, <1>3, <1>5, Zenon DEF Occur
<1>7. e.state \in {"ACTIVE", "ENDED"}
  <2>1. CASE s.kind = "CONFLICT"
    BY <2>1, Zenon DEF Occurrences, ConflictOccurrences
  <2>2. CASE s.kind # "CONFLICT"
    BY <2>2, Zenon DEF Occurrences, UncertaintyOccurrences
  <2> QED  BY <2>1, <2>2
<1>8. RowOK(s, new)
  BY <1>1, <1>4, <1>5, <1>7, Zenon DEF RowOK
<1>9. \A q \in Subjects : RowOK(q, integrity[q])
  BY Zenon DEF KnowledgeTyped, KnowledgeTypeOK, RowOK, Occurrences
<1>10. integrity = [q \in Subjects |-> integrity[q]]
  BY Zenon DEF Histories
<1>11. PICK I : I = integrity'
  OBVIOUS
<1>12. \A q \in Subjects : RowOK(q, I[q])
  BY <1>6, <1>8, <1>9, <1>10, <1>11, Zenon
<1>13. \A q \in Subjects :
          /\ I[q].version \in Nat
          /\ I[q].state \in {"NONE", "ACTIVE", "ENDED"}
          /\ I[q].history \in Seq(IF q.kind = "CONFLICT" THEN ConflictOccurrences ELSE UncertaintyOccurrences)
  BY <1>12, Zenon DEF RowOK, Occurrences
<1>14. KnowledgeTypeOK'
  BY <1>11, <1>13, Zenon DEF KnowledgeTyped, KnowledgeTypeOK
<1> QED  BY <1>14, Zenon DEF KnowledgeTyped, ItemOK

\* Conflicts and uncertainties that come and go keep the types.
LEMMA IntegrityTyped ==
    ASSUME KnowledgeTyped, Histories, NEW s \in Subjects,
           \/ EstablishConflict(s) \/ EndConflict(s)
           \/ EstablishUncertainty(s) \/ EndUncertainty(s)
    PROVE  KnowledgeTyped'
<1>1. UNCHANGED <<identity, source, item, clock>>
  BY Zenon DEF EstablishConflict, EndConflict, EstablishUncertainty, EndUncertainty, Establish, End
<1>2. ASSUME End(s) PROVE KnowledgeTyped'
  <2>1. PICK r, h, N, O : r = integrity[s] /\ h = r.history /\ N = r.version /\ O = Occurrences(s)
    OBVIOUS
  <2>2. h \in Seq(O)
    BY <2>1, Zenon DEF KnowledgeTyped, KnowledgeTypeOK, Occurrences
  <2>3. /\ Sequence(h, N) /\ r.state = "ACTIVE"
        /\ r.state = IF N = 0 THEN "NONE" ELSE h[N].state
    BY <1>2, <2>1, Zenon DEF End, Histories, HistoryOK
  <2>4. N \in Nat /\ N = Len(h) /\ N # 0
    <3>1. N \in Nat
      BY <2>3, Indices, Zenon
    <3>2. N = Len(h)
      BY <2>3, Zenon DEF Sequence
    <3>3. N # 0
      BY <2>3, SMT
    <3> QED  BY <3>1, <3>2, <3>3
  <2>5. h[N] \in O
    BY <2>2, <2>4, SMT
  <2>6. PICK l : l = h[N]
    OBVIOUS
  <2>7. LastOf(s) = l /\ l \in Occurrences(s)
    BY <2>1, <2>5, <2>6, Zenon DEF LastOf
  <2>8. PICK e : e = [state |-> "ENDED", content |-> l.content]
    OBVIOUS
  <2>9. e \in Occurrences(s)
    <3>1. CASE s.kind = "CONFLICT"
      BY <2>7, <2>8, <3>1, Zenon DEF Occurrences, ConflictOccurrences
    <3>2. CASE s.kind # "CONFLICT"
      BY <2>7, <2>8, <3>2, Zenon DEF Occurrences, UncertaintyOccurrences
    <3> QED  BY <3>1, <3>2
  <2>10. Occur(s, e)
    BY <1>2, <2>7, <2>8, Zenon DEF End
  <2> QED  BY <1>1, <2>9, <2>10, OccurTyped, Zenon
<1>3. ASSUME NEW contents, Establish(s, contents),
             NEW C, contents \subseteq C, Occurrences(s) = [state : {"ACTIVE", "ENDED"}, content : C]
      PROVE  KnowledgeTyped'
  <2>1. PICK content \in contents : Occur(s, [state |-> "ACTIVE", content |-> content])
    BY <1>3, Zenon DEF Establish
  <2>2. PICK e : e = [state |-> "ACTIVE", content |-> content]
    OBVIOUS
  <2>3. e \in Occurrences(s)
    BY <1>3, <2>2, Zenon
  <2>4. Occur(s, e)
    BY <2>1, <2>2, Zenon
  <2> QED  BY <1>1, <2>3, <2>4, OccurTyped, Zenon
<1>4. ASSUME EstablishConflict(s) PROVE KnowledgeTyped'
  <2>1. Participants(s.identity) \subseteq ConflictParticipants
    BY SubjectFields, ParticipantsTyped, Zenon
  <2>2. Contradictions(s.identity) \subseteq SUBSET ConflictParticipants
    <3>1. Contradictions(s.identity) \subseteq SUBSET Participants(s.identity)
      BY Zenon DEF Contradictions
    <3> QED  BY <2>1, <3>1, Zenon
  <2>3. Establish(s, Contradictions(s.identity)) /\ s.kind = "CONFLICT"
    BY <1>4, Zenon DEF EstablishConflict
  <2>4. Occurrences(s) = [state : {"ACTIVE", "ENDED"}, content : SUBSET ConflictParticipants]
    BY <2>3, Zenon DEF Occurrences, ConflictOccurrences
  <2>5. PICK C, contents : C = SUBSET ConflictParticipants /\ contents = Contradictions(s.identity)
    OBVIOUS
  <2>6. Establish(s, contents) /\ contents \subseteq C
    BY <2>2, <2>3, <2>5, Zenon
  <2>7. Occurrences(s) = [state : {"ACTIVE", "ENDED"}, content : C]
    BY <2>4, <2>5, Zenon
  <2> QED  BY <1>3, <2>6, <2>7, Zenon
<1>5. ASSUME EstablishUncertainty(s) PROVE KnowledgeTyped'
  <2>1. PICK D : D = [reason : Reasons, qualification : Qualifications \cup {"none"}]
    OBVIOUS
  <2>2. Doubts(s) \subseteq D
    <3>1. CASE TargetExists(s)
      <4>1. PICK Q : Q = {EvidenceQualification(source.connected)}
                            \cup (IF s.kind = "SOURCE_EVIDENCE" THEN {} ELSE {"none"})
        OBVIOUS
      <4>2. \A q \in Q : q \in Qualifications \cup {"none"}
        BY <4>1, QualificationTyped, SMT
      <4>3. Doubts(s) = {[reason |-> r, qualification |-> q] : r \in Reasons, q \in Q}
        BY <3>1, <4>1, SMT DEF Doubts
      <4> QED  BY <2>1, <4>2, <4>3, SMT
    <3>2. CASE ~TargetExists(s)
      <4>1. Doubts(s) = {}
        BY <3>2, SMT DEF Doubts
      <4> QED  BY <4>1
    <3> QED  BY <3>1, <3>2
  <2>3. Establish(s, Doubts(s)) /\ s.kind # "CONFLICT"
    BY <1>5, Zenon DEF EstablishUncertainty
  <2>4. Occurrences(s) = [state : {"ACTIVE", "ENDED"}, content : D]
    BY <2>1, <2>3, Zenon DEF Occurrences, UncertaintyOccurrences
  <2> QED  BY <1>3, <2>2, <2>3, <2>4, Zenon
<1> QED  BY <1>2, <1>4, <1>5, Zenon DEF EndConflict, EndUncertainty

\* The rows of the source.
Sources == [authority : Nat, wins : BOOLEAN, desired : Nat, ingested : Nat, connected : BOOLEAN]

\* A record more, or an identity that has ended.
LEMMA IdentityTyped ==
    ASSUME KnowledgeTyped, NEW i \in Identities, PutRecord(i) \/ EndIdentity(i) PROVE KnowledgeTyped'
<1>1. PICK o, h : o = identity[i] /\ h = o.records
  OBVIOUS
<1>2. o \in ContextIdentities /\ o.version \in Nat /\ h \in Seq(Claims)
  <2>1. o \in ContextIdentities
    BY <1>1, Zenon DEF KnowledgeTyped, KnowledgeTypeOK
  <2> QED  BY <1>1, <2>1, Zenon DEF ContextIdentities
<1>3. PICK n : n = identity'[i]
  OBVIOUS
<1>4. o.version + 1 \in Nat
  BY <1>2, SMT
<1>5. n \in ContextIdentities /\ identity' = [identity EXCEPT ![i] = n]
  <2>1. CASE PutRecord(i)
    <3>1. PICK claim \in Claims :
            identity' = [identity EXCEPT ![i].version = @ + 1, ![i].records = Append(@, claim)]
      BY <2>1, Zenon DEF PutRecord
    <3>2. PICK g : g = Append(h, claim)
      OBVIOUS
    <3>3. g \in Seq(Claims)
      BY <1>2, <3>2, SMT
    <3>4. PICK m : m = [o EXCEPT !.version = o.version + 1, !.records = g]
      OBVIOUS
    <3>5. m \in ContextIdentities
      BY <1>2, <1>4, <3>3, <3>4, Zenon DEF ContextIdentities
    <3>6. identity' = [identity EXCEPT ![i] = m] /\ identity'[i] = m
      BY <1>1, <3>1, <3>2, <3>4, Zenon DEF KnowledgeTyped, KnowledgeTypeOK
    <3> QED  BY <1>3, <3>5, <3>6, Zenon
  <2>2. CASE EndIdentity(i)
    <3>1. identity' = [identity EXCEPT ![i].version = @ + 1, ![i].state = "ENDED"]
      BY <2>2, Zenon DEF EndIdentity
    <3>2. PICK m : m = [o EXCEPT !.version = o.version + 1, !.state = "ENDED"]
      OBVIOUS
    <3>3. m \in ContextIdentities
      BY <1>2, <1>4, <3>2, Zenon DEF ContextIdentities
    <3>4. identity' = [identity EXCEPT ![i] = m] /\ identity'[i] = m
      BY <1>1, <3>1, <3>2, Zenon DEF KnowledgeTyped, KnowledgeTypeOK
    <3> QED  BY <1>3, <3>3, <3>4, Zenon
  <2> QED  BY <2>1, <2>2
<1>6. identity' \in [Identities -> ContextIdentities]
  BY <1>5, Zenon DEF KnowledgeTyped, KnowledgeTypeOK
<1>7. UNCHANGED <<source, item, integrity, clock>>
  BY Zenon DEF PutRecord, EndIdentity
<1> QED  BY <1>6, <1>7, Zenon DEF KnowledgeTyped, KnowledgeTypeOK, ItemOK

\* Authority, observations and the connection.
LEMMA SourceTyped ==
    ASSUME KnowledgeTyped, DecideAuthority \/ Observe \/ CompleteIngestion \/ ToggleConnection
    PROVE  KnowledgeTyped'
<1>1. PICK o, n : o = source /\ n = source'
  OBVIOUS
<1>2. o \in Sources
  BY <1>1, Zenon DEF KnowledgeTyped, KnowledgeTypeOK, Sources
<1>3. \/ \E w \in BOOLEAN : n = [o EXCEPT !.authority = o.authority + 1, !.wins = w]
      \/ n = [o EXCEPT !.desired = o.desired + 1]
      \/ n = [o EXCEPT !.ingested = o.desired]
      \/ n = [o EXCEPT !.connected = ~o.connected]
  <2>1. CASE DecideAuthority
    <3>1. PICK w \in BOOLEAN : source' = [source EXCEPT !.authority = @ + 1, !.wins = w]
      BY <2>1, Zenon DEF DecideAuthority
    <3> QED  BY <1>1, <3>1, Zenon
  <2>2. CASE Observe \/ CompleteIngestion \/ ToggleConnection
    <3>1. CASE Observe
      BY <1>1, <3>1, Zenon DEF Observe
    <3>2. CASE CompleteIngestion
      BY <1>1, <3>2, Zenon DEF CompleteIngestion
    <3>3. CASE ToggleConnection
      BY <1>1, <3>3, Zenon DEF ToggleConnection
    <3> QED  BY <2>2, <3>1, <3>2, <3>3
  <2> QED  BY <2>1, <2>2
<1>4. n \in Sources
  <2>1. /\ o.authority + 1 \in Nat /\ o.desired + 1 \in Nat /\ o.desired \in Nat
        /\ (~o.connected) \in BOOLEAN
    <3>1. o.authority \in Nat /\ o.desired \in Nat
      BY <1>2, Zenon DEF Sources
    <3>2. o.authority + 1 \in Nat /\ o.desired + 1 \in Nat
      BY <3>1, SMT
    <3>3. (~o.connected) \in BOOLEAN
      BY SMT
    <3> QED  BY <3>1, <3>2, <3>3, Zenon
  <2> QED  BY <1>2, <1>3, <2>1, Zenon DEF Sources
<1>5. UNCHANGED <<identity, item, integrity, clock>>
  BY Zenon DEF DecideAuthority, Observe, CompleteIngestion, ToggleConnection
<1> QED  BY <1>1, <1>4, <1>5, Zenon DEF KnowledgeTyped, KnowledgeTypeOK, ItemOK, Sources

\* An item that asserts something, at the next instant.
LEMMA ItemTyped ==
    ASSUME KnowledgeTyped, NEW c \in Candidates, NEW x \in WorkingItems, x.claim \in Claims,
           x.at = clock + 1, clock' = clock + 1, item' = [item EXCEPT ![c] = x],
           UNCHANGED <<identity, source, integrity>>
    PROVE  KnowledgeTyped'
<1>1. PICK t, it : t = clock' /\ it = item'
  OBVIOUS
<1>2. clock \in Nat /\ item \in [Candidates -> WorkingItems] /\ \A d \in Candidates : ItemOK(item[d])
  BY Zenon DEF KnowledgeTyped, KnowledgeTypeOK
<1>3. \A d \in Candidates : item[d].at \in Nat
  BY <1>2, Zenon DEF WorkingItems
<1>4. it \in [Candidates -> WorkingItems]
  BY <1>1, <1>2, Zenon
<1>5. t = clock + 1 /\ t \in Nat /\ t <= t
  BY <1>1, <1>2, SMT
<1>6. ASSUME NEW d \in Candidates PROVE (it[d].trust # "NONE" => it[d].claim \in Claims) /\ it[d].at <= t
  <2>1. CASE d = c
    <3>1. it[d] = x
      BY <1>1, <1>2, <2>1, Zenon
    <3> QED  BY <3>1, <1>5, Zenon
  <2>2. CASE d # c
    <3>1. it[d] = item[d]
      BY <1>1, <1>2, <2>2, Zenon
    <3>2. (item[d].trust # "NONE" => item[d].claim \in Claims) /\ item[d].at <= clock
      BY <1>2, Zenon DEF ItemOK
    <3>3. item[d].at <= t
      BY <1>2, <1>3, <1>5, <3>2, SMT
    <3> QED  BY <3>1, <3>2, <3>3, Zenon
  <2> QED  BY <2>1, <2>2
<1>7. (\A d \in Candidates : ItemOK(item[d]))'
  BY <1>1, <1>6, Zenon DEF ItemOK
<1> QED  BY <1>1, <1>4, <1>5, <1>7, Zenon DEF KnowledgeTyped, KnowledgeTypeOK

\* A candidate that is taken in is stamped with the new clock.
LEMMA IntakeTyped == ASSUME KnowledgeTyped, NEW c \in Candidates, Intake(c) PROVE KnowledgeTyped'
<1>1. PICK x : x = [trust |-> "PENDING", claim |-> Claim[c], at |-> clock']
  OBVIOUS
<1>2. Claim[c] \in Claims
  BY ConflictUncertaintyAssumption, Zenon
<1>3. clock' = clock + 1 /\ item' = [item EXCEPT ![c] = x] /\ UNCHANGED <<identity, source, integrity>>
  BY <1>1, Zenon DEF Intake
<1>4. clock' \in Nat
  BY <1>3, SMT DEF KnowledgeTyped, KnowledgeTypeOK
<1>5. x \in WorkingItems /\ x.claim \in Claims /\ x.at = clock + 1
  <2>1. x \in WorkingItems
    BY <1>1, <1>2, <1>4, Zenon DEF WorkingItems
  <2> QED  BY <2>1, <1>1, <1>2, <1>3, Zenon
<1> QED  BY <1>3, <1>5, ItemTyped, Zenon

-------------------------------------------------------------------------------
(* The types of calls and decisions                                        *)

\* The rules say a class or leave it open.
LEMMA VerdictTyped == ASSUME NEW f, NEW q PROVE Verdict(f, q) \in Classes \cup {"OPEN"}
  BY SMT DEF Verdict, Classes

\* What is composed of a path, a class and a claim is a result.
LEMMA ResultTyped ==
    ASSUME NEW path \in {"DETERMINISTIC", "MODEL"}, NEW class \in Classes, NEW claim \in Claims
    PROVE  /\ Result(path, class, claim) \in Results
           /\ Result(path, class, claim).path = path /\ Result(path, class, claim).class = class
<1>1. claim # "none"
  BY ConflictUncertaintyAssumption, Zenon
<1>2. PICK x : x = IF class = "UNCHANGED" THEN "none" ELSE claim
  BY SMT
<1>3. x \in Claims \cup {"none"} /\ (class = "UNCHANGED" <=> x = "none")
  BY <1>1, <1>2, SMT
<1>4. PICK r : r = [path |-> path, class |-> class, claim |-> x]
  OBVIOUS
<1>5. r \in Results /\ r.path = path /\ r.class = class
  BY <1>3, <1>4, Zenon DEF Results
<1>6. Result(path, class, claim) = r
  BY <1>2, <1>4, SMT DEF Result
<1> QED  BY <1>5, <1>6, Zenon

\* A claim goes with a result unless nothing changed.
LEMMA ResultClaim == ASSUME NEW r \in Results, r.class # "UNCHANGED" PROVE r.claim \in Claims
  BY Zenon DEF Results

\* An attempt that can be made is within the route.
LEMMA AttemptTyped ==
    ASSUME NEW k \in OpenCalls, NEW a \in Nat PROVE CallTyped(Attempt(k, a))
<1>1. PICK L : L = Len(Route) * MaxAttempts
  OBVIOUS
<1>2. L \in Nat
  <2>1. Len(Route) \in Nat /\ MaxAttempts \in Nat
    BY ReconciliationAssumption, SMT
  <2> QED  BY <1>1, <2>1, SMT
<1>3. CASE Attempt(k, a) = Idle
  BY <1>3, Zenon DEF CallTyped
<1>4. CASE a <= L /\ Attempt(k, a) = [k EXCEPT !.pc = "ASK", !.attempt = a, !.result = NoResult]
  <2>1. PICK n : n = [k EXCEPT !.pc = "ASK", !.attempt = a, !.result = NoResult]
    OBVIOUS
  <2>2. a \in 0..L
    BY <1>2, <1>4, SMT
  <2>3. n \in OpenCalls /\ n.pc # "COMMIT"
    <3>1. k \in OpenCalls
      OBVIOUS
    <3>2. NoResult \in Results \cup {NoResult} /\ "ASK" \in {"READ", "ASK", "COMMIT"} /\ "ASK" # "COMMIT"
      OBVIOUS
    <3>3. n \in OpenCalls
      BY <1>1, <2>1, <2>2, <3>1, <3>2, Zenon DEF OpenCalls
    <3>4. n.pc = "ASK"
      BY <2>1, <3>1, Zenon DEF OpenCalls
    <3> QED  BY <3>2, <3>3, <3>4, Zenon
  <2> QED  BY <1>4, <2>1, <2>3, Zenon DEF CallTyped
<1>5. \/ Attempt(k, a) = Idle
      \/ (a <= L /\ Attempt(k, a) = [k EXCEPT !.pc = "ASK", !.attempt = a, !.result = NoResult])
  BY <1>1, SMT DEF Attempt
<1> QED  BY <1>3, <1>4, <1>5

-------------------------------------------------------------------------------
(* What a worker's step makes of its call                                  *)

\* The rules have left the question of k open, as far as its basis is present.
Open(k) ==
    /\ Below(k.basis, Basis(IdentityOf[k.candidate]))
    /\ k.basis = Basis(IdentityOf[k.candidate]) =>
          Verdict(Facts(k.candidate), Qualified(k.candidate, k.connected)) = "OPEN"

\* A call that waits is open, or typed by its place.
LEMMA CallCases ==
    ASSUME NEW k, CallTyped(k), k.pc # "IDLE"
    PROVE  k \in OpenCalls /\ k.pc \in {"READ", "ASK", "COMMIT"} /\ (k.pc = "COMMIT" => k.result \in Results)
<1>1. Idle.pc = "IDLE"
  BY Zenon DEF Idle
<1>2. k \in OpenCalls /\ (k.pc = "COMMIT" => k.result \in Results)
  BY <1>1, Zenon DEF CallTyped
<1> QED  BY <1>2, Zenon DEF OpenCalls

\* No call is truthful.
LEMMA IdleTruthful == CallTyped(Idle) /\ Truthful(Idle)
<1>1. Idle.pc = "IDLE"
  BY Zenon DEF Idle
<1> QED  BY <1>1, Zenon DEF CallTyped, Truthful

\* An attempt at an open question stays with its material.
LEMMA AttemptMakes ==
    ASSUME NEW k \in OpenCalls, Open(k), NEW a \in Nat
    PROVE  CallTyped(Attempt(k, a)) /\ Truthful(Attempt(k, a))
<1>1. CASE Attempt(k, a) = Idle
  BY <1>1, IdleTruthful, Zenon
<1>2. CASE Attempt(k, a) = [k EXCEPT !.pc = "ASK", !.attempt = a, !.result = NoResult]
  <2>1. PICK n : n = [k EXCEPT !.pc = "ASK", !.attempt = a, !.result = NoResult]
    OBVIOUS
  <2>2. k \in OpenCalls
    OBVIOUS
  <2>3. n.pc = "ASK" /\ n.candidate = k.candidate /\ n.basis = k.basis /\ n.connected = k.connected
    BY <2>1, <2>2, Zenon DEF OpenCalls
  <2>4. "ASK" # "READ"
    OBVIOUS
  <2>5. Said(n) = "OPEN"
    BY <2>3, Zenon DEF Said
  <2>6. Truthful(n)
    BY <2>3, <2>4, <2>5, Zenon DEF Open, Truthful
  <2> QED  BY <1>2, <2>1, <2>6, AttemptTyped, Zenon
<1> QED  BY <1>1, <1>2, SMT DEF Attempt

\* A call that asks, or that has a model's answer, is about an open question.
LEMMA StillOpen ==
    ASSUME NEW k, Truthful(k), k.pc = "ASK" \/ (k.pc = "COMMIT" /\ k.result.path = "MODEL")
    PROVE  Open(k)
<1>1. k.pc # "IDLE" /\ k.pc # "READ"
  BY SMT
<1>2. Said(k) = "OPEN"
  BY Zenon DEF Said
<1> QED  BY <1>1, <1>2, Zenon DEF Open, Truthful

\* The present basis is not behind itself.
LEMMA BelowItself == ASSUME NEW b \in Bases PROVE Below(b, b)
<1>1. /\ b.record \in Nat /\ b.version \in Nat /\ b.working \in Nat
      /\ b.authority \in Nat /\ b.frontier \in Nat /\ b.integrity \in Nat
  BY Zenon DEF Bases
<1>2. \A n \in Nat : n <= n
  BY SMT
<1> QED  BY <1>1, <1>2, Zenon DEF Below

\* The main statement reads the basis and the facts at one moment.
LEMMA LoadCandidateMakes ==
    ASSUME KnowledgeTyped, NEW w \in Workers, NEW c \in Candidates, LoadCandidate(w, c)
    PROVE  \E k : call' = [call EXCEPT ![w] = k] /\ CallTyped(k) /\ Truthful(k)
<1>1. PICK i, b, f : i = IdentityOf[c] /\ b = Basis(IdentityOf[c]) /\ f = Facts(c)
  OBVIOUS
<1>2. PICK k : k = [Idle EXCEPT !.pc = "READ", !.candidate = c, !.basis = b, !.facts = f]
  OBVIOUS
<1>3. k = [pc |-> "READ", candidate |-> c, basis |-> b, facts |-> f,
           connected |-> FALSE, attempt |-> 0, result |-> NoResult]
  BY <1>2, Zenon DEF Idle
<1>4. i \in Identities
  BY <1>1, ConflictUncertaintyAssumption, Zenon
<1>5. b \in Bases /\ f \in SUBSET FactKinds
  <2>1. b \in Bases
    BY <1>1, <1>4, BasisTyped, Zenon
  <2>2. f \in SUBSET FactKinds
    BY <1>1, Zenon DEF Facts
  <2> QED  BY <2>1, <2>2
<1>6. 0 \in 0..Len(Route) * MaxAttempts
  <2>1. Len(Route) \in Nat /\ MaxAttempts \in Nat
    BY ReconciliationAssumption, SMT
  <2> QED  BY <2>1, SMT
<1>7. k \in OpenCalls /\ k.pc = "READ" /\ k.candidate = c /\ k.basis = b /\ k.facts = f
  <2>1. NoResult \in Results \cup {NoResult} /\ FALSE \in BOOLEAN /\ "READ" \in {"READ", "ASK", "COMMIT"}
    OBVIOUS
  <2> QED  BY <1>3, <1>5, <1>6, <2>1, Zenon DEF OpenCalls
<1>8. CallTyped(k)
  BY <1>7, SMT DEF CallTyped
<1>9. Truthful(k)
  <2>1. Below(b, Basis(i))
    BY <1>1, <1>5, BelowItself, Zenon
  <2> QED  BY <1>1, <1>7, <2>1, Zenon DEF Truthful
<1>10. call' = [call EXCEPT ![w] = k]
  BY <1>1, <1>2, Zenon DEF LoadCandidate
<1> QED  BY <1>8, <1>9, <1>10

\* The rules decide on the facts that were read and the qualification as it is.
LEMMA LoadEvidenceMakes ==
    ASSUME KnowledgeTyped, NEW w \in Workers, CallTyped(call[w]), Truthful(call[w]), LoadEvidence(w)
    PROVE  \E k : call' = [call EXCEPT ![w] = k] /\ CallTyped(k) /\ Truthful(k)
<1>1. PICK o, c, q : o = call[w] /\ c = o.candidate /\ q = source.connected
  OBVIOUS
<1>2. /\ o.pc = "READ" /\ o \in OpenCalls /\ c \in Candidates /\ o.basis \in Bases
      /\ o.attempt \in 0..Len(Route) * MaxAttempts
  <2>1. o.pc = "READ"
    BY <1>1, Zenon DEF LoadEvidence
  <2>2. o \in OpenCalls
    <3>1. o.pc # "IDLE"
      BY <2>1, SMT
    <3> QED  BY <1>1, <3>1, CallCases, Zenon
  <2> QED  BY <1>1, <2>1, <2>2, Zenon DEF OpenCalls
<1>3. q \in BOOLEAN
  BY <1>1, Zenon DEF KnowledgeTyped, KnowledgeTypeOK
<1>4. PICK m : m = [o EXCEPT !.connected = q, !.facts = {}]
  OBVIOUS
<1>5. /\ m \in OpenCalls /\ m.pc = "READ" /\ m.candidate = c /\ m.basis = o.basis /\ m.connected = q
  <2>1. {} \in SUBSET FactKinds
    OBVIOUS
  <2> QED  BY <1>1, <1>2, <1>3, <1>4, <2>1, Zenon DEF OpenCalls
<1>6. PICK v : v = Verdict(o.facts, Qualified(c, q))
  OBVIOUS
<1>7. /\ Below(o.basis, Basis(IdentityOf[c]))
      /\ o.basis = Basis(IdentityOf[c]) => Verdict(Facts(c), Qualified(c, q)) = v
  <2>1. o.pc # "IDLE"
    BY <1>2, SMT
  <2>2. Truthful(o)
    BY <1>1, Zenon
  <2>3. Below(o.basis, Basis(IdentityOf[c])) /\ (o.basis = Basis(IdentityOf[c]) => o.facts = Facts(c))
    BY <1>1, <1>2, <2>1, <2>2, Zenon DEF Truthful
  <2> QED  BY <2>3, <1>6, Zenon
<1>8. CASE v = "OPEN"
  <2>1. Open(m)
    BY <1>5, <1>7, <1>8, Zenon DEF Open
  <2>2. 1 \in Nat
    OBVIOUS
  <2>3. CallTyped(Attempt(m, 1)) /\ Truthful(Attempt(m, 1))
    BY <1>5, <2>1, <2>2, AttemptMakes, Zenon
  <2>4. call' = [call EXCEPT ![w] = Attempt(m, 1)]
    BY <1>1, <1>4, <1>6, <1>8, Zenon DEF LoadEvidence
  <2> QED  BY <2>3, <2>4
<1>9. CASE v # "OPEN"
  <2>1. PICK r : r = Result("DETERMINISTIC", v, Claim[c])
    OBVIOUS
  <2>2. v \in Classes /\ Claim[c] \in Claims /\ "DETERMINISTIC" \in {"DETERMINISTIC", "MODEL"}
    <3>1. v \in Classes
      BY <1>6, <1>9, VerdictTyped, Zenon
    <3> QED  BY <1>2, <3>1, ConflictUncertaintyAssumption, Zenon
  <2>3. r \in Results /\ r.path = "DETERMINISTIC" /\ r.class = v
    <3>1. PICK path, claim : path = "DETERMINISTIC" /\ claim = Claim[c]
      OBVIOUS
    <3>2. path \in {"DETERMINISTIC", "MODEL"} /\ claim \in Claims /\ r = Result(path, v, claim)
      BY <2>1, <2>2, <3>1, Zenon
    <3>3. /\ Result(path, v, claim) \in Results /\ Result(path, v, claim).path = path
          /\ Result(path, v, claim).class = v
      BY <2>2, <3>2, ResultTyped, SMT
    <3> QED  BY <3>1, <3>2, <3>3, Zenon
  <2>4. PICK k : k = [m EXCEPT !.pc = "COMMIT", !.result = r]
    OBVIOUS
  <2>5. /\ k \in OpenCalls /\ k.pc = "COMMIT" /\ k.candidate = c /\ k.basis = o.basis
        /\ k.connected = q /\ k.result = r
    <3>1. r \in Results \cup {NoResult} /\ "COMMIT" \in {"READ", "ASK", "COMMIT"}
      BY <2>3, Zenon
    <3> QED  BY <1>5, <2>4, <3>1, Zenon DEF OpenCalls
  <2>6. CallTyped(k)
    BY <2>3, <2>5, Zenon DEF CallTyped
  <2>7. Said(k) = v
    <3>1. k.pc # "ASK" /\ k.result.path # "MODEL"
      BY <2>3, <2>5, SMT
    <3> QED  BY <2>3, <2>5, <3>1, Zenon DEF Said
  <2>8. Truthful(k)
    <3>1. k.pc # "READ"
      BY <2>5, SMT
    <3> QED  BY <1>7, <2>5, <2>7, <3>1, Zenon DEF Truthful
  <2>9. call' = [call EXCEPT ![w] = k]
    BY <1>1, <1>4, <1>6, <1>9, <2>1, <2>4, Zenon DEF LoadEvidence
  <2> QED  BY <2>6, <2>8, <2>9
<1> QED  BY <1>8, <1>9

\* An answer of a model is a result.
LEMMA AcceptedTyped == ASSUME NEW r \in Accepted PROVE r \in Results /\ r.path = "MODEL"
<1>1. PICK class \in ModelClasses, claim \in Claims : r = Result("MODEL", class, claim)
  BY SMT DEF Accepted
<1>2. class \in Classes
  BY ReconciliationAssumption, Zenon DEF Classes
<1>3. "MODEL" \in {"DETERMINISTIC", "MODEL"}
  OBVIOUS
<1> QED  BY <1>1, <1>2, <1>3, ResultTyped, Zenon

\* What is counted of a call has its types.
LEMMA InvocationTyped ==
    ASSUME invoked \subseteq Invocations, NEW w \in Workers, call[w] \in OpenCalls, NEW s \in BOOLEAN
    PROVE  Accounted(Invocation(w, s)) \subseteq Invocations
<1>1. PICK k, row : k = call[w] /\ row = Invocation(w, s)
  OBVIOUS
<1>2. row = [candidate |-> k.candidate, basis |-> k.basis, attempt |-> k.attempt, succeeded |-> s]
  BY <1>1, Zenon DEF Invocation
<1>3. k.candidate \in Candidates /\ k.basis \in Bases /\ k.attempt \in 0..Len(Route) * MaxAttempts
  BY <1>1, Zenon DEF OpenCalls
<1>4. k.attempt \in Nat
  <2>1. PICK a, L : a = k.attempt /\ L = Len(Route) * MaxAttempts
    OBVIOUS
  <2>2. a \in 0..L
    BY <1>3, <2>1, Zenon
  <2>3. L \in Int
    <3>1. Len(Route) \in Nat /\ MaxAttempts \in Nat
      BY ReconciliationAssumption, SMT
    <3> QED  BY <2>1, <3>1, SMT
  <2>4. a \in Nat
    BY <2>2, <2>3, SMT
  <2> QED  BY <2>1, <2>4, Zenon
<1>5. row \in Invocations
  BY <1>2, <1>3, <1>4, Zenon DEF Invocations
<1>6. Accounted(row) = invoked \/ Accounted(row) = invoked \cup {row}
  BY Zenon DEF Accounted
<1> QED  BY <1>1, <1>5, <1>6, Zenon

\* A model answers, fails or comes too late; the caller goes; a decision is there.
LEMMA OtherStepsMake ==
    ASSUME NEW w \in Workers, CallTyped(call[w]), Truthful(call[w]), invoked \subseteq Invocations,
           \/ Answer(w) \/ Fail(w) \/ Abandon(w) \/ Replay(w) \/ CommitStale(w)
    PROVE  /\ \E k : call' = [call EXCEPT ![w] = k] /\ CallTyped(k) /\ Truthful(k)
           /\ invoked' \subseteq Invocations
<1>1. PICK o : o = call[w]
  OBVIOUS
<1>2. CallTyped(o) /\ Truthful(o)
  BY <1>1, Zenon
<1>3. CASE Abandon(w) \/ Replay(w)
  <2>1. call' = [call EXCEPT ![w] = Idle] /\ invoked' = invoked
    BY <1>3, Zenon DEF Abandon, Replay
  <2> QED  BY <2>1, IdleTruthful, Zenon
<1>4. ASSUME o \in OpenCalls PROVE o.attempt + 1 \in Nat
  <2>1. PICK a, L : a = o.attempt /\ L = Len(Route) * MaxAttempts
    OBVIOUS
  <2>2. a \in 0..L
    BY <1>4, <2>1, Zenon DEF OpenCalls
  <2>3. L \in Int
    <3>1. Len(Route) \in Nat /\ MaxAttempts \in Nat
      BY ReconciliationAssumption, SMT
    <3> QED  BY <2>1, <3>1, SMT
  <2>4. a + 1 \in Nat
    BY <2>2, <2>3, SMT
  <2> QED  BY <2>1, <2>4, Zenon
<1>5. TRUE \in BOOLEAN /\ FALSE \in BOOLEAN
  OBVIOUS
<1>6. CASE Answer(w)
  <2>1. PICK r \in Accepted : call' = [call EXCEPT ![w].pc = "COMMIT", ![w].result = r]
    BY <1>6, Zenon DEF Answer
  <2>2. o.pc = "ASK" /\ invoked' = Accounted(Invocation(w, TRUE))
    BY <1>1, <1>6, Zenon DEF Answer
  <2>3. o \in OpenCalls
    <3>1. o.pc # "IDLE"
      BY <2>2, SMT
    <3> QED  BY <1>2, <3>1, CallCases, Zenon
  <2>4. PICK k : k = [o EXCEPT !.pc = "COMMIT", !.result = r]
    OBVIOUS
  <2>5. r \in Results /\ r.path = "MODEL"
    BY <2>1, AcceptedTyped, Zenon
  <2>6. /\ k \in OpenCalls /\ k.pc = "COMMIT" /\ k.candidate = o.candidate /\ k.basis = o.basis
        /\ k.connected = o.connected /\ k.result = r
    <3>1. r \in Results \cup {NoResult} /\ "COMMIT" \in {"READ", "ASK", "COMMIT"}
      BY <2>5, Zenon
    <3> QED  BY <2>3, <2>4, <3>1, Zenon DEF OpenCalls
  <2>7. CallTyped(k)
    BY <2>5, <2>6, Zenon DEF CallTyped
  <2>8. Open(o)
    BY <1>2, <2>2, StillOpen, Zenon
  <2>9. Truthful(k)
    <3>1. k.pc # "READ" /\ Said(k) = "OPEN"
      <4>1. k.pc # "READ"
        BY <2>6, SMT
      <4>2. k.result.path = "MODEL"
        BY <2>5, <2>6, Zenon
      <4> QED  BY <4>1, <4>2, Zenon DEF Said
    <3> QED  BY <2>6, <2>8, <3>1, Zenon DEF Open, Truthful
  <2>10. call' = [call EXCEPT ![w] = k]
    BY <1>1, <2>1, <2>4, Zenon
  <2> QED  BY <1>1, <1>5, <2>2, <2>3, <2>7, <2>9, <2>10, InvocationTyped, Zenon
<1>7. CASE Fail(w)
  <2>1. o.pc = "ASK" /\ invoked' = Accounted(Invocation(w, FALSE))
    BY <1>1, <1>7, Zenon DEF Fail
  <2>2. \E next \in {Attempt(o, o.attempt + 1), Idle} : call' = [call EXCEPT ![w] = next]
    BY <1>1, <1>7, Zenon DEF Fail
  <2>3. o \in OpenCalls /\ Open(o)
    <3>1. o.pc # "IDLE"
      BY <2>1, SMT
    <3> QED  BY <1>2, <2>1, <3>1, CallCases, StillOpen, Zenon
  <2>4. \A next \in {Attempt(o, o.attempt + 1), Idle} : CallTyped(next) /\ Truthful(next)
    BY <1>4, <2>3, AttemptMakes, IdleTruthful, Zenon
  <2> QED  BY <1>1, <1>5, <2>1, <2>2, <2>3, <2>4, InvocationTyped, Zenon
<1>8. CASE CommitStale(w)
  <2>1. CASE o.result.path = "MODEL"
    <3>1. /\ o.pc = "COMMIT" /\ invoked' = Accounted(Invocation(w, FALSE))
          /\ call' = [call EXCEPT ![w] = Attempt(o, o.attempt + 1)]
      BY <1>1, <1>8, <2>1, Zenon DEF CommitStale
    <3>2. o \in OpenCalls /\ Open(o)
      <4>1. o.pc # "IDLE"
        BY <3>1, SMT
      <4> QED  BY <1>2, <2>1, <3>1, <4>1, CallCases, StillOpen, Zenon
    <3>3. CallTyped(Attempt(o, o.attempt + 1)) /\ Truthful(Attempt(o, o.attempt + 1))
      BY <1>4, <3>2, AttemptMakes, Zenon
    <3> QED  BY <1>1, <1>5, <3>1, <3>2, <3>3, InvocationTyped, Zenon
  <2>2. CASE o.result.path # "MODEL"
    <3>1. call' = [call EXCEPT ![w] = Idle] /\ invoked' = invoked
      BY <1>1, <1>8, <2>2, Zenon DEF CommitStale
    <3> QED  BY <3>1, IdleTruthful, Zenon
  <2> QED  BY <2>1, <2>2
<1> QED  BY <1>3, <1>6, <1>7, <1>8

-------------------------------------------------------------------------------
(* A decision                                                              *)

\* The clock may go on.
LEMMA ClockTyped ==
    ASSUME KnowledgeTyped, clock' = clock + 1, UNCHANGED <<identity, source, item, integrity>>
    PROVE  KnowledgeTyped'
<1>1. PICK t : t = clock'
  OBVIOUS
<1>2. clock \in Nat /\ \A d \in Candidates : item[d].at \in Nat /\ item[d].at <= clock
  BY Zenon DEF KnowledgeTyped, KnowledgeTypeOK, ItemOK, WorkingItems
<1>3. t \in Nat /\ \A d \in Candidates : item[d].at <= t
  BY <1>1, <1>2, SMT
<1>4. \A d \in Candidates : (item[d].trust # "NONE" => item[d].claim \in Claims) /\ item[d].at <= t
  BY <1>3, Zenon DEF KnowledgeTyped, ItemOK
<1>5. (\A d \in Candidates : ItemOK(item[d]))'
  BY <1>1, <1>4, Zenon DEF ItemOK
<1> QED  BY <1>1, <1>3, <1>5, Zenon DEF KnowledgeTyped, KnowledgeTypeOK

\* A decision that changes something gives the item a claim.
LEMMA CommitTyped ==
    ASSUME Typed, NEW w \in Workers, Commit(w)
    PROVE  KnowledgeTyped' /\ RecordsTyped' /\ call' = [call EXCEPT ![w] = Idle] /\ invoked' = invoked
<1>1. PICK o, c, r, b : o = call[w] /\ c = o.candidate /\ r = o.result /\ b = o.basis
  OBVIOUS
<1>2. PICK row : row = [candidate |-> c, basis |-> b, result |-> r]
  OBVIOUS
<1>3. /\ o.pc = "COMMIT" /\ clock' = clock + 1 /\ item' = Reconciled(c, r)
      /\ records' = Append(records, row) /\ current' = [current EXCEPT ![c] = Len(records')]
      /\ call' = [call EXCEPT ![w] = Idle] /\ UNCHANGED <<identity, source, integrity, invoked>>
  BY <1>1, <1>2, Zenon DEF Commit
<1>4. c \in Candidates /\ b \in Bases /\ r \in Results
  <2>1. CallTyped(o) /\ o.pc # "IDLE"
    <3>1. o.pc # "IDLE"
      BY <1>3, SMT
    <3> QED  BY <1>1, <3>1, Zenon DEF Typed
  <2>2. o \in OpenCalls /\ o.result \in Results
    BY <1>3, <2>1, CallCases, Zenon
  <2> QED  BY <1>1, <2>2, Zenon DEF OpenCalls
<1>5. KnowledgeTyped
  BY Zenon DEF Typed
<1>6. KnowledgeTyped'
  <2>1. CASE r.class = "UNCHANGED"
    <3>1. item' = item
      BY <1>3, <2>1, Zenon DEF Reconciled
    <3> QED  BY <1>3, <1>5, <3>1, ClockTyped, Zenon
  <2>2. CASE r.class # "UNCHANGED"
    <3>1. PICK x : x = [trust |-> "RECONCILED", claim |-> r.claim, at |-> clock']
      OBVIOUS
    <3>2. item' = [item EXCEPT ![c] = x]
      BY <1>3, <2>2, <3>1, Zenon DEF Reconciled, Worked
    <3>3. r.claim \in Claims
      BY <1>4, <2>2, ResultClaim, Zenon
    <3>4. clock' \in Nat
      BY <1>3, <1>5, SMT DEF KnowledgeTyped, KnowledgeTypeOK
    <3>5. x \in WorkingItems /\ x.claim \in Claims /\ x.at = clock + 1
      <4>1. x \in WorkingItems
        BY <3>1, <3>3, <3>4, Zenon DEF WorkingItems
      <4> QED  BY <4>1, <1>3, <3>1, <3>3, Zenon
    <3> QED  BY <1>3, <1>4, <1>5, <3>2, <3>5, ItemTyped, Zenon
  <2> QED  BY <2>1, <2>2
<1>7. RecordsTyped'
  <2>1. PICK R, S, cur : R = records /\ S = records' /\ cur = current'
    OBVIOUS
  <2>2. row \in Decisions
    BY <1>2, <1>4, Zenon DEF Decisions
  <2>3. R \in Seq(Decisions) /\ current \in [Candidates -> 0..Len(R)]
    BY <2>1, Zenon DEF Typed, RecordsTyped
  <2>4. S \in Seq(Decisions) /\ Len(S) = Len(R) + 1 /\ Len(R) \in Nat
    <3>1. S = Append(R, row)
      BY <1>3, <2>1, Zenon
    <3>2. PICK D : D = Decisions
      OBVIOUS
    <3>3. S \in Seq(D) /\ Len(S) = Len(R) + 1 /\ Len(R) \in Nat
      BY <2>2, <2>3, <3>1, <3>2, SMT
    <3> QED  BY <3>2, <3>3, Zenon
  <2>5. cur = [current EXCEPT ![c] = Len(S)]
    BY <1>3, <2>1, Zenon
  <2>6. 0..Len(R) \subseteq 0..Len(S) /\ Len(S) \in 0..Len(S)
    BY <2>4, SMT
  <2>7. cur \in [Candidates -> 0..Len(S)]
    <3>1. PICK P, Q : P = 0..Len(R) /\ Q = 0..Len(S)
      OBVIOUS
    <3>2. \A d \in Candidates : current[d] \in Q
      BY <2>3, <2>6, <3>1, Zenon
    <3>3. current = [d \in Candidates |-> current[d]] /\ Len(S) \in Q
      BY <2>3, <2>6, <3>1, Zenon
    <3>4. cur \in [Candidates -> Q]
      BY <2>5, <3>2, <3>3, Zenon
    <3> QED  BY <3>1, <3>4, Zenon
  <2> QED  BY <2>1, <2>4, <2>7, Zenon DEF RecordsTyped
<1> QED  BY <1>3, <1>6, <1>7

-------------------------------------------------------------------------------
(* The basis moves forward                                                 *)

\* Nothing the basis of i names moves back, and what stays the same under one
\* of its versions stays the same altogether.
IdentityForward(i) ==
    \/ identity'[i] = identity[i]
    \/ /\ identity[i].version < identity'[i].version
       /\ Len(identity[i].records) <= Len(identity'[i].records)

Frontier(o) == 2 * o.desired + o.ingested

SourceForward ==
    /\ source.authority <= source'.authority /\ Frontier(source) <= Frontier(source')
    /\ source'.authority = source.authority => source'.wins = source.wins
    /\ Frontier(source') = Frontier(source) =>
           source'.desired = source.desired /\ source'.ingested = source.ingested

ItemsForward(i) ==
    \/ \A c \in Candidates : IdentityOf[c] = i => item'[c] = item[c]
    \/ WorkingVersion(i) < WorkingVersion(i)'

IntegrityForward ==
    \A s \in Subjects : integrity'[s] = integrity[s] \/ integrity[s].version < integrity'[s].version

Forward(i) == IdentityForward(i) /\ SourceForward /\ ItemsForward(i) /\ IntegrityForward

\* The basis of i is not behind what it was; if it is what it was, so are the
\* facts and the qualification it stands for.
Onward(i, c) ==
    /\ Basis(i)' \in Bases /\ Below(Basis(i), Basis(i)')
    /\ Basis(i)' = Basis(i) =>
          Facts(c)' = Facts(c) /\ \A q \in BOOLEAN : Qualified(c, q)' = Qualified(c, q)

\* Items that stay leave the newest instant where it was.
LEMMA SameInstants ==
    ASSUME NEW it, NEW jt, NEW i, \A c \in Candidates : IdentityOf[c] = i => jt[c] = it[c]
    PROVE  Instants(jt, i) = Instants(it, i)
<1>1. ASSUME NEW x PROVE x \in Instants(jt, i) <=> x \in Instants(it, i)
  BY Zenon DEF Instants
<1> QED  BY <1>1, Zenon

\* A part of the basis: it never moves back, and if it stays, so does what it is for.
LEMMA IdentityOnward ==
    ASSUME KnowledgeTyped, KnowledgeTyped', NEW i \in Identities, IdentityForward(i),
           NEW v, NEW w, NEW m, NEW n, v = identity[i].version, w = identity'[i].version,
           m = Current(i), n = Current(i)'
    PROVE  w \in Nat /\ n \in Nat /\ v <= w /\ m <= n /\ (v = w => identity'[i] = identity[i])
<1>1. v \in Nat /\ m \in Nat /\ w \in Nat /\ n \in Nat
  <2>1. /\ identity[i].version \in Nat /\ identity[i].records \in Seq(Claims)
        /\ identity'[i].version \in Nat /\ identity'[i].records \in Seq(Claims)
    BY Zenon DEF KnowledgeTyped, KnowledgeTypeOK, ContextIdentities
  <2>2. PICK g, h : g = identity[i].records /\ h = identity'[i].records
    OBVIOUS
  <2>3. Len(g) \in Nat /\ Len(h) \in Nat
    BY <2>1, <2>2, SMT
  <2> QED  BY <2>1, <2>2, <2>3, Zenon DEF Current
<1>2. CASE identity'[i] = identity[i]
  <2>1. w = v /\ n = m
    BY <1>2, Zenon DEF Current
  <2> QED  BY <1>1, <1>2, <2>1, SMT
<1>3. CASE v < w /\ m <= n
  BY <1>1, <1>3, SMT
<1> QED  BY <1>2, <1>3, Zenon DEF IdentityForward, Current

\* The working version of an identity never falls, and while it stands its items do.
LEMMA ItemsOnward ==
    ASSUME KnowledgeTyped, KnowledgeTyped', NEW i, ItemsForward(i),
           NEW m, NEW n, m = WorkingVersion(i), n = WorkingVersion(i)'
    PROVE  n \in Nat /\ m <= n /\ (m = n => \A c \in Candidates : IdentityOf[c] = i => item'[c] = item[c])
<1>1. m \in Nat /\ n \in Nat
  <2>1. PICK t, jt : t = clock' /\ jt = item'
    OBVIOUS
  <2>2. clock \in Nat /\ \A c \in Candidates : item[c].at \in Nat /\ item[c].at <= clock
    BY Zenon DEF KnowledgeTyped, KnowledgeTypeOK, ItemOK, WorkingItems
  <2>3. t \in Nat /\ \A c \in Candidates : jt[c].at \in Nat /\ jt[c].at <= t
    BY <2>1, Zenon DEF KnowledgeTyped, KnowledgeTypeOK, ItemOK, WorkingItems
  <2>4. Max(Instants(item, i)) \in Nat /\ Max(Instants(jt, i)) \in Nat
    BY <2>2, <2>3, NewestInstant, Zenon
  <2>5. m = Max(Instants(item, i)) /\ n = Max(Instants(jt, i))
    BY <2>1, Zenon DEF WorkingVersion, Instants
  <2> QED  BY <2>4, <2>5, Zenon
<1>2. CASE \A c \in Candidates : IdentityOf[c] = i => item'[c] = item[c]
  <2>1. PICK jt : jt = item'
    OBVIOUS
  <2>2. Instants(jt, i) = Instants(item, i)
    BY <1>2, <2>1, SameInstants, Zenon
  <2>3. m = Max(Instants(item, i)) /\ n = Max(Instants(jt, i))
    BY <2>1, Zenon DEF WorkingVersion, Instants
  <2>4. m = n
    BY <2>2, <2>3, Zenon
  <2> QED  BY <1>1, <1>2, <2>4, SMT
<1>3. CASE m < n
  BY <1>1, <1>3, SMT
<1> QED  BY <1>2, <1>3, Zenon DEF ItemsForward

\* So for its integrity rows: each version only grows, and so does their sum.
LEMMA IntegrityOnward ==
    ASSUME KnowledgeTyped, KnowledgeTyped', NEW i, IntegrityForward,
           NEW m, NEW n, m = IntegrityVersion(i), n = IntegrityVersion(i)'
    PROVE  n \in Nat /\ m <= n /\ (m = n => \A s \in SubjectsOf(i) : integrity'[s] = integrity[s])
<1>1. PICK I, J, S : I = integrity /\ J = integrity' /\ S = SubjectsOf(i)
  OBVIOUS
<1>2. \A s \in S : I[s].version \in Nat /\ J[s].version \in Nat
  <2>1. \A s \in S : s \in Subjects
    BY <1>1, Zenon DEF SubjectsOf
  <2>2. \A s \in Subjects : I[s].version \in Nat /\ J[s].version \in Nat
    BY <1>1, Zenon DEF KnowledgeTyped, KnowledgeTypeOK
  <2> QED  BY <2>1, <2>2, Zenon
<1>3. \A s \in S : J[s] = I[s] \/ I[s].version < J[s].version
  BY <1>1, Zenon DEF IntegrityForward, SubjectsOf
<1>4. ASSUME NEW s \in S PROVE I[s].version <= J[s].version /\ (I[s].version = J[s].version => J[s] = I[s])
  <2>1. PICK a, b : a = I[s].version /\ b = J[s].version
    OBVIOUS
  <2>2. a \in Nat /\ b \in Nat /\ (J[s] = I[s] => a = b) /\ (J[s] = I[s] \/ a < b)
    BY <1>2, <1>3, <2>1, Zenon
  <2>3. a <= b /\ (a = b => J[s] = I[s])
    BY <2>2, SMT
  <2> QED  BY <2>1, <2>3, Zenon
<1>5. IsFiniteSet(S)
  BY <1>1, SubjectsFinite, Zenon
<1>6. /\ VersionSum(J, S) \in Nat /\ VersionSum(I, S) <= VersionSum(J, S)
      /\ VersionSum(I, S) = VersionSum(J, S) => \A s \in S : I[s].version = J[s].version
  <2>1. \A s \in S : I[s].version \in Nat /\ J[s].version \in Nat /\ I[s].version <= J[s].version
    BY <1>2, <1>4, Zenon
  <2>2. /\ VersionSum(I, S) \in Nat /\ VersionSum(J, S) \in Nat /\ VersionSum(I, S) <= VersionSum(J, S)
        /\ VersionSum(I, S) = VersionSum(J, S) => \A s \in S : I[s].version = J[s].version
    BY <1>5, <2>1, SumGrows, SMT
  <2> QED  BY <2>2, Zenon
<1>7. m = VersionSum(I, S) /\ n = VersionSum(J, S)
  <2>1. m = VersionSum(integrity, SubjectsOf(i))
    BY Zenon DEF IntegrityVersion
  <2>2. n = VersionSum(integrity', SubjectsOf(i))
    BY SMT DEF IntegrityVersion
  <2> QED  BY <1>1, <2>1, <2>2, Zenon
<1> QED  BY <1>1, <1>4, <1>6, <1>7, Zenon

\* The facts about c are those of what its basis stands for.
LEMMA FactsStay ==
    ASSUME NEW c \in Candidates, NEW i, i = IdentityOf[c], identity'[i] = identity[i],
           \A d \in Candidates : IdentityOf[d] = i => item'[d] = item[d],
           \A s \in SubjectsOf(i) : integrity'[s] = integrity[s]
    PROVE  Facts(c)' = Facts(c)
<1>1. Duplicate(c)' <=> Duplicate(c)
  BY Zenon DEF Duplicate
<1>2. ActiveConflict(i)' <=> ActiveConflict(i)
  <2>1. SubjectsOf(i)' = SubjectsOf(i)
    BY SMT
  <2> QED  BY <2>1, Zenon DEF ActiveConflict
<1>3. ActiveUncertainty(i)' <=> ActiveUncertainty(i)
  <2>1. SubjectsOf(i)' = SubjectsOf(i)
    BY SMT
  <2> QED  BY <2>1, Zenon DEF ActiveUncertainty
<1>4. PICK past : past = identity[i].records
  OBVIOUS
<1>5. identity'[i].records = past
  BY <1>4, Zenon
<1>6. ASSUME NEW f PROVE f \in Facts(c)' <=> f \in Facts(c)
  BY <1>1, <1>2, <1>3, <1>4, <1>5, Zenon DEF Facts
<1> QED  BY <1>6, Zenon

\* What moves forward leaves the basis behind, or leaves all it stands for.
LEMMA ForwardIsOnward ==
    ASSUME KnowledgeTyped, KnowledgeTyped', NEW c \in Candidates, NEW i, i = IdentityOf[c], Forward(i)
    PROVE  Onward(i, c)
<1>1. i \in Identities
  BY ConflictUncertaintyAssumption, Zenon
<1>2. PICK B, C : B = Basis(i) /\ C = Basis(i)'
  OBVIOUS
<1>3. B = [record |-> Current(i), version |-> identity[i].version, working |-> WorkingVersion(i),
           authority |-> source.authority, frontier |-> Frontier(source),
           integrity |-> IntegrityVersion(i)]
  BY <1>2, Zenon DEF Basis, Frontier
<1>4. C = [record |-> Current(i)', version |-> identity'[i].version, working |-> WorkingVersion(i)',
           authority |-> source'.authority, frontier |-> Frontier(source'),
           integrity |-> IntegrityVersion(i)']
  BY <1>2, Zenon DEF Basis, Frontier
<1>5. /\ C.version \in Nat /\ C.record \in Nat /\ B.version <= C.version /\ B.record <= C.record
      /\ B.version = C.version => identity'[i] = identity[i]
  BY <1>1, <1>3, <1>4, IdentityOnward, Zenon DEF Forward
<1>6. /\ C.working \in Nat /\ B.working <= C.working
      /\ B.working = C.working => \A d \in Candidates : IdentityOf[d] = i => item'[d] = item[d]
  BY <1>3, <1>4, ItemsOnward, Zenon DEF Forward
<1>7. /\ C.integrity \in Nat /\ B.integrity <= C.integrity
      /\ B.integrity = C.integrity => \A s \in SubjectsOf(i) : integrity'[s] = integrity[s]
  BY <1>3, <1>4, IntegrityOnward, Zenon DEF Forward
<1>8. /\ B.authority <= C.authority /\ B.frontier <= C.frontier
      /\ B.authority = C.authority /\ B.frontier = C.frontier =>
            /\ source'.wins = source.wins /\ source'.desired = source.desired
            /\ source'.ingested = source.ingested
  BY <1>3, <1>4, Zenon DEF Forward, SourceForward
<1>9. Below(B, C)
  BY <1>5, <1>6, <1>7, <1>8, Zenon DEF Below
<1>10. ASSUME C = B
       PROVE  Facts(c)' = Facts(c) /\ \A q \in BOOLEAN : Qualified(c, q)' = Qualified(c, q)
  <2>1. /\ identity'[i] = identity[i]
        /\ \A d \in Candidates : IdentityOf[d] = i => item'[d] = item[d]
        /\ \A s \in SubjectsOf(i) : integrity'[s] = integrity[s]
    BY <1>5, <1>6, <1>7, <1>10, Zenon
  <2>2. Facts(c)' = Facts(c)
    BY <2>1, FactsStay, Zenon
  <2>3. source'.wins = source.wins /\ source'.desired = source.desired /\ source'.ingested = source.ingested
    BY <1>8, <1>10, Zenon
  <2>4. ASSUME NEW q \in BOOLEAN PROVE Qualified(c, q)' = Qualified(c, q)
    <3>1. EvidenceQualification(q)' = EvidenceQualification(q)
      BY <2>3, SMT DEF EvidenceQualification
    <3> QED  BY <3>1, Zenon DEF Qualified
  <2> QED  BY <2>2, <2>4
<1>11. C \in Bases
  <2>1. source'.authority \in Nat /\ source'.desired \in Nat /\ source'.ingested \in Nat
    BY Zenon DEF KnowledgeTyped, KnowledgeTypeOK
  <2>2. Frontier(source') \in Nat
    BY <2>1, SMT DEF Frontier
  <2>3. C.authority \in Nat /\ C.frontier \in Nat
    BY <1>4, <2>1, <2>2, Zenon
  <2> QED  BY <1>4, <1>5, <1>6, <1>7, <2>3, Zenon DEF Bases
<1> QED  BY <1>2, <1>9, <1>10, <1>11, Zenon DEF Onward

\* A source that stays, and one that changes.
LEMMA SourceStays == ASSUME KnowledgeTyped, UNCHANGED source PROVE SourceForward
<1>1. source.authority \in Nat /\ source.desired \in Nat /\ source.ingested \in Nat
  BY Zenon DEF KnowledgeTyped, KnowledgeTypeOK
<1>2. source.authority <= source.authority /\ Frontier(source) <= Frontier(source)
  BY <1>1, SMT DEF Frontier
<1> QED  BY <1>2, Zenon DEF SourceForward

\* The authority and the frontiers of the source only grow.
LEMMA SourceMoves ==
    ASSUME KnowledgeTyped, DecideAuthority \/ Observe \/ CompleteIngestion \/ ToggleConnection
    PROVE  SourceForward
<1>1. PICK o, n : o = source /\ n = source'
  OBVIOUS
<1>2. o \in Sources
  BY <1>1, Zenon DEF KnowledgeTyped, KnowledgeTypeOK, Sources
<1>3. o.authority \in Nat /\ o.desired \in Nat /\ o.ingested \in Nat
  BY <1>2, Zenon DEF Sources
<1>4. \/ \E w \in BOOLEAN : n = [o EXCEPT !.authority = o.authority + 1, !.wins = w]
      \/ n = [o EXCEPT !.desired = o.desired + 1]
      \/ n = [o EXCEPT !.ingested = o.desired] /\ o.ingested < o.desired
      \/ n = [o EXCEPT !.connected = ~o.connected]
  <2>1. CASE DecideAuthority
    <3>1. PICK w \in BOOLEAN : source' = [source EXCEPT !.authority = @ + 1, !.wins = w]
      BY <2>1, Zenon DEF DecideAuthority
    <3> QED  BY <1>1, <3>1, Zenon
  <2>2. CASE Observe \/ CompleteIngestion \/ ToggleConnection
    <3>1. CASE Observe
      BY <1>1, <3>1, Zenon DEF Observe
    <3>2. CASE CompleteIngestion
      BY <1>1, <3>2, Zenon DEF CompleteIngestion
    <3>3. CASE ToggleConnection
      BY <1>1, <3>3, Zenon DEF ToggleConnection
    <3> QED  BY <2>2, <3>1, <3>2, <3>3
  <2> QED  BY <2>1, <2>2
<1>5. \/ n.authority = o.authority + 1 /\ n.desired = o.desired /\ n.ingested = o.ingested
      \/ /\ n.authority = o.authority /\ n.wins = o.wins
         /\ \/ n.desired = o.desired + 1 /\ n.ingested = o.ingested
            \/ n.desired = o.desired /\ n.ingested = o.desired /\ o.ingested < o.desired
            \/ n.desired = o.desired /\ n.ingested = o.ingested
  BY <1>2, <1>4, Zenon DEF Sources
<1>6. PICK a, d, g, a1, d1, g1 : /\ a = o.authority /\ d = o.desired /\ g = o.ingested
                                 /\ a1 = n.authority /\ d1 = n.desired /\ g1 = n.ingested
  OBVIOUS
<1>7. /\ a \in Nat /\ d \in Nat /\ g \in Nat
      /\ \/ a1 = a + 1 /\ d1 = d /\ g1 = g
         \/ a1 = a /\ d1 = d + 1 /\ g1 = g
         \/ a1 = a /\ d1 = d /\ g1 = d /\ g < d
         \/ a1 = a /\ d1 = d /\ g1 = g
      /\ a1 = a + 1 \/ n.wins = o.wins
  BY <1>3, <1>5, <1>6, Zenon
<1>8. /\ a <= a1 /\ 2 * d + g <= 2 * d1 + g1
      /\ a1 = a => a1 # a + 1
      /\ 2 * d1 + g1 = 2 * d + g => d1 = d /\ g1 = g
  BY <1>7, SMT
<1> QED  BY <1>1, <1>6, <1>7, <1>8, Zenon DEF SourceForward, Frontier

\* A record more or an ending is a version more.
LEMMA IdentityMoves ==
    ASSUME KnowledgeTyped, NEW j \in Identities, PutRecord(j) \/ EndIdentity(j), NEW i \in Identities
    PROVE  IdentityForward(i)
<1>1. PICK o, h : o = identity[j] /\ h = o.records
  OBVIOUS
<1>2. o \in ContextIdentities /\ o.version \in Nat /\ h \in Seq(Claims)
  <2>1. o \in ContextIdentities
    BY <1>1, Zenon DEF KnowledgeTyped, KnowledgeTypeOK
  <2> QED  BY <1>1, <2>1, Zenon DEF ContextIdentities
<1>3. identity \in [Identities -> ContextIdentities]
  BY Zenon DEF KnowledgeTyped, KnowledgeTypeOK
<1>4. CASE i # j
  <2>1. \E m : identity' = [identity EXCEPT ![j] = m]
    BY Zenon DEF PutRecord, EndIdentity
  <2> QED  BY <1>3, <1>4, <2>1, Zenon DEF IdentityForward
<1>5. o.version < o.version + 1 /\ Len(h) <= Len(h)
  <2>1. PICK v, l : v = o.version /\ l = Len(h)
    OBVIOUS
  <2>2. v \in Nat /\ l \in Nat
    BY <1>2, <2>1, SMT
  <2>3. v < v + 1 /\ l <= l
    BY <2>2, SMT
  <2> QED  BY <2>1, <2>3, Zenon
<1>6. CASE i = j /\ PutRecord(j)
  <2>1. PICK claim \in Claims :
          identity' = [identity EXCEPT ![j].version = @ + 1, ![j].records = Append(@, claim)]
    BY <1>6, Zenon DEF PutRecord
  <2>2. PICK g : g = Append(h, claim)
    OBVIOUS
  <2>3. Len(h) <= Len(g)
    BY <1>2, <2>2, SMT
  <2>4. PICK m : m = [o EXCEPT !.version = o.version + 1, !.records = g]
    OBVIOUS
  <2>5. identity'[i] = m
    BY <1>1, <1>3, <1>6, <2>1, <2>2, <2>4, Zenon
  <2>6. m.version = o.version + 1 /\ m.records = g
    BY <1>2, <2>4, Zenon DEF ContextIdentities
  <2> QED  BY <1>1, <1>5, <1>6, <2>3, <2>5, <2>6, Zenon DEF IdentityForward
<1>7. CASE i = j /\ EndIdentity(j)
  <2>1. identity' = [identity EXCEPT ![j].version = @ + 1, ![j].state = "ENDED"]
    BY <1>7, Zenon DEF EndIdentity
  <2>2. PICK m : m = [o EXCEPT !.version = o.version + 1, !.state = "ENDED"]
    OBVIOUS
  <2>3. identity'[i] = m
    BY <1>1, <1>3, <1>7, <2>1, <2>2, Zenon
  <2>4. m.version = o.version + 1 /\ m.records = h
    BY <1>1, <1>2, <2>2, Zenon DEF ContextIdentities
  <2> QED  BY <1>1, <1>5, <1>7, <2>3, <2>4, Zenon DEF IdentityForward
<1> QED  BY <1>4, <1>6, <1>7

\* An item of the next instant is newer than any of its identity.
LEMMA ItemMoves ==
    ASSUME KnowledgeTyped, KnowledgeTyped', NEW c \in Candidates, NEW x, x.at = clock + 1,
           item' = [item EXCEPT ![c] = x], NEW i
    PROVE  ItemsForward(i)
<1>1. item \in [Candidates -> WorkingItems]
  BY Zenon DEF KnowledgeTyped, KnowledgeTypeOK
<1>2. CASE IdentityOf[c] # i
  BY <1>1, <1>2, Zenon DEF ItemsForward
<1>3. CASE IdentityOf[c] = i
  <2>1. PICK t, jt : t = clock' /\ jt = item'
    OBVIOUS
  <2>2. clock \in Nat /\ \A d \in Candidates : item[d].at \in Nat /\ item[d].at <= clock
    BY Zenon DEF KnowledgeTyped, KnowledgeTypeOK, ItemOK, WorkingItems
  <2>3. t \in Nat /\ \A d \in Candidates : jt[d].at \in Nat /\ jt[d].at <= t
    BY <2>1, Zenon DEF KnowledgeTyped, KnowledgeTypeOK, ItemOK, WorkingItems
  <2>4. PICK m, n : m = Max(Instants(item, i)) /\ n = Max(Instants(jt, i))
    OBVIOUS
  <2>5. m \in Nat /\ m <= clock
    BY <2>2, <2>4, NewestInstant, Zenon
  <2>6. n \in Nat /\ jt[c].at <= n
    BY <1>3, <2>3, <2>4, NewestInstant, Zenon
  <2>7. jt[c].at = clock + 1
    BY <1>1, <2>1, Zenon
  <2>8. clock + 1 <= n
    BY <2>6, <2>7, Zenon
  <2>9. m < n
    BY <2>2, <2>5, <2>6, <2>8, SMT
  <2>10. m = WorkingVersion(i) /\ n = WorkingVersion(i)'
    BY <2>1, <2>4, Zenon DEF WorkingVersion, Instants
  <2> QED  BY <2>9, <2>10, Zenon DEF ItemsForward
<1> QED  BY <1>2, <1>3

\* An occurrence is a version more.
LEMMA IntegrityMoves ==
    ASSUME KnowledgeTyped, Histories, NEW s \in Subjects, NEW e, Occur(s, e) PROVE IntegrityForward
<1>1. PICK n, h : n = integrity[s].version /\ h = Append(integrity[s].history, e)
  OBVIOUS
<1>2. n \in Nat
  BY <1>1, Zenon DEF KnowledgeTyped, KnowledgeTypeOK
<1>3. PICK new : new = [version |-> n + 1, state |-> e.state, history |-> h]
  OBVIOUS
<1>4. integrity' = [integrity EXCEPT ![s] = new] /\ new.version = n + 1
  BY <1>1, <1>3, Zenon DEF Occur
<1>5. integrity = [q \in Subjects |-> integrity[q]]
  BY Zenon DEF Histories
<1>6. n < n + 1
  BY <1>2, SMT
<1>7. ASSUME NEW q \in Subjects PROVE integrity'[q] = integrity[q] \/ integrity[q].version < integrity'[q].version
  <2>1. CASE q = s
    BY <1>1, <1>4, <1>5, <1>6, <2>1, Zenon
  <2>2. CASE q # s
    BY <1>4, <1>5, <2>2, Zenon
  <2> QED  BY <2>1, <2>2
<1> QED  BY <1>7, Zenon DEF IntegrityForward

-------------------------------------------------------------------------------
(* From one step to the next                                               *)

CallsTyped == \A w \in Workers : CallTyped(call[w])

\* Every step moves what is known forward and keeps its types.
LEMMA KnowledgeMoves ==
    ASSUME Inv, Typed, [Next]_vars
    PROVE  KnowledgeTyped' /\ \A i \in Identities : Forward(i)
<1>1. KnowledgeTyped /\ Histories
  BY Zenon DEF Typed, Inv
<1>2. ASSUME UNCHANGED knowledge
      PROVE  KnowledgeTyped' /\ \A i \in Identities : Forward(i)
  <2>1. UNCHANGED <<identity, source, item, integrity, clock>>
    BY <1>2, Zenon DEF knowledge
  <2>2. KnowledgeTyped'
    BY <1>1, <2>1, Zenon DEF KnowledgeTyped, KnowledgeTypeOK, ItemOK
  <2>3. SourceForward
    BY <1>1, <2>1, SourceStays, Zenon
  <2> QED  BY <2>1, <2>2, <2>3, Zenon DEF Forward, IdentityForward, ItemsForward, IntegrityForward
<1>3. ASSUME NEW j \in Identities, PutRecord(j) \/ EndIdentity(j)
      PROVE  KnowledgeTyped' /\ \A i \in Identities : Forward(i)
  <2>1. UNCHANGED <<source, item, integrity, clock>>
    BY <1>3, Zenon DEF PutRecord, EndIdentity
  <2>2. KnowledgeTyped'
    BY <1>1, <1>3, IdentityTyped, Zenon
  <2>3. \A i \in Identities : IdentityForward(i)
    BY <1>1, <1>3, IdentityMoves, Zenon
  <2>4. SourceForward
    BY <1>1, <2>1, SourceStays, Zenon
  <2> QED  BY <2>1, <2>2, <2>3, <2>4, Zenon DEF Forward, ItemsForward, IntegrityForward
<1>4. ASSUME DecideAuthority \/ Observe \/ CompleteIngestion \/ ToggleConnection
      PROVE  KnowledgeTyped' /\ \A i \in Identities : Forward(i)
  <2>1. UNCHANGED <<identity, item, integrity, clock>>
    BY <1>4, Zenon DEF DecideAuthority, Observe, CompleteIngestion, ToggleConnection
  <2>2. KnowledgeTyped' /\ SourceForward
    BY <1>1, <1>4, SourceTyped, SourceMoves, Zenon
  <2> QED  BY <2>1, <2>2, Zenon DEF Forward, IdentityForward, ItemsForward, IntegrityForward
<1>5. ASSUME NEW s \in Subjects,
             \/ EstablishConflict(s) \/ EndConflict(s)
             \/ EstablishUncertainty(s) \/ EndUncertainty(s)
      PROVE  KnowledgeTyped' /\ \A i \in Identities : Forward(i)
  <2>1. UNCHANGED <<identity, source, item, clock>> /\ \E e : Occur(s, e)
    BY <1>5, Zenon DEF EstablishConflict, EndConflict, EstablishUncertainty, EndUncertainty, Establish, End
  <2>2. KnowledgeTyped'
    BY <1>1, <1>5, IntegrityTyped, Zenon
  <2>3. SourceForward /\ IntegrityForward
    BY <1>1, <2>1, SourceStays, IntegrityMoves, Zenon
  <2> QED  BY <2>1, <2>2, <2>3, Zenon DEF Forward, IdentityForward, ItemsForward
<1>6. ASSUME NEW c \in Candidates, NEW x, x.at = clock + 1, item' = [item EXCEPT ![c] = x],
             UNCHANGED <<identity, source, integrity>>, KnowledgeTyped'
      PROVE  \A i \in Identities : Forward(i)
  <2>1. SourceForward
    BY <1>1, <1>6, SourceStays, Zenon
  <2>2. \A i : ItemsForward(i)
    BY <1>1, <1>6, ItemMoves, Zenon
  <2> QED  BY <1>6, <2>1, <2>2, Zenon DEF Forward, IdentityForward, IntegrityForward
<1>7. ASSUME NEW c \in Candidates, Intake(c)
      PROVE  KnowledgeTyped' /\ \A i \in Identities : Forward(i)
  <2>1. PICK x : x = [trust |-> "PENDING", claim |-> Claim[c], at |-> clock + 1]
    OBVIOUS
  <2>2. x.at = clock + 1 /\ item' = [item EXCEPT ![c] = x] /\ UNCHANGED <<identity, source, integrity>>
    BY <1>7, <2>1, Zenon DEF Intake
  <2>3. KnowledgeTyped'
    BY <1>1, <1>7, IntakeTyped, Zenon
  <2> QED  BY <1>6, <2>2, <2>3, Zenon
<1>8. ASSUME NEW w \in Workers, Commit(w)
      PROVE  KnowledgeTyped' /\ \A i \in Identities : Forward(i)
  <2>1. KnowledgeTyped'
    BY <1>8, CommitTyped, Zenon
  <2>2. PICK c, r : c = call[w].candidate /\ r = call[w].result
    OBVIOUS
  <2>3. c \in Candidates
    <3>1. CallTyped(call[w]) /\ call[w].pc # "IDLE"
      <4>1. call[w].pc = "COMMIT"
        BY <1>8, Zenon DEF Commit
      <4>2. call[w].pc # "IDLE"
        BY <4>1, SMT
      <4> QED  BY <4>2, Zenon DEF Typed
    <3>2. call[w] \in OpenCalls
      BY <3>1, CallCases, Zenon
    <3> QED  BY <2>2, <3>2, Zenon DEF OpenCalls
  <2>4. clock' = clock + 1 /\ item' = Reconciled(c, r) /\ UNCHANGED <<identity, source, integrity>>
    BY <1>8, <2>2, Zenon DEF Commit
  <2>5. CASE r.class = "UNCHANGED"
    <3>1. item' = item
      BY <2>4, <2>5, Zenon DEF Reconciled
    <3>2. SourceForward
      BY <1>1, <2>4, SourceStays, Zenon
    <3> QED  BY <2>1, <2>4, <3>1, <3>2, Zenon DEF Forward, IdentityForward, ItemsForward, IntegrityForward
  <2>6. CASE r.class # "UNCHANGED"
    <3>1. PICK x : x = [trust |-> "RECONCILED", claim |-> r.claim, at |-> clock + 1]
      OBVIOUS
    <3>2. x.at = clock + 1 /\ item' = [item EXCEPT ![c] = x]
      BY <2>4, <2>6, <3>1, Zenon DEF Reconciled, Worked
    <3> QED  BY <1>6, <2>1, <2>3, <2>4, <3>2, Zenon
  <2> QED  BY <2>5, <2>6
<1>9. ASSUME NEW w \in Workers,
             \/ \E c \in Candidates : LoadCandidate(w, c)
             \/ LoadEvidence(w) \/ Answer(w) \/ Fail(w) \/ Abandon(w)
             \/ Replay(w) \/ CommitStale(w)
      PROVE  UNCHANGED knowledge
  BY <1>9, Zenon DEF LoadCandidate, LoadEvidence, Answer, Fail, Abandon, Replay, CommitStale
<1>10. CASE UNCHANGED vars
  BY <1>2, <1>10, Zenon DEF vars
<1>11. CASE Next
  BY <1>2, <1>3, <1>4, <1>5, <1>7, <1>8, <1>9, <1>11, Zenon DEF Next, Write
<1> QED  BY <1>10, <1>11

\* Two bases neither of which is behind the other are one.
LEMMA BelowBoth ==
    ASSUME NEW b \in Bases, NEW B \in Bases, Below(b, B), Below(B, b) PROVE b = B
<1>1. /\ b.record \in Nat /\ b.version \in Nat /\ b.working \in Nat
      /\ b.authority \in Nat /\ b.frontier \in Nat /\ b.integrity \in Nat
      /\ B.record \in Nat /\ B.version \in Nat /\ B.working \in Nat
      /\ B.authority \in Nat /\ B.frontier \in Nat /\ B.integrity \in Nat
  BY Zenon DEF Bases
<1>2. \A m, n \in Nat : m <= n /\ n <= m => m = n
  BY SMT
<1>3. /\ b.record = B.record /\ b.version = B.version /\ b.working = B.working
      /\ b.authority = B.authority /\ b.frontier = B.frontier /\ b.integrity = B.integrity
  BY <1>1, <1>2, Zenon DEF Below
<1>4. ASSUME NEW x \in Bases
      PROVE  x = [record |-> x.record, version |-> x.version, working |-> x.working,
                  authority |-> x.authority, frontier |-> x.frontier, integrity |-> x.integrity]
  BY Zenon DEF Bases
<1>5. /\ b = [record |-> b.record, version |-> b.version, working |-> b.working,
              authority |-> b.authority, frontier |-> b.frontier, integrity |-> b.integrity]
      /\ B = [record |-> B.record, version |-> B.version, working |-> B.working,
              authority |-> B.authority, frontier |-> B.frontier, integrity |-> B.integrity]
  BY <1>4, Zenon
<1> QED  BY <1>3, <1>5, Zenon

\* Being behind is transitive.
LEMMA BelowOnward ==
    ASSUME NEW b \in Bases, NEW B \in Bases, NEW C \in Bases, Below(b, B), Below(B, C)
    PROVE  Below(b, C)
<1>1. /\ b.record \in Nat /\ b.version \in Nat /\ b.working \in Nat
      /\ b.authority \in Nat /\ b.frontier \in Nat /\ b.integrity \in Nat
      /\ B.record \in Nat /\ B.version \in Nat /\ B.working \in Nat
      /\ B.authority \in Nat /\ B.frontier \in Nat /\ B.integrity \in Nat
      /\ C.record \in Nat /\ C.version \in Nat /\ C.working \in Nat
      /\ C.authority \in Nat /\ C.frontier \in Nat /\ C.integrity \in Nat
  BY Zenon DEF Bases
<1>2. \A l, m, n \in Nat : l <= m /\ m <= n => l <= n
  BY SMT
<1>3. b.record <= C.record /\ b.version <= C.version
  <2>1. b.record <= B.record /\ B.record <= C.record /\ b.version <= B.version /\ B.version <= C.version
    BY Zenon DEF Below
  <2> QED  BY <1>1, <1>2, <2>1, SMT
<1>4. b.working <= C.working /\ b.authority <= C.authority
  <2>1. /\ b.working <= B.working /\ B.working <= C.working
        /\ b.authority <= B.authority /\ B.authority <= C.authority
    BY Zenon DEF Below
  <2> QED  BY <1>1, <1>2, <2>1, SMT
<1>5. b.frontier <= C.frontier /\ b.integrity <= C.integrity
  <2>1. /\ b.frontier <= B.frontier /\ B.frontier <= C.frontier
        /\ b.integrity <= B.integrity /\ B.integrity <= C.integrity
    BY Zenon DEF Below
  <2> QED  BY <1>1, <1>2, <2>1, SMT
<1> QED  BY <1>3, <1>4, <1>5, Zenon DEF Below

\* A call that was truthful is so when what is known has moved forward.
LEMMA TruthLasts ==
    ASSUME KnowledgeTyped, KnowledgeTyped', \A i \in Identities : Forward(i),
           NEW k, CallTyped(k), Truthful(k)
    PROVE  Truthful(k)'
<1>1. CASE k.pc = "IDLE"
  BY <1>1, Zenon DEF Truthful
<1>2. CASE k.pc # "IDLE"
  <2>1. PICK c, i, b, q : c = k.candidate /\ i = IdentityOf[k.candidate] /\ b = k.basis /\ q = k.connected
    OBVIOUS
  <2>2. c \in Candidates /\ b \in Bases /\ q \in BOOLEAN
    <3>1. k \in OpenCalls
      BY <1>2, CallCases, Zenon
    <3> QED  BY <2>1, <3>1, Zenon DEF OpenCalls
  <2>3. i \in Identities /\ i = IdentityOf[c]
    BY <2>1, <2>2, ConflictUncertaintyAssumption, Zenon
  <2>4. Onward(i, c)
    BY <2>2, <2>3, ForwardIsOnward, Zenon
  <2>5. PICK B, C, F, G : B = Basis(i) /\ C = Basis(i)' /\ F = Facts(c) /\ G = Facts(c)'
    OBVIOUS
  <2>6. PICK Q, R : Q = Qualified(c, q) /\ R = Qualified(c, q)'
    OBVIOUS
  <2>7. B \in Bases /\ C \in Bases /\ Below(B, C) /\ (C = B => G = F /\ R = Q)
    <3>1. B \in Bases
      BY <2>3, <2>5, BasisTyped, Zenon
    <3> QED  BY <2>2, <2>4, <2>5, <2>6, <3>1, Zenon DEF Onward
  <2>8. /\ Below(b, B)
        /\ b = B => IF k.pc = "READ" THEN k.facts = F ELSE Verdict(F, Q) = Said(k)
    BY <1>2, <2>1, <2>5, <2>6, Zenon DEF Truthful
  <2>9. Below(b, C)
    BY <2>2, <2>7, <2>8, BelowOnward, Zenon
  <2>10. ASSUME b = C PROVE IF k.pc = "READ" THEN k.facts = G ELSE Verdict(G, R) = Said(k)
    <3>1. Below(B, b)
      BY <2>7, <2>10, Zenon
    <3>2. b = B
      BY <2>2, <2>7, <2>8, <3>1, BelowBoth, Zenon
    <3>3. G = F /\ R = Q
      BY <2>7, <2>10, <3>2, Zenon
    <3> QED  BY <2>8, <3>2, <3>3, Zenon
  <2> QED  BY <2>1, <2>5, <2>6, <2>9, <2>10, Zenon DEF Truthful
<1> QED  BY <1>1, <1>2

\* A worker's step changes its own call.
LEMMA OtherCalls ==
    ASSUME Calls, NEW w \in Workers, NEW k, call' = [call EXCEPT ![w] = k]
    PROVE  \A v \in Workers : call'[v] = IF v = w THEN k ELSE call[v]
<1>1. call = [v \in Workers |-> call[v]]
  BY Zenon DEF Calls
<1> QED  BY <1>1, Zenon

\* Calls keep their types and are truthful from one step to the next.
LEMMA CallsMove ==
    ASSUME Inv, Typed, CallsTruthful, [Next]_vars
    PROVE  CallsTyped' /\ CallsTruthful' /\ invoked' \subseteq Invocations /\ RecordsTyped'
<1>1. Calls /\ KnowledgeTyped /\ RecordsTyped /\ invoked \subseteq Invocations
  BY Zenon DEF Typed, Inv
<1>2. KnowledgeTyped' /\ \A i \in Identities : Forward(i)
  BY KnowledgeMoves, Zenon
<1>3. \A w \in Workers : CallTyped(call[w]) /\ Truthful(call[w])
  BY Zenon DEF Typed, CallsTruthful
<1>4. ASSUME NEW k, CallTyped(k), Truthful(k) PROVE Truthful(k)'
  BY <1>1, <1>2, <1>4, TruthLasts, Zenon
<1>5. ASSUME \A v \in Workers : \E k : call'[v] = k /\ CallTyped(k) /\ Truthful(k)
      PROVE  CallsTyped' /\ CallsTruthful'
  <2>1. PICK D : D = call'
    OBVIOUS
  <2>2. ASSUME NEW v \in Workers PROVE CallTyped(D[v]) /\ Truthful(D[v])'
    <3>1. PICK k : D[v] = k /\ CallTyped(k) /\ Truthful(k)
      BY <1>5, <2>1, Zenon
    <3>2. Truthful(k)'
      BY <1>4, <3>1, Zenon
    <3>3. PICK e : e = D[v]
      OBVIOUS
    <3>4. e = k
      BY <3>1, <3>3, Zenon
    <3> QED  BY <3>1, <3>2, Zenon
  <2> QED  BY <2>1, <2>2, Zenon DEF CallsTyped, CallsTruthful
<1>6. ASSUME UNCHANGED <<records, current, invoked, call>>
      PROVE  CallsTyped' /\ CallsTruthful' /\ invoked' \subseteq Invocations /\ RecordsTyped'
  <2>1. \A v \in Workers : \E k : call'[v] = k /\ CallTyped(k) /\ Truthful(k)
    BY <1>3, <1>6, Zenon
  <2>2. RecordsTyped'
    BY <1>1, <1>6, Zenon DEF RecordsTyped
  <2> QED  BY <1>1, <1>5, <1>6, <2>1, <2>2, Zenon
<1>7. ASSUME NEW w \in Workers, NEW k, call' = [call EXCEPT ![w] = k], CallTyped(k), Truthful(k)
      PROVE  CallsTyped' /\ CallsTruthful'
  <2>1. \A v \in Workers : call'[v] = IF v = w THEN k ELSE call[v]
    BY <1>1, <1>7, OtherCalls, Zenon
  <2>2. \A v \in Workers : \E j : call'[v] = j /\ CallTyped(j) /\ Truthful(j)
    BY <1>3, <1>7, <2>1, Zenon
  <2> QED  BY <1>5, <2>2, Zenon
<1>8. ASSUME NEW w \in Workers, (\E c \in Candidates : LoadCandidate(w, c)) \/ LoadEvidence(w)
      PROVE  CallsTyped' /\ CallsTruthful' /\ invoked' \subseteq Invocations /\ RecordsTyped'
  <2>1. \E k : call' = [call EXCEPT ![w] = k] /\ CallTyped(k) /\ Truthful(k)
    BY <1>1, <1>3, <1>8, LoadCandidateMakes, LoadEvidenceMakes, Zenon
  <2>2. UNCHANGED <<records, current, invoked>>
    BY <1>8, Zenon DEF LoadCandidate, LoadEvidence
  <2>3. RecordsTyped'
    BY <1>1, <2>2, Zenon DEF RecordsTyped
  <2> QED  BY <1>1, <1>7, <2>1, <2>2, <2>3, Zenon
<1>9. ASSUME NEW w \in Workers, Answer(w) \/ Fail(w) \/ Abandon(w) \/ Replay(w) \/ CommitStale(w)
      PROVE  CallsTyped' /\ CallsTruthful' /\ invoked' \subseteq Invocations /\ RecordsTyped'
  <2>1. /\ \E k : call' = [call EXCEPT ![w] = k] /\ CallTyped(k) /\ Truthful(k)
        /\ invoked' \subseteq Invocations
    BY <1>1, <1>3, <1>9, OtherStepsMake, Zenon
  <2>2. UNCHANGED <<records, current>>
    BY <1>9, Zenon DEF Answer, Fail, Abandon, Replay, CommitStale
  <2>3. RecordsTyped'
    BY <1>1, <2>2, Zenon DEF RecordsTyped
  <2> QED  BY <1>7, <2>1, <2>3, Zenon
<1>10. ASSUME NEW w \in Workers, Commit(w)
       PROVE  CallsTyped' /\ CallsTruthful' /\ invoked' \subseteq Invocations /\ RecordsTyped'
  <2>1. RecordsTyped' /\ call' = [call EXCEPT ![w] = Idle] /\ invoked' = invoked
    BY <1>10, CommitTyped, Zenon
  <2>2. CallsTyped' /\ CallsTruthful'
    BY <1>7, <2>1, IdleTruthful, Zenon
  <2> QED  BY <1>1, <2>1, <2>2, Zenon
<1>11. CASE UNCHANGED vars
  BY <1>6, <1>11, Zenon DEF vars
<1>12. CASE Next
  BY <1>6, <1>8, <1>9, <1>10, <1>12, Zenon DEF Next, Write
<1> QED  BY <1>11, <1>12

\* An empty project has its types, and nobody is in a call.
LEMMA InitiallyTyped == ASSUME Init PROVE Typed /\ CallsTruthful
<1>1. KnowledgeTypeOK
  <2>1. PICK new, O : new = [state |-> "ACTIVE", version |-> 1, records |-> << >>] /\ O = ContextIdentities
    OBVIOUS
  <2>2. new \in O
    <3>1. << >> \in Seq(Claims) /\ 1 \in Nat
      BY SMT
    <3> QED  BY <2>1, <3>1, Zenon DEF ContextIdentities
  <2>3. identity \in [Identities -> ContextIdentities]
    BY <2>1, <2>2, Zenon DEF Init, KnowledgeInit
  <2>4. source \in [authority : Nat, wins : BOOLEAN, desired : Nat, ingested : Nat, connected : BOOLEAN]
    BY SMT DEF Init, KnowledgeInit
  <2>5. NoItem \in WorkingItems
    <3>1. 0 \in Nat
      OBVIOUS
    <3> QED  BY <3>1, Zenon DEF NoItem, WorkingItems
  <2>6. item \in [Candidates -> WorkingItems] /\ clock \in Nat
    <3>1. clock \in Nat
      BY SMT DEF Init, KnowledgeInit
    <3> QED  BY <2>5, <3>1, Zenon DEF Init, KnowledgeInit
  <2>7. ASSUME NEW s \in Subjects
        PROVE  /\ integrity[s].version \in Nat
               /\ integrity[s].state \in {"NONE", "ACTIVE", "ENDED"}
               /\ integrity[s].history \in Seq(IF s.kind = "CONFLICT" THEN ConflictOccurrences
                                               ELSE UncertaintyOccurrences)
    <3>1. integrity[s] = NotRecorded
      BY Zenon DEF Init, KnowledgeInit
    <3>2. NotRecorded.version = 0 /\ NotRecorded.state = "NONE" /\ NotRecorded.history = << >>
      BY Zenon DEF NotRecorded
    <3>3. 0 \in Nat /\ \A T : << >> \in Seq(T)
      BY SMT
    <3> QED  BY <3>1, <3>2, <3>3, Zenon
  <2> QED  BY <2>3, <2>4, <2>6, <2>7, Zenon DEF KnowledgeTypeOK
<1>2. ASSUME NEW c \in Candidates PROVE ItemOK(item[c])
  <2>1. item[c] = NoItem /\ clock = 0 /\ NoItem.trust = "NONE" /\ NoItem.at = 0
    BY Zenon DEF Init, KnowledgeInit, NoItem
  <2>2. 0 <= 0
    BY SMT
  <2> QED  BY <2>1, <2>2, Zenon DEF ItemOK
<1>3. RecordsTyped
  <2>1. records = << >> /\ current = [c \in Candidates |-> 0]
    BY Zenon DEF Init
  <2>2. << >> \in Seq(Decisions) /\ Len(<< >>) = 0 /\ 0 \in 0..0
    <3>1. \A T : << >> \in Seq(T)
      BY SMT
    <3>2. Len(<< >>) = 0 /\ 0 \in 0..0
      BY SMT
    <3> QED  BY <3>1, <3>2, Zenon
  <2> QED  BY <2>1, <2>2, Zenon DEF RecordsTyped
<1>4. invoked \subseteq Invocations
  BY Zenon DEF Init
<1>5. \A w \in Workers : call[w] = Idle
  BY Zenon DEF Init
<1> QED  BY <1>1, <1>2, <1>3, <1>4, <1>5, IdleTruthful, Zenon DEF Typed, KnowledgeTyped, CallsTruthful

\* The second invariant holds throughout.
LEMMA TruthInvariance == Spec => [](Typed /\ CallsTruthful)
<1>1. Init => Typed /\ CallsTruthful
  BY InitiallyTyped, Zenon
<1>2. Inv /\ (Typed /\ CallsTruthful) /\ [Next]_vars => (Typed /\ CallsTruthful)'
  <2>1. ASSUME Inv, Typed, CallsTruthful, [Next]_vars PROVE Typed' /\ CallsTruthful'
    <3>1. KnowledgeTyped'
      BY <2>1, KnowledgeMoves, Zenon
    <3>2. CallsTyped' /\ CallsTruthful' /\ invoked' \subseteq Invocations /\ RecordsTyped'
      BY <2>1, CallsMove, Zenon
    <3> QED  BY <3>1, <3>2, Zenon DEF Typed, CallsTyped, Invocations
  <2> QED  BY <2>1
<1> QED  BY <1>1, <1>2, Invariance, PTL DEF Spec

\* Every table keeps its columns' types, and every call what its place in the
\* code needs: what is loaded, answered, retried and committed stays in its type.
THEOREM TypeCorrect == Spec => []TypeOK
<1>1. ASSUME NEW k, CallTyped(k)
      PROVE  \/ k = Idle
             \/ k \in [pc : {"READ", "ASK", "COMMIT"}, candidate : Candidates, basis : Bases,
                       facts : SUBSET FactKinds, connected : BOOLEAN,
                       attempt : 0..Len(Route) * MaxAttempts, result : Results \cup {NoResult}]
  BY <1>1, Zenon DEF CallTyped, OpenCalls
<1>2. Typed => TypeOK
  BY <1>1, Zenon DEF Typed, KnowledgeTyped, RecordsTyped, Decisions, Invocations, TypeOK
<1> QED  BY <1>2, TruthInvariance, PTL

\* A decision rests on what is true when it is committed, however long the model
\* took and whatever records, authority, observations, candidates, conflicts and
\* other decisions came in between: the rules, applied to the present facts, say
\* what was committed, and a model's answer counts only where they say nothing.
THEOREM DecisionsCorrect == Spec => DecidedOnPresentFacts
<1>1. ASSUME Inv, Typed, CallsTruthful, [Next]_vars, NEW w \in Workers, records' # records, call'[w] # call[w]
      PROVE  LET c == call[w].candidate
                 verdict == Verdict(Facts(c), Qualified(c, call[w].connected)) IN
             IF call[w].result.path = "MODEL" THEN verdict = "OPEN"
             ELSE verdict = call[w].result.class
  <2>1. PICK v \in Workers : Commit(v)
    <3>1. ~ UNCHANGED records
      BY <1>1
    <3>2. Next
      BY <1>1, <3>1, Zenon DEF vars
    <3>3. \A v \in Workers :
             /\ \A c \in Candidates : ~LoadCandidate(v, c)
             /\ ~LoadEvidence(v) /\ ~Answer(v) /\ ~Fail(v) /\ ~Abandon(v) /\ ~Replay(v)
             /\ ~CommitStale(v)
      BY <3>1, Zenon DEF LoadCandidate, LoadEvidence, Answer, Fail, Abandon, Replay, CommitStale
    <3> QED  BY <3>1, <3>2, <3>3, Zenon DEF Next, Write
  <2>2. v = w
    <3>1. call' = [call EXCEPT ![v] = Idle]
      BY <2>1, Zenon DEF Commit
    <3>2. Calls
      BY <1>1, Zenon DEF Inv
    <3>3. \A u \in Workers : call'[u] = IF u = v THEN Idle ELSE call[u]
      BY <3>1, <3>2, OtherCalls, Zenon
    <3> QED  BY <1>1, <3>3, Zenon
  <2>3. PICK k, c : k = call[w] /\ c = k.candidate
    OBVIOUS
  <2>4. k.pc = "COMMIT" /\ k.basis = Basis(IdentityOf[c])
    BY <2>1, <2>2, <2>3, Zenon DEF Commit, Fresh
  <2>5. Truthful(k)
    BY <1>1, <2>3, Zenon DEF CallsTruthful
  <2>6. k.pc # "IDLE" /\ k.pc # "READ" /\ k.pc # "ASK"
    BY <2>4, SMT
  <2>7. Verdict(Facts(c), Qualified(c, k.connected)) = Said(k)
    BY <2>3, <2>4, <2>5, <2>6, Zenon DEF Truthful
  <2>8. Said(k) = IF k.result.path = "MODEL" THEN "OPEN" ELSE k.result.class
    BY <2>6, Zenon DEF Said
  <2> QED  BY <2>3, <2>7, <2>8, Zenon
<1>2. Inv /\ (Typed /\ CallsTruthful) /\ [Next]_vars =>
        [\A w \in Workers :
            records' # records /\ call'[w] # call[w] =>
                LET c == call[w].candidate
                    verdict == Verdict(Facts(c), Qualified(c, call[w].connected)) IN
                IF call[w].result.path = "MODEL" THEN verdict = "OPEN"
                ELSE verdict = call[w].result.class]_vars
  BY <1>1, Zenon
<1> QED  BY <1>2, Invariance, TruthInvariance, PTL DEF Spec, DecidedOnPresentFacts
===============================================================================
