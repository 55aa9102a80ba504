----------------------- MODULE ChangeProposalsProofs -----------------------
(***************************************************************************)
(* An identity has one line of items at a time, for any number of workers, *)
(* identities, candidates and records: the row locks of materialisation    *)
(* and refresh never let two transactions change one item.                 *)
(***************************************************************************)
EXTENDS ChangeProposals, WellFoundedInduction, TLAPS

\* A set of naturals that is not empty has a least element, which Min finds.
LEMMA LeastExists ==
    ASSUME NEW S, S \subseteq Nat, S # {}
    PROVE  Min(S) \in S
<1>1. PICK m \in S : \A y \in S : ~ (<<y, m>> \in OpToRel(<, Nat))
  BY NatLessThanWellFounded, WFMin, Zenon
<1>2. \A y \in S : ~ (y < m)
  BY <1>1, Zenon DEF OpToRel
<1>3. \A y \in S : m =< y
  BY <1>2, SMT
<1> QED  BY <1>3, Zenon DEF Min

-------------------------------------------------------------------------------
(* The invariant: what a transaction read and locked is still so.          *)

RecordRows == [candidate : Candidates, known : Nat, loose : Nat, reviewable : BOOLEAN]
ProposalRows == [group : Groups, state : {"OPEN", "STALE", "SUPERSEDED"}, successor : Nat]
ItemRows == [record : Nat, proposal : Nat, state : {"CURRENT", "STALE", "SUPERSEDED"},
             successor : Nat]
JobRows == [pc : {"IDLE"} \cup Materializing \cup Refreshing, record : Nat, item : Nat,
            proposal : Nat, emptied : BOOLEAN, stale : SUBSET Nat, void : SUBSET Nat]

RowsOfProject ==
    /\ known \in [Identities -> Nat] /\ loose \in [Identities -> Nat]
    /\ records \in Seq(RecordRows)

RowsOfProposals ==
    /\ proposals \in Seq(ProposalRows)
    /\ \A p \in DOMAIN proposals :
          /\ proposals[p].state = "SUPERSEDED" => proposals[p].successor > p
          /\ proposals[p].state # "SUPERSEDED" => proposals[p].successor = 0
          /\ proposals[p].successor <= Len(proposals)

RowsOfItems ==
    /\ items \in Seq(ItemRows)
    /\ \A x \in DOMAIN items :
          /\ items[x].record \in 1..Len(records) /\ items[x].proposal \in 1..Len(proposals)
          /\ items[x].state # "SUPERSEDED" => items[x].successor = 0
          /\ items[x].state = "SUPERSEDED" =>
                /\ items[x].successor > x /\ items[x].successor <= Len(items)
                /\ IdentityOfRecord(items[items[x].successor].record) = IdentityOfRecord(items[x].record)

OneCurrent ==
    \A x, y \in CurrentItems :
        IdentityOfRecord(items[x].record) = IdentityOfRecord(items[y].record) => x = y

\* The record n has what the project row guards, and none came after it.
Newest(n) ==
    /\ n \in 1..Len(records)
    /\ records[n].known = known[IdentityOfRecord(n)]
    /\ \A later \in (n + 1)..Len(records) :
          IdentityOfRecord(later) = IdentityOfRecord(n) => ~records[later].reviewable

\* A transaction j on its own.
JobOK(j) ==
    /\ j \in JobRows
    /\ j.record <= Len(records) /\ j.item <= Len(items) /\ j.proposal <= Len(proposals)
    /\ j.stale \subseteq 1..Len(items) /\ j.void \subseteq 1..Len(proposals)
    /\ j.pc \in Materializing => Newest(j.record)
    /\ j.pc \in {"SELECTED", "EVALUATED"} =>
          /\ Predecessors(j.record) = {j.item} \ {0}
          /\ j.item # 0 => j.proposal = 0
    /\ j.pc = "EVALUATED" => j.item # 0
    /\ j.emptied => j.pc = "EVALUATED"
    /\ j.pc \in {"MARKED", "COUNTED"} => j.stale \subseteq CurrentItems

\* The items that a transaction has locked.
HeldBy(j) ==
    IF j.pc \in {"SELECTED", "EVALUATED"} THEN {j.item} \ {0}
    ELSE IF j.pc \in {"MARKED", "COUNTED"} THEN j.stale
    ELSE {}

\* Two transactions: neither the identity nor an item is locked by both.
Apart(j, k) ==
    /\ j.pc \in Materializing /\ k.pc \in Materializing =>
          IdentityOfRecord(j.record) # IdentityOfRecord(k.record)
    /\ HeldBy(j) \cap HeldBy(k) = {}

Inv ==
    /\ RowsOfProject /\ RowsOfProposals /\ RowsOfItems /\ OneCurrent
    /\ job = [w \in Workers |-> job[w]]
    /\ \A w \in Workers : JobOK(job[w])
    /\ \A v, w \in Workers : v # w => Apart(job[v], job[w])

-------------------------------------------------------------------------------
(* Steps that change a transaction only                                    *)

\* Nothing is locked by a transaction that is over.
LEMMA IdleIsFine == ASSUME Inv, NEW k PROVE JobOK(Idle) /\ Apart(k, Idle) /\ Apart(Idle, k)
<1>1. Idle \in JobRows
  BY Zenon DEF Idle, JobRows
<1>2. Idle.pc = "IDLE" /\ HeldBy(Idle) = {}
  BY SMT DEF Idle, HeldBy
<1>3. /\ Idle.record = 0 /\ Idle.item = 0 /\ Idle.proposal = 0 /\ Idle.emptied = FALSE
      /\ Idle.stale = {} /\ Idle.void = {}
  BY Zenon DEF Idle
<1>4. Len(records) >= 0 /\ Len(items) >= 0 /\ Len(proposals) >= 0
  BY SMT DEF Inv, RowsOfProject, RowsOfProposals, RowsOfItems
<1>5. JobOK(Idle)
  BY <1>1, <1>2, <1>3, <1>4, SMT DEF JobOK, Materializing
<1>6. Apart(k, Idle) /\ Apart(Idle, k)
  BY <1>2, Zenon DEF Apart, Materializing
<1> QED  BY <1>5, <1>6

\* Apart is symmetric.
LEMMA ApartSymmetric == ASSUME NEW j, NEW k, Apart(j, k) PROVE Apart(k, j)
  BY Zenon DEF Apart

\* Where the rows stay, only the transaction that changes needs a look.
LEMMA JobChange ==
    ASSUME Inv, NEW w \in Workers, NEW r, JobOK(r),
           \A v \in Workers \ {w} : Apart(job[v], r),
           UNCHANGED <<known, loose, records, proposals, items>>,
           job' = [job EXCEPT ![w] = r]
    PROVE  Inv'
<1>1. ASSUME NEW j, JobOK(j) PROVE JobOK(j)'
  BY <1>1, Zenon DEF JobOK, Newest, Predecessors, CurrentItems, IdentityOfRecord
<1>2. ASSUME NEW j, NEW k, Apart(j, k) PROVE Apart(j, k)'
  BY <1>2, Zenon DEF Apart, IdentityOfRecord
<1>3. DOMAIN job = Workers
  BY Zenon DEF Inv
<1>4. job'[w] = r /\ \A v \in Workers \ {w} : job'[v] = job[v]
  BY <1>3, Zenon
<1>5. \A v \in Workers : JobOK(job'[v])
  BY <1>4, Zenon DEF Inv
<1>6. \A v, u \in Workers : v # u => Apart(job'[v], job'[u])
  <2> SUFFICES ASSUME NEW v \in Workers, NEW u \in Workers, v # u PROVE Apart(job'[v], job'[u])
    OBVIOUS
  <2>1. CASE v = w
    BY <2>1, <1>4, ApartSymmetric, Zenon
  <2>2. CASE v # w /\ u = w
    BY <2>2, <1>4, Zenon
  <2>3. CASE v # w /\ u # w
    BY <2>3, <1>4, Zenon DEF Inv
  <2> QED  BY <2>1, <2>2, <2>3, Zenon
<1>7. PICK J : J = job'
  OBVIOUS
<1>8. \A v \in Workers : JobOK(J[v])'
  BY <1>1, <1>5, <1>7, Zenon
<1>9. \A v, u \in Workers : v # u => Apart(J[v], J[u])'
  BY <1>2, <1>6, <1>7, Zenon
<1>10. (RowsOfProject /\ RowsOfProposals /\ RowsOfItems /\ OneCurrent)'
  <2>1. RowsOfProject'
    BY Zenon DEF Inv, RowsOfProject, RecordRows
  <2>2. RowsOfProposals'
    BY Zenon DEF Inv, RowsOfProposals, ProposalRows, Groups
  <2>3. RowsOfItems'
    BY Zenon DEF Inv, RowsOfItems, ItemRows, IdentityOfRecord
  <2>4. OneCurrent'
    BY Zenon DEF Inv, OneCurrent, CurrentItems, IdentityOfRecord
  <2> QED  BY <2>1, <2>2, <2>3, <2>4
<1>11. (job = [v \in Workers |-> job[v]])'
  BY <1>3, Zenon
<1>12. (\A v \in Workers : JobOK(job[v]))'
  BY <1>7, <1>8, Zenon DEF JobOK
<1>13. (\A v, u \in Workers : v # u => Apart(job[v], job[u]))'
  BY <1>7, <1>9, Zenon DEF Apart
<1> QED  BY <1>10, <1>11, <1>12, <1>13, Zenon DEF Inv

\* A transaction that ends without a write.
LEMMA OverKeeps ==
    ASSUME Inv, NEW w \in Workers, job' = [job EXCEPT ![w] = Idle],
           UNCHANGED <<known, loose, records, proposals, items>>
    PROVE  Inv'
<1>1. JobOK(Idle) /\ \A v \in Workers \ {w} : Apart(job[v], Idle)
  BY IdleIsFine, Zenon
<1> QED  BY <1>1, JobChange, Zenon

\* Begin takes a newest record of an identity that is free.
LEMMA BeginKeeps ==
    ASSUME Inv, NEW w \in Workers, NEW n \in DOMAIN records, Begin(w, n)
    PROVE  Inv'
<1>1. PICK r : r = [job[w] EXCEPT !.pc = "BEGUN", !.record = n]
  OBVIOUS
<1>2. job' = [job EXCEPT ![w] = r]
  BY <1>1, Zenon DEF Begin
<1>3. JobOK(job[w]) /\ job[w] \in JobRows
  BY Zenon DEF Inv, JobOK
<1>4. n \in 1..Len(records) /\ n \in Nat /\ Len(records) \in Nat
  BY SMT DEF Inv, RowsOfProject
<1>5. r \in JobRows
  BY <1>1, <1>3, <1>4, Zenon DEF JobRows, Materializing
<1>6. /\ r.pc = "BEGUN" /\ r.record = n /\ r.item = job[w].item /\ r.proposal = job[w].proposal
      /\ r.emptied = job[w].emptied /\ r.stale = job[w].stale /\ r.void = job[w].void
  BY <1>1, <1>3, Zenon DEF JobRows
<1>7. job[w].pc = "IDLE" /\ ~job[w].emptied
  BY <1>3, SMT DEF Begin, JobOK
<1>8. Newest(n)
  BY <1>4, Zenon DEF Begin, BasisCurrent, Newest
<1>9. JobOK(r)
  BY <1>3, <1>4, <1>5, <1>6, <1>7, <1>8, SMT DEF JobOK, Materializing
<1>10. ASSUME NEW v \in Workers \ {w} PROVE Apart(job[v], r)
  <2>1. HeldBy(r) = {}
    BY <1>6, SMT DEF HeldBy
  <2>2. job[v].pc \in Materializing => IdentityOfRecord(job[v].record) # IdentityOfRecord(r.record)
    BY <1>6, Zenon DEF Begin
  <2> QED  BY <2>1, <2>2, Zenon DEF Apart
<1>11. UNCHANGED <<known, loose, records, proposals, items>>
  BY Zenon DEF Begin
<1> QED  BY <1>2, <1>9, <1>10, <1>11, JobChange, Zenon

\* What is held, in the words of the model.
LEMMA HeldIsHeld ==
    ASSUME Inv, NEW x, NEW v \in Workers, ~ItemHeld(x), x # 0
    PROVE  x \notin HeldBy(job[v])
  BY SMT DEF ItemHeld, HeldBy

\* Select finds the one current item of the identity, and no one holds it.
LEMMA SelectKeeps == ASSUME Inv, NEW w \in Workers, Select(w) PROVE Inv'
<1>1. PICK n : n = job[w].record
  OBVIOUS
<1>2. PICK group : group = GroupOf[records[n].candidate]
  OBVIOUS
<1>3. PICK item : item = Max({0} \cup Predecessors(n))
  OBVIOUS
<1>4. PICK proposal : proposal = IF item # 0 \/ OpenOf(group) = {} THEN 0 ELSE Min(OpenOf(group))
  OBVIOUS
<1>5. PICK r : r = [job[w] EXCEPT !.pc = "SELECTED", !.item = item, !.proposal = proposal]
  OBVIOUS
<1>6. /\ job[w].pc = "BEGUN" /\ ~ItemHeld(item)
      /\ job' = [job EXCEPT ![w] = [@ EXCEPT !.pc = "SELECTED", !.item = item, !.proposal = proposal]]
  BY <1>1, <1>2, <1>3, <1>4, Zenon DEF Select
<1>7. job' = [job EXCEPT ![w] = r]
  BY <1>5, <1>6, Zenon
<1>8. JobOK(job[w]) /\ job[w] \in JobRows
  BY Zenon DEF Inv, JobOK
<1>9. Newest(n) /\ n \in Nat
  BY <1>1, <1>6, <1>8, Zenon DEF JobOK, JobRows, Materializing
<1>10. Predecessors(n) \subseteq 1..Len(items) /\ Len(items) \in Nat
  BY SMT DEF Inv, RowsOfItems, Predecessors, CurrentItems
<1>11. Predecessors(n) = {item} \ {0} /\ item \in 0..Len(items)
  <2>1. ASSUME NEW x \in Predecessors(n), NEW y \in Predecessors(n) PROVE x = y
    BY Zenon DEF Inv, OneCurrent, Predecessors
  <2>2. CASE Predecessors(n) = {}
    <3>1. item = Max({0})
      BY <1>3, <2>2
    <3>2. item = 0
      BY <3>1, SMT DEF Max
    <3> QED  BY <3>2, <2>2, <1>10, SMT
  <2>3. CASE Predecessors(n) # {}
    <3>1. PICK x : x \in Predecessors(n)
      BY <2>3
    <3>2. Predecessors(n) = {x} /\ x \in 1..Len(items)
      BY <2>1, <3>1, <1>10, Zenon
    <3>3. item = Max({0, x})
      BY <1>3, <3>2
    <3>4. x \in Nat /\ x > 0
      BY <3>2, <1>10, SMT
    <3>5. item = x
      BY <3>3, <3>4, SMT DEF Max
    <3> QED  BY <3>2, <3>4, <3>5, SMT
  <2> QED  BY <2>2, <2>3
<1>12. proposal \in 0..Len(proposals) /\ (item # 0 => proposal = 0)
  <2>1. OpenOf(group) \subseteq 1..Len(proposals) /\ Len(proposals) \in Nat
    BY SMT DEF Inv, RowsOfProposals, OpenOf, OpenProposals
  <2>2. OpenOf(group) \subseteq Nat
    BY <2>1, SMT
  <2>3. OpenOf(group) # {} => Min(OpenOf(group)) \in OpenOf(group)
    BY <2>2, LeastExists, Zenon
  <2>4. CASE item # 0 \/ OpenOf(group) = {}
    BY <1>4, <2>1, <2>4, SMT
  <2>5. CASE ~ (item # 0 \/ OpenOf(group) = {})
    <3>1. proposal \in OpenOf(group) /\ item = 0
      BY <1>4, <2>3, <2>5, Zenon
    <3> QED  BY <3>1, <2>1, SMT
  <2> QED  BY <2>4, <2>5
<1>13. r \in JobRows
  <2>1. item \in Nat /\ proposal \in Nat
    BY <1>11, <1>12, SMT
  <2> QED  BY <1>5, <1>8, <2>1, Zenon DEF JobRows, Materializing
<1>14. /\ r.pc = "SELECTED" /\ r.record = n /\ r.item = item /\ r.proposal = proposal
       /\ r.emptied = job[w].emptied /\ r.stale = job[w].stale /\ r.void = job[w].void
  BY <1>1, <1>5, <1>8, Zenon DEF JobRows
<1>15. item <= Len(items) /\ proposal <= Len(proposals)
  BY <1>11, <1>12, SMT DEF Inv, RowsOfItems, RowsOfProposals
<1>16. JobOK(r)
  BY <1>1, <1>6, <1>8, <1>9, <1>11, <1>12, <1>13, <1>14, <1>15, SMT DEF JobOK, Materializing
<1>17. ASSUME NEW v \in Workers \ {w} PROVE Apart(job[v], r)
  <2>1. HeldBy(r) = {item} \ {0}
    BY <1>14, SMT DEF HeldBy
  <2>2. item # 0 => item \notin HeldBy(job[v])
    BY <1>6, HeldIsHeld, Zenon
  <2>3. Apart(job[v], job[w])
    BY Zenon DEF Inv
  <2>4. job[v].pc \in Materializing => IdentityOfRecord(job[v].record) # IdentityOfRecord(r.record)
    BY <1>1, <1>6, <1>14, <2>3, Zenon DEF Apart, Materializing
  <2> QED  BY <2>1, <2>2, <2>4, Zenon DEF Apart
<1>18. UNCHANGED <<known, loose, records, proposals, items>>
  BY Zenon DEF Select
<1> QED  BY <1>7, <1>16, <1>17, <1>18, JobChange, Zenon

\* Evaluate reads the items and keeps its locks.
LEMMA EvaluateKeeps == ASSUME Inv, NEW w \in Workers, Evaluate(w) PROVE Inv'
<1>1. PICK e \in BOOLEAN : e = (\A x \in CurrentItems \ {job[w].item} :
                                   items[x].proposal # items[job[w].item].proposal)
  OBVIOUS
<1>2. PICK r : r = [job[w] EXCEPT !.pc = "EVALUATED", !.emptied = e]
  OBVIOUS
<1>3. job[w].pc = "SELECTED" /\ job[w].item # 0
  BY Zenon DEF Evaluate
<1>4. job' = [job EXCEPT ![w] = r] /\ UNCHANGED <<known, loose, records, proposals, items>>
  BY <1>1, <1>2, Zenon DEF Evaluate
<1>5. JobOK(job[w]) /\ job[w] \in JobRows
  BY Zenon DEF Inv, JobOK
<1>6. r \in JobRows
  BY <1>1, <1>2, <1>5, Zenon DEF JobRows, Materializing
<1>7. /\ r.pc = "EVALUATED" /\ r.emptied = e /\ r.record = job[w].record /\ r.item = job[w].item
      /\ r.proposal = job[w].proposal /\ r.stale = job[w].stale /\ r.void = job[w].void
  BY <1>1, <1>2, <1>5, Zenon DEF JobRows
<1>8. JobOK(r)
  BY <1>3, <1>5, <1>6, <1>7, SMT DEF JobOK, Materializing
<1>9. HeldBy(r) = HeldBy(job[w])
  BY <1>3, <1>7, SMT DEF HeldBy
<1>10. ASSUME NEW v \in Workers \ {w} PROVE Apart(job[v], r)
  <2>1. Apart(job[v], job[w])
    BY Zenon DEF Inv
  <2> QED  BY <1>3, <1>7, <1>9, <2>1, Zenon DEF Apart, Materializing
<1> QED  BY <1>4, <1>8, <1>10, JobChange, Zenon

\* The current items are rows.
LEMMA CurrentAreRows == ASSUME Inv PROVE CurrentItems \subseteq 1..Len(items) /\ Len(items) \in Nat
  BY SMT DEF Inv, RowsOfItems, CurrentItems

\* RefreshItems reads and locks nothing.
LEMMA RefreshItemsKeeps == ASSUME Inv, NEW w \in Workers, RefreshItems(w) PROVE Inv'
<1>1. PICK S : S = {x \in CurrentItems : ~BasisCurrent(items[x].record)}
  OBVIOUS
<1>2. PICK r : r = [job[w] EXCEPT !.pc = "READ", !.stale = S]
  OBVIOUS
<1>3. job[w].pc = "IDLE"
  BY Zenon DEF RefreshItems
<1>4. job' = [job EXCEPT ![w] = r] /\ UNCHANGED <<known, loose, records, proposals, items>>
  BY <1>1, <1>2, Zenon DEF RefreshItems
<1>5. JobOK(job[w]) /\ job[w] \in JobRows
  BY Zenon DEF Inv, JobOK
<1>6. S \subseteq 1..Len(items) /\ S \subseteq Nat
  <2>1. S \subseteq CurrentItems
    BY <1>1
  <2> QED  BY <2>1, CurrentAreRows, SMT
<1>7. r \in JobRows
  BY <1>2, <1>5, <1>6, Zenon DEF JobRows, Refreshing
<1>8. /\ r.pc = "READ" /\ r.stale = S /\ r.record = job[w].record /\ r.item = job[w].item
      /\ r.proposal = job[w].proposal /\ r.emptied = job[w].emptied /\ r.void = job[w].void
  BY <1>2, <1>5, Zenon DEF JobRows
<1>9. JobOK(r)
  BY <1>3, <1>5, <1>6, <1>7, <1>8, SMT DEF JobOK, Materializing
<1>10. HeldBy(r) = {}
  BY <1>8, SMT DEF HeldBy
<1>11. \A v \in Workers \ {w} : Apart(job[v], r)
  BY <1>8, <1>10, Zenon DEF Apart, Materializing
<1> QED  BY <1>4, <1>9, <1>11, JobChange, Zenon

\* Mark locks what nobody holds and keeps what is still current.
LEMMA MarkKeeps == ASSUME Inv, NEW w \in Workers, Mark(w) PROVE Inv'
<1>1. PICK S : S = job[w].stale \cap CurrentItems
  OBVIOUS
<1>2. /\ job[w].pc = "READ" /\ UNCHANGED <<known, loose, records, proposals, items>>
      /\ \A x \in job[w].stale : ~ItemHeld(x)
      /\ job' = [job EXCEPT ![w] = IF S = {} THEN Idle ELSE [@ EXCEPT !.pc = "MARKED", !.stale = S]]
  BY <1>1, Zenon DEF Mark
<1>3. CASE S = {}
  BY <1>2, <1>3, OverKeeps, Zenon
<1>4. CASE S # {}
  <2>1. PICK r : r = [job[w] EXCEPT !.pc = "MARKED", !.stale = S]
    OBVIOUS
  <2>2. job' = [job EXCEPT ![w] = r]
    BY <1>2, <1>4, <2>1, Zenon
  <2>3. JobOK(job[w]) /\ job[w] \in JobRows
    BY Zenon DEF Inv, JobOK
  <2>4. S \subseteq CurrentItems /\ S \subseteq 1..Len(items) /\ S \subseteq Nat
    BY <1>1, CurrentAreRows, SMT
  <2>5. r \in JobRows
    BY <2>1, <2>3, <2>4, Zenon DEF JobRows, Refreshing
  <2>6. /\ r.pc = "MARKED" /\ r.stale = S /\ r.record = job[w].record /\ r.item = job[w].item
        /\ r.proposal = job[w].proposal /\ r.emptied = job[w].emptied /\ r.void = job[w].void
    BY <2>1, <2>3, Zenon DEF JobRows
  <2>7. JobOK(r)
    BY <1>2, <2>3, <2>4, <2>5, <2>6, SMT DEF JobOK, Materializing
  <2>8. HeldBy(r) = S
    BY <2>6, SMT DEF HeldBy
  <2>9. ASSUME NEW v \in Workers \ {w} PROVE Apart(job[v], r)
    <3>1. ASSUME NEW x \in S PROVE x \notin HeldBy(job[v])
      <4>1. ~ItemHeld(x) /\ x # 0
        BY <1>1, <1>2, <2>4, SMT
      <4> QED  BY <4>1, HeldIsHeld, Zenon
    <3> QED  BY <2>6, <2>8, <3>1, Zenon DEF Apart, Materializing
  <2> QED  BY <1>2, <2>2, <2>7, <2>9, JobChange, Zenon
<1> QED  BY <1>3, <1>4

\* CountItems reads and keeps its locks.
LEMMA CountItemsKeeps == ASSUME Inv, NEW w \in Workers, CountItems(w) PROVE Inv'
<1>1. PICK V : V = {p \in OpenProposals : \A x \in CurrentItems \ job[w].stale : items[x].proposal # p}
  OBVIOUS
<1>2. PICK r : r = [job[w] EXCEPT !.pc = "COUNTED", !.void = V]
  OBVIOUS
<1>3. job[w].pc = "MARKED"
  BY Zenon DEF CountItems
<1>4. job' = [job EXCEPT ![w] = r] /\ UNCHANGED <<known, loose, records, proposals, items>>
  BY <1>1, <1>2, Zenon DEF CountItems
<1>5. JobOK(job[w]) /\ job[w] \in JobRows
  BY Zenon DEF Inv, JobOK
<1>6. V \subseteq 1..Len(proposals) /\ V \subseteq Nat
  <2>1. V \subseteq OpenProposals
    BY <1>1
  <2>2. OpenProposals \subseteq 1..Len(proposals) /\ Len(proposals) \in Nat
    BY SMT DEF Inv, RowsOfProposals, OpenProposals
  <2> QED  BY <2>1, <2>2, SMT
<1>7. r \in JobRows
  BY <1>2, <1>5, <1>6, Zenon DEF JobRows, Refreshing
<1>8. /\ r.pc = "COUNTED" /\ r.stale = job[w].stale /\ r.record = job[w].record
      /\ r.item = job[w].item /\ r.proposal = job[w].proposal /\ r.emptied = job[w].emptied
      /\ r.void = V
  BY <1>2, <1>5, Zenon DEF JobRows
<1>9. JobOK(r)
  BY <1>3, <1>5, <1>6, <1>7, <1>8, SMT DEF JobOK, Materializing
<1>10. HeldBy(r) = HeldBy(job[w])
  BY <1>3, <1>8, SMT DEF HeldBy
<1>11. ASSUME NEW v \in Workers \ {w} PROVE Apart(job[v], r)
  <2>1. Apart(job[v], job[w])
    BY Zenon DEF Inv
  <2> QED  BY <1>8, <1>10, <2>1, Zenon DEF Apart, Materializing
<1> QED  BY <1>4, <1>9, <1>11, JobChange, Zenon

-------------------------------------------------------------------------------
(* Steps of the planes                                                     *)

\* Where nobody holds the project row, what it guards may move.
LEMMA PlanesMove ==
    ASSUME Inv, \A w \in Workers : job[w].pc \notin Materializing, RowsOfProject',
           UNCHANGED <<proposals, items, job>>, Len(records) <= Len(records'),
           \A n \in 1..Len(records) : records'[n] = records[n]
    PROVE  Inv'
<1>1. PICK N \in Nat, M \in Nat : N = Len(records) /\ M = Len(records') /\ N <= M
  <2>1. records \in Seq(RecordRows)
    BY Zenon DEF Inv, RowsOfProject
  <2>2. records' \in Seq(RecordRows')
    BY Zenon DEF RowsOfProject
  <2> QED  BY <2>1, <2>2, SMT
<1>2. \A n \in 1..N : n \in 1..M
  BY <1>1, SMT
<1>3. \A n \in 1..N : IdentityOfRecord(n)' = IdentityOfRecord(n)
  BY <1>1, Zenon DEF IdentityOfRecord
<1>4. RowsOfProposals'
  BY Zenon DEF Inv, RowsOfProposals, ProposalRows, Groups
<1>5. \A x \in DOMAIN items : /\ items[x].record \in 1..N
                              /\ IdentityOf[records'[items[x].record].candidate]
                                 = IdentityOf[records[items[x].record].candidate]
  BY <1>1, Zenon DEF Inv, RowsOfItems
<1>6. \A x \in DOMAIN items : items[x].state = "SUPERSEDED" => items[x].successor \in DOMAIN items
  <2>1. ASSUME NEW x \in DOMAIN items, items[x].state = "SUPERSEDED" PROVE items[x].successor \in DOMAIN items
    <3>1. /\ items \in Seq(ItemRows) /\ x \in 1..Len(items) /\ Len(items) \in Nat
          /\ DOMAIN items = 1..Len(items)
      BY <2>1, SMT DEF Inv, RowsOfItems
    <3>2. items[x].successor > x /\ items[x].successor <= Len(items) /\ items[x].successor \in Nat
      <4>1. items[x] \in ItemRows
        BY <3>1, SMT
      <4>2. items[x].successor \in Nat
        BY <4>1, Zenon DEF ItemRows
      <4>3. items[x].successor > x /\ items[x].successor <= Len(items)
        BY <2>1, Zenon DEF Inv, RowsOfItems
      <4> QED  BY <4>2, <4>3
    <3> QED  BY <3>1, <3>2, SMT
  <2> QED  BY <2>1
<1>7. RowsOfItems'
  <2>1. (items \in Seq(ItemRows))'
    BY Zenon DEF Inv, RowsOfItems, ItemRows
  <2>2. ASSUME NEW x \in DOMAIN items
        PROVE  /\ items[x].record \in 1..Len(records') /\ items[x].proposal \in 1..Len(proposals)
               /\ items[x].state # "SUPERSEDED" => items[x].successor = 0
               /\ items[x].state = "SUPERSEDED" =>
                     /\ items[x].successor > x /\ items[x].successor <= Len(items)
                     /\ IdentityOf[records'[items[items[x].successor].record].candidate]
                        = IdentityOf[records'[items[x].record].candidate]
    BY <2>2, <1>1, <1>2, <1>5, <1>6, Zenon DEF Inv, RowsOfItems, IdentityOfRecord
  <2> QED  BY <2>1, <2>2, Zenon DEF RowsOfItems, IdentityOfRecord
<1>8. OneCurrent'
  <2>1. CurrentItems' = CurrentItems /\ \A x \in CurrentItems : x \in DOMAIN items
    BY Zenon DEF CurrentItems
  <2>2. ASSUME NEW x \in CurrentItems, NEW y \in CurrentItems,
               IdentityOf[records'[items[x].record].candidate]
               = IdentityOf[records'[items[y].record].candidate]
        PROVE  x = y
    <3>1. IdentityOfRecord(items[x].record) = IdentityOfRecord(items[y].record)
      BY <1>5, <2>1, <2>2, Zenon DEF IdentityOfRecord
    <3> QED  BY <3>1, Zenon DEF Inv, OneCurrent
  <2> QED  BY <2>1, <2>2, Zenon DEF OneCurrent, IdentityOfRecord
<1>9. ASSUME NEW w \in Workers PROVE JobOK(job[w])'
  <2>1. PICK j : j = job[w]
    OBVIOUS
  <2>2. JobOK(j) /\ j.pc \notin Materializing
    BY <2>1, Zenon DEF Inv
  <2>3. j.record <= Len(records')
    BY <1>1, <2>2, SMT DEF JobOK, JobRows
  <2>4. j.pc \notin {"SELECTED", "EVALUATED"}
    BY <2>2, Zenon DEF Materializing
  <2>5. JobOK(j)'
    BY <2>2, <2>3, <2>4, Zenon DEF JobOK, CurrentItems, JobRows, Materializing, Refreshing
  <2> QED  BY <2>1, <2>5, Zenon DEF JobOK
<1>10. ASSUME NEW v \in Workers, NEW w \in Workers, v # w PROVE Apart(job[v], job[w])'
  <2>1. Apart(job[v], job[w]) /\ job[v].pc \notin Materializing
    BY <1>10, Zenon DEF Inv
  <2> QED  BY <2>1, Zenon DEF Apart, HeldBy, Materializing
<1>11. (job = [v \in Workers |-> job[v]])'
  BY Zenon DEF Inv
<1> QED  BY <1>4, <1>7, <1>8, <1>9, <1>10, <1>11, Zenon DEF Inv

\* A move of what the project row guards.
LEMMA MoveKnownKeeps == ASSUME Inv, NEW i \in Identities, MoveKnown(i) PROVE Inv'
<1>1. /\ \A w \in Workers : job[w].pc \notin Materializing
      /\ known' = [known EXCEPT ![i] = @ + 1] /\ UNCHANGED <<loose, records, proposals, items, job>>
  BY Zenon DEF MoveKnown, ProjectFree
<1>2. RowsOfProject
  BY Zenon DEF Inv
<1>3. known' \in [Identities -> Nat]
  BY <1>1, <1>2, SMT DEF RowsOfProject
<1>4. RowsOfProject'
  BY <1>1, <1>2, <1>3, Zenon DEF RowsOfProject, RecordRows
<1>5. Len(records) <= Len(records')
  BY <1>1, <1>2, SMT DEF RowsOfProject
<1> QED  BY <1>1, <1>4, <1>5, PlanesMove, Zenon

\* A new reconciliation record.
LEMMA ReconcileKeeps == ASSUME Inv, NEW c \in Candidates, Reconcile(c) PROVE Inv'
<1>1. PICK b \in BOOLEAN :
          records' = Append(records, [candidate |-> c, known |-> known[IdentityOf[c]],
                                      loose |-> loose[IdentityOf[c]], reviewable |-> b])
  BY Zenon DEF Reconcile
<1>2. /\ \A w \in Workers : job[w].pc \notin Materializing
      /\ UNCHANGED <<known, loose, proposals, items, job>>
  BY Zenon DEF Reconcile, ProjectFree
<1>3. RowsOfProject
  BY Zenon DEF Inv
<1>4. PICK r : r = [candidate |-> c, known |-> known[IdentityOf[c]],
                    loose |-> loose[IdentityOf[c]], reviewable |-> b]
  OBVIOUS
<1>5. r \in RecordRows
  <2>1. known[IdentityOf[c]] \in Nat /\ loose[IdentityOf[c]] \in Nat
    BY <1>3, ChangeProposalsAssumption, Zenon DEF RowsOfProject
  <2> QED  BY <1>4, <2>1, Zenon DEF RecordRows
<1>6. records' = Append(records, r) /\ records \in Seq(RecordRows)
  BY <1>1, <1>3, <1>4, Zenon DEF RowsOfProject
<1>7. /\ records' \in Seq(RecordRows) /\ Len(records) <= Len(records')
      /\ \A n \in 1..Len(records) : records'[n] = records[n]
  BY <1>5, <1>6, SMT
<1>8. RowsOfProject'
  BY <1>2, <1>3, <1>7, Zenon DEF RowsOfProject, RecordRows
<1> QED  BY <1>2, <1>7, <1>8, PlanesMove, Zenon

\* A move of what the project row does not guard.
LEMMA MoveLooseKeeps == ASSUME Inv, NEW some, MoveLoose(some) PROVE Inv'
<1>1. /\ loose' = [i \in Identities |-> loose[i] + IF i \in some THEN 1 ELSE 0]
      /\ UNCHANGED <<known, records, proposals, items, job>>
  BY Zenon DEF MoveLoose
<1>2. RowsOfProject
  BY Zenon DEF Inv
<1>3. loose' \in [Identities -> Nat]
  BY <1>1, <1>2, SMT DEF RowsOfProject
<1>4. RowsOfProject'
  BY <1>1, <1>2, <1>3, Zenon DEF RowsOfProject, RecordRows
<1>5. RowsOfProposals'
  BY <1>1, Zenon DEF Inv, RowsOfProposals, ProposalRows, Groups
<1>6. RowsOfItems'
  BY <1>1, Zenon DEF Inv, RowsOfItems, ItemRows, IdentityOfRecord
<1>7. OneCurrent'
  BY <1>1, Zenon DEF Inv, OneCurrent, CurrentItems, IdentityOfRecord
<1>8. ASSUME NEW w \in Workers PROVE JobOK(job[w])'
  <2>1. PICK j : j = job[w]
    OBVIOUS
  <2>2. JobOK(j)
    BY <2>1, Zenon DEF Inv
  <2>3. JobOK(j)'
    BY <1>1, <2>2, Zenon DEF JobOK, Newest, Predecessors, CurrentItems, IdentityOfRecord,
                            JobRows, Materializing, Refreshing
  <2> QED  BY <1>1, <2>1, <2>3, Zenon DEF JobOK
<1>9. ASSUME NEW v \in Workers, NEW w \in Workers, v # w PROVE Apart(job[v], job[w])'
  <2>1. Apart(job[v], job[w])
    BY <1>9, Zenon DEF Inv
  <2> QED  BY <1>1, <2>1, Zenon DEF Apart, HeldBy, Materializing, IdentityOfRecord
<1>10. (job = [v \in Workers |-> job[v]])'
  BY <1>1, Zenon DEF Inv
<1> QED  BY <1>4, <1>5, <1>6, <1>7, <1>8, <1>9, <1>10, Zenon DEF Inv

-------------------------------------------------------------------------------
(* Steps that write proposals and items                                    *)

\* A transaction that changes no item but those it holds, and adds none but for
\* the identity it holds, leaves what the others hold as it is.
LEMMA WriteKeeps ==
    ASSUME Inv, NEW w \in Workers, job' = [job EXCEPT ![w] = Idle],
           UNCHANGED <<known, loose, records>>,
           RowsOfProposals', RowsOfItems', OneCurrent',
           Len(proposals) <= Len(proposals'), Len(items) <= Len(items'),
           \A x \in CurrentItems : items'[x].record = items[x].record,
           \A x \in CurrentItems' : \/ x \in CurrentItems
                                    \/ /\ job[w].pc \in Materializing
                                       /\ IdentityOfRecord(items'[x].record)
                                          = IdentityOfRecord(job[w].record),
           \A x \in CurrentItems : x \in CurrentItems' \/ x \in HeldBy(job[w])
    PROVE  Inv'
<1>1. DOMAIN job = Workers
  BY Zenon DEF Inv
<1>2. job'[w] = Idle /\ \A v \in Workers \ {w} : job'[v] = job[v]
  BY <1>1, Zenon
<1>3. RowsOfProject'
  BY Zenon DEF Inv, RowsOfProject, RecordRows
<1>4. ASSUME NEW j PROVE JobOK(Idle)' /\ Apart(j, Idle)' /\ Apart(Idle, j)'
  <2>1. /\ Len(items') \in Nat /\ Len(proposals') \in Nat /\ Len(records') \in Nat
    BY <1>3, SMT DEF RowsOfProject, RowsOfProposals, RowsOfItems
  <2>2. /\ Idle.record = 0 /\ Idle.item = 0 /\ Idle.proposal = 0 /\ Idle.emptied = FALSE
        /\ Idle.stale = {} /\ Idle.void = {} /\ Idle.pc = "IDLE" /\ Idle \in JobRows
    BY Zenon DEF Idle, JobRows
  <2>3. JobOK(Idle)'
    BY <2>1, <2>2, SMT DEF JobOK, Materializing, JobRows, Refreshing
  <2>4. HeldBy(Idle) = {}
    BY <2>2, SMT DEF HeldBy
  <2> QED  BY <2>2, <2>3, <2>4, Zenon DEF Apart, Materializing
<1>5. ASSUME NEW v \in Workers \ {w} PROVE JobOK(job[v])'
  <2>1. PICK j : j = job[v]
    OBVIOUS
  <2>2. JobOK(j) /\ Apart(j, job[w]) /\ j \in JobRows
    BY <2>1, Zenon DEF Inv, JobOK
  <2>3. /\ Len(items) \in Nat /\ Len(proposals) \in Nat /\ Len(items') \in Nat
        /\ Len(proposals') \in Nat
    BY SMT DEF Inv, RowsOfProposals, RowsOfItems
  <2>4. 1..Len(items) \subseteq 1..Len(items') /\ 1..Len(proposals) \subseteq 1..Len(proposals')
    BY <2>3, SMT
  <2>5. /\ j.record <= Len(records) /\ j.item <= Len(items') /\ j.proposal <= Len(proposals')
        /\ j.stale \subseteq 1..Len(items') /\ j.void \subseteq 1..Len(proposals')
    <3>1. j.item \in Nat /\ j.proposal \in Nat
      BY <2>2, Zenon DEF JobRows
    <3>2. j.item <= Len(items') /\ j.proposal <= Len(proposals')
      BY <3>1, <2>2, <2>3, SMT DEF JobOK
    <3> QED  BY <3>2, <2>2, <2>4, Zenon DEF JobOK
  <2>6. j.pc \in Materializing => Newest(j.record)'
    BY <2>2, Zenon DEF JobOK, Newest, IdentityOfRecord
  <2>7. ASSUME j.pc \in {"SELECTED", "EVALUATED"}
        PROVE  Predecessors(j.record)' = {j.item} \ {0}
    <3>1. Predecessors(j.record) = {j.item} \ {0} /\ HeldBy(j) = {j.item} \ {0}
      BY <2>2, <2>7, Zenon DEF JobOK, HeldBy
    <3>2. job[w].pc \in Materializing => IdentityOfRecord(job[w].record) # IdentityOfRecord(j.record)
      BY <2>2, <2>7, Zenon DEF Apart, Materializing
    <3>3. ASSUME NEW x \in CurrentItems', IdentityOfRecord(items'[x].record) = IdentityOfRecord(j.record)
          PROVE  x \in Predecessors(j.record)
      <4>1. x \in CurrentItems
        BY <3>2, <3>3, Zenon
      <4> QED  BY <4>1, <3>3, Zenon DEF Predecessors
    <3>4. ASSUME NEW x \in Predecessors(j.record)
          PROVE  x \in CurrentItems' /\ IdentityOfRecord(items'[x].record) = IdentityOfRecord(j.record)
      <4>1. x \in CurrentItems /\ IdentityOfRecord(items[x].record) = IdentityOfRecord(j.record)
        BY <3>4, Zenon DEF Predecessors
      <4>2. x \notin HeldBy(job[w])
        BY <3>1, <3>4, <2>2, Zenon DEF Apart
      <4> QED  BY <4>1, <4>2, Zenon
    <3>5. \A n : IdentityOfRecord(n)' = IdentityOfRecord(n)
      BY Zenon DEF IdentityOfRecord
    <3>6. Predecessors(j.record)' = {x \in CurrentItems' :
                                        IdentityOfRecord(items'[x].record) = IdentityOfRecord(j.record)}
      BY Zenon DEF Predecessors, IdentityOfRecord
    <3> QED  BY <3>1, <3>3, <3>4, <3>6, Zenon
  <2>8. ASSUME j.pc \in {"MARKED", "COUNTED"} PROVE j.stale \subseteq CurrentItems'
    <3>1. j.stale \subseteq CurrentItems
      BY <2>2, <2>8, Zenon DEF JobOK
    <3>2. HeldBy(j) = j.stale
      BY <2>8, SMT DEF HeldBy
    <3> QED  BY <3>1, <3>2, <2>2, Zenon DEF Apart
  <2>9. JobOK(j)'
    BY <2>2, <2>5, <2>6, <2>7, <2>8, Zenon DEF JobOK, JobRows, Materializing, Refreshing
  <2>10. job'[v] = j
    BY <1>2, <2>1
  <2> QED  BY <2>9, <2>10, Zenon DEF JobOK
<1>6. ASSUME NEW v \in Workers PROVE JobOK(job[v])'
  <2>1. CASE v = w
    BY <2>1, <1>2, <1>4, Zenon DEF JobOK
  <2> QED  BY <2>1, <1>5
<1>7. ASSUME NEW v \in Workers, NEW u \in Workers, v # u PROVE Apart(job[v], job[u])'
  <2>1. PICK j, k : j = job[v] /\ k = job[u]
    OBVIOUS
  <2>2. Apart(j, k)'
    BY <1>7, <2>1, Zenon DEF Inv, Apart, HeldBy, IdentityOfRecord, Materializing
  <2>3. CASE v = w
    <3>1. job'[v] = Idle /\ job'[u] = k
      BY <1>2, <1>7, <2>1, <2>3
    <3> QED  BY <3>1, <1>4, Zenon DEF Apart
  <2>4. CASE u = w
    <3>1. job'[u] = Idle /\ job'[v] = j
      BY <1>2, <1>7, <2>1, <2>4
    <3> QED  BY <3>1, <1>4, Zenon DEF Apart
  <2>5. CASE v # w /\ u # w
    <3>1. job'[v] = j /\ job'[u] = k
      BY <1>2, <2>1, <2>5
    <3> QED  BY <3>1, <2>2, Zenon DEF Apart
  <2> QED  BY <2>3, <2>4, <2>5
<1>8. (job = [v \in Workers |-> job[v]])'
  BY <1>1, Zenon
<1> QED  BY <1>3, <1>6, <1>7, <1>8, Zenon DEF Inv

\* The refresh writes the items it holds and the proposals that are still open.
LEMMA RefreshProposalsKeeps == ASSUME Inv, NEW w \in Workers, RefreshProposals(w) PROVE Inv'
<1>1. PICK S, V : S = job[w].stale /\ V = job[w].void \cap OpenProposals
  OBVIOUS
<1>2. /\ job[w].pc = "COUNTED" /\ job' = [job EXCEPT ![w] = Idle] /\ UNCHANGED <<known, loose, records>>
      /\ items' = [x \in DOMAIN items |->
                      IF x \in S THEN [items[x] EXCEPT !.state = "STALE"] ELSE items[x]]
      /\ proposals' = [p \in DOMAIN proposals |->
                          IF p \in V THEN [proposals[p] EXCEPT !.state = "STALE"] ELSE proposals[p]]
  BY <1>1, Zenon DEF RefreshProposals
<1>3. JobOK(job[w])
  BY Zenon DEF Inv
<1>4. S \subseteq CurrentItems /\ HeldBy(job[w]) = S
  BY <1>1, <1>2, <1>3, SMT DEF JobOK, HeldBy
<1>5. PICK N \in Nat, L \in Nat : /\ N = Len(items) /\ L = Len(proposals)
                                  /\ DOMAIN items = 1..N /\ DOMAIN proposals = 1..L
  BY SMT DEF Inv, RowsOfItems, RowsOfProposals
<1>6. \A x \in 1..N : items[x] \in ItemRows
  BY <1>5, SMT DEF Inv, RowsOfItems
<1>7. \A p \in 1..L : proposals[p] \in ProposalRows
  BY <1>5, SMT DEF Inv, RowsOfProposals
<1>8. ASSUME NEW x \in 1..N
      PROVE  /\ items'[x] \in ItemRows /\ items'[x].record = items[x].record
             /\ items'[x].proposal = items[x].proposal /\ items'[x].successor = items[x].successor
             /\ items'[x].state = IF x \in S THEN "STALE" ELSE items[x].state
  <2>1. items[x] \in ItemRows /\ items'[x] = IF x \in S THEN [items[x] EXCEPT !.state = "STALE"] ELSE items[x]
    BY <1>2, <1>5, <1>6, Zenon
  <2> QED  BY <2>1, Zenon DEF ItemRows
<1>9. ASSUME NEW p \in 1..L
      PROVE  /\ proposals'[p] \in ProposalRows /\ proposals'[p].successor = proposals[p].successor
             /\ proposals'[p].state = IF p \in V THEN "STALE" ELSE proposals[p].state
  <2>1. /\ proposals[p] \in ProposalRows
        /\ proposals'[p] = IF p \in V THEN [proposals[p] EXCEPT !.state = "STALE"] ELSE proposals[p]
    BY <1>2, <1>5, <1>7, Zenon
  <2> QED  BY <2>1, Zenon DEF ProposalRows
<1>10. items' \in Seq(ItemRows) /\ Len(items') = N /\ DOMAIN items' = 1..N
  <2>1. items' = [x \in 1..N |-> items'[x]]
    BY <1>2, <1>5, Zenon
  <2> QED  BY <2>1, <1>8, SMT
<1>11. proposals' \in Seq(ProposalRows) /\ Len(proposals') = L /\ DOMAIN proposals' = 1..L
  <2>1. proposals' = [p \in 1..L |-> proposals'[p]]
    BY <1>2, <1>5, Zenon
  <2> QED  BY <2>1, <1>9, SMT
<1>12. \A x \in S : x \in 1..N /\ items[x].state = "CURRENT"
  BY <1>4, <1>5, Zenon DEF CurrentItems
<1>13. \A p \in V : p \in 1..L /\ proposals[p].state = "OPEN"
  BY <1>1, <1>5, Zenon DEF OpenProposals
<1>14. RowsOfProposals'
  <2>1. ASSUME NEW p \in 1..L
        PROVE  /\ proposals'[p].state = "SUPERSEDED" => proposals'[p].successor > p
               /\ proposals'[p].state # "SUPERSEDED" => proposals'[p].successor = 0
               /\ proposals'[p].successor <= L
    <3>1. /\ proposals[p].state = "SUPERSEDED" => proposals[p].successor > p
          /\ proposals[p].state # "SUPERSEDED" => proposals[p].successor = 0
          /\ proposals[p].successor <= L
      BY <1>5, Zenon DEF Inv, RowsOfProposals
    <3> QED  BY <3>1, <1>9, <1>13, Zenon
  <2>2. (proposals \in Seq(ProposalRows))'
    BY <1>11, Zenon DEF ProposalRows, Groups
  <2> QED  BY <1>11, <2>1, <2>2, Zenon DEF RowsOfProposals
<1>15. \A n : IdentityOfRecord(n)' = IdentityOfRecord(n)
  BY <1>2, Zenon DEF IdentityOfRecord
<1>16. RowsOfItems'
  <2>1. ASSUME NEW x \in 1..N
        PROVE  /\ items'[x].record \in 1..Len(records) /\ items'[x].proposal \in 1..L
               /\ items'[x].state # "SUPERSEDED" => items'[x].successor = 0
               /\ items'[x].state = "SUPERSEDED" =>
                     /\ items'[x].successor > x /\ items'[x].successor <= N
                     /\ IdentityOfRecord(items'[items'[x].successor].record)
                        = IdentityOfRecord(items'[x].record)
    <3>1. /\ items[x].record \in 1..Len(records) /\ items[x].proposal \in 1..L
          /\ items[x].state # "SUPERSEDED" => items[x].successor = 0
          /\ items[x].state = "SUPERSEDED" =>
                /\ items[x].successor > x /\ items[x].successor <= N
                /\ IdentityOfRecord(items[items[x].successor].record) = IdentityOfRecord(items[x].record)
      BY <1>5, Zenon DEF Inv, RowsOfItems
    <3>2. ASSUME items[x].state = "SUPERSEDED" PROVE items[x].successor \in 1..N
      <4>1. items[x].successor \in Nat
        BY <1>6, Zenon DEF ItemRows
      <4> QED  BY <3>1, <3>2, <4>1, SMT
    <3>3. CASE x \in S
      <4>1. items'[x].state = "STALE" /\ items[x].state = "CURRENT"
        BY <3>3, <1>8, <1>12, Zenon
      <4> QED  BY <4>1, <3>1, <1>8, Zenon
    <3>4. CASE x \notin S
      <4>1. /\ items'[x].state = items[x].state /\ items'[x].record = items[x].record
            /\ items'[x].proposal = items[x].proposal /\ items'[x].successor = items[x].successor
        BY <3>4, <1>8, Zenon
      <4>2. items[x].state = "SUPERSEDED" =>
                items'[items[x].successor].record = items[items[x].successor].record
        BY <3>2, <1>8, Zenon
      <4> QED  BY <4>1, <4>2, <3>1, SMT
    <3> QED  BY <3>3, <3>4
  <2>2. (items \in Seq(ItemRows))'
    BY <1>10, Zenon DEF ItemRows
  <2>3. records' = records /\ Len(items') = N /\ Len(proposals') = L /\ DOMAIN items' = 1..N
    BY <1>2, <1>10, <1>11, Zenon
  <2>4. ASSUME NEW x \in DOMAIN items'
        PROVE  /\ items'[x].record \in 1..Len(records') /\ items'[x].proposal \in 1..Len(proposals')
               /\ items'[x].state # "SUPERSEDED" => items'[x].successor = 0
               /\ items'[x].state = "SUPERSEDED" =>
                     /\ items'[x].successor > x /\ items'[x].successor <= Len(items')
                     /\ IdentityOf[records'[items'[items'[x].successor].record].candidate]
                        = IdentityOf[records'[items'[x].record].candidate]
    <3>1. x \in 1..N
      BY <2>3
    <3> QED  BY <3>1, <2>1, <2>3, Zenon DEF IdentityOfRecord
  <2> QED  BY <2>2, <2>4, Zenon DEF RowsOfItems, IdentityOfRecord
<1>17. CurrentItems' = CurrentItems \ S
  <2>1. CurrentItems' = {x \in 1..N : items'[x].state = "CURRENT"}
    BY <1>10, Zenon DEF CurrentItems
  <2>2. CurrentItems = {x \in 1..N : items[x].state = "CURRENT"}
    BY <1>5, Zenon DEF CurrentItems
  <2> QED  BY <2>1, <2>2, <1>8, Zenon
<1>18. \A x \in CurrentItems : items'[x].record = items[x].record
  BY <1>5, <1>8, Zenon DEF CurrentItems
<1>19. OneCurrent'
  <2>1. ASSUME NEW x \in CurrentItems', NEW y \in CurrentItems',
               IdentityOfRecord(items'[x].record) = IdentityOfRecord(items'[y].record)
        PROVE  x = y
    <3>1. x \in CurrentItems /\ y \in CurrentItems
      BY <1>17, Zenon
    <3>2. IdentityOfRecord(items[x].record) = IdentityOfRecord(items[y].record)
      BY <3>1, <2>1, <1>18, Zenon
    <3> QED  BY <3>1, <3>2, Zenon DEF Inv, OneCurrent
  <2>2. ASSUME NEW x \in CurrentItems', NEW y \in CurrentItems',
               IdentityOf[records'[items'[x].record].candidate]
               = IdentityOf[records'[items'[y].record].candidate]
        PROVE  x = y
    <3>1. records' = records
      BY <1>2
    <3>2. IdentityOfRecord(items'[x].record) = IdentityOfRecord(items'[y].record)
      BY <2>2, <3>1, SMT DEF IdentityOfRecord
    <3> QED  BY <3>2, <2>1, Zenon
  <2> QED  BY <2>2, Zenon DEF OneCurrent, IdentityOfRecord
<1>20. Len(proposals) <= Len(proposals') /\ Len(items) <= Len(items')
  BY <1>5, <1>10, <1>11, SMT
<1> QED  BY <1>2, <1>4, <1>14, <1>16, <1>17, <1>18, <1>19, <1>20, WriteKeeps, Zenon

\* The proposals with the one that is opened for the item, if any.
LEMMA OpenedRows ==
    ASSUME Inv, NEW w \in Workers, job[w].pc \in {"SELECTED", "EVALUATED"}
    PROVE  \E L \in Nat, M \in Nat :
              /\ L = Len(proposals) /\ M = Len(Opened(w)) /\ DOMAIN proposals = 1..L
              /\ L <= M /\ M <= L + 1 /\ (job[w].proposal = 0 => M = L + 1)
              /\ Opened(w) \in Seq(ProposalRows) /\ DOMAIN Opened(w) = 1..M
              /\ \A p \in 1..L : Opened(w)[p] = proposals[p]
              /\ \A p \in 1..M : p > L => Opened(w)[p].state = "OPEN" /\ Opened(w)[p].successor = 0
              /\ NewItem(w).proposal \in 1..M
<1>1. PICK L \in Nat : L = Len(proposals) /\ DOMAIN proposals = 1..L
  BY SMT DEF Inv, RowsOfProposals
<1>2. JobOK(job[w]) /\ proposals \in Seq(ProposalRows)
  BY Zenon DEF Inv, RowsOfProposals
<1>3. job[w].proposal \in Nat /\ job[w].proposal <= L /\ Newest(job[w].record)
  BY <1>1, <1>2, Zenon DEF JobOK, JobRows, Materializing
<1>4. NewItem(w).proposal = IF job[w].proposal # 0 THEN job[w].proposal ELSE L + 1
  BY <1>1, Zenon DEF NewItem
<1>5. CASE job[w].proposal # 0
  <2>1. Opened(w) = proposals
    BY <1>5, Zenon DEF Opened
  <2> QED  BY <2>1, <1>1, <1>2, <1>3, <1>4, <1>5, SMT
<1>6. CASE job[w].proposal = 0
  <2>1. PICK g : g = GroupOf[records[job[w].record].candidate]
    OBVIOUS
  <2>2. records[job[w].record] \in RecordRows
    BY <1>3, SMT DEF Newest, Inv, RowsOfProject
  <2>3. g \in Groups
    BY <2>1, <2>2, Zenon DEF RecordRows, Groups
  <2>4. PICK r : r = [group |-> g, state |-> "OPEN", successor |-> 0]
    OBVIOUS
  <2>5. r \in ProposalRows /\ r.state = "OPEN" /\ r.successor = 0
    BY <2>3, <2>4, Zenon DEF ProposalRows
  <2>6. Opened(w) = Append(proposals, r)
    BY <1>6, <2>1, <2>4, Zenon DEF Opened
  <2>7. /\ Len(Opened(w)) = L + 1 /\ Opened(w) \in Seq(ProposalRows) /\ DOMAIN Opened(w) = 1..(L + 1)
        /\ \A p \in 1..L : Opened(w)[p] = proposals[p]
        /\ Opened(w)[L + 1] = r
    BY <1>1, <1>2, <2>5, <2>6, SMT
  <2>8. \A p \in 1..(L + 1) : p > L => p = L + 1
    BY SMT
  <2>9. NewItem(w).proposal \in 1..(L + 1) /\ L + 1 \in Nat /\ L <= L + 1
    BY <1>4, <1>6, SMT
  <2> QED  BY <1>1, <2>5, <2>7, <2>8, <2>9, SMT
<1> QED  BY <1>5, <1>6

\* A transaction that ends with nothing but the opened proposal.
LEMMA MaterializeAgainKeeps == ASSUME Inv, NEW w \in Workers, MaterializeAgain(w) PROVE Inv'
<1>1. /\ job[w].pc = "SELECTED" /\ proposals' = Opened(w) /\ job' = [job EXCEPT ![w] = Idle]
      /\ UNCHANGED <<known, loose, records, items>>
  BY Zenon DEF MaterializeAgain
<1>2. PICK L \in Nat, M \in Nat :
              /\ L = Len(proposals) /\ M = Len(Opened(w)) /\ DOMAIN proposals = 1..L
              /\ L <= M /\ M <= L + 1
              /\ Opened(w) \in Seq(ProposalRows) /\ DOMAIN Opened(w) = 1..M
              /\ \A p \in 1..L : Opened(w)[p] = proposals[p]
              /\ \A p \in 1..M : p > L => Opened(w)[p].state = "OPEN" /\ Opened(w)[p].successor = 0
  BY <1>1, OpenedRows, Zenon
<1>3. RowsOfProposals'
  <2>1. ASSUME NEW p \in 1..M
        PROVE  /\ proposals'[p].state = "SUPERSEDED" => proposals'[p].successor > p
               /\ proposals'[p].state # "SUPERSEDED" => proposals'[p].successor = 0
               /\ proposals'[p].successor <= M
    <3>1. CASE p > L
      BY <1>1, <1>2, <3>1, SMT
    <3>2. CASE ~ (p > L)
      <4>1. p \in 1..L
        BY <3>2, <1>2, SMT
      <4>2. proposals'[p] = proposals[p] /\ proposals[p] \in ProposalRows
        BY <4>1, <1>1, <1>2, SMT DEF Inv, RowsOfProposals
      <4>3. proposals[p].successor \in Nat
        BY <4>2, Zenon DEF ProposalRows
      <4>4. /\ proposals[p].state = "SUPERSEDED" => proposals[p].successor > p
            /\ proposals[p].state # "SUPERSEDED" => proposals[p].successor = 0
            /\ proposals[p].successor <= L
        BY <4>1, <1>2, Zenon DEF Inv, RowsOfProposals
      <4> QED  BY <4>2, <4>3, <4>4, <1>2, SMT
    <3> QED  BY <3>1, <3>2
  <2>2. (proposals \in Seq(ProposalRows))'
    BY <1>1, <1>2, Zenon DEF ProposalRows, Groups
  <2> QED  BY <1>1, <1>2, <2>1, <2>2, Zenon DEF RowsOfProposals
<1>4. RowsOfItems'
  <2>1. ASSUME NEW x \in DOMAIN items PROVE items[x].proposal \in 1..Len(proposals')
    <3>1. items[x].proposal \in 1..L
      BY <1>2, Zenon DEF Inv, RowsOfItems
    <3> QED  BY <3>1, <1>1, <1>2, SMT
  <2>2. (items \in Seq(ItemRows))'
    BY <1>1, Zenon DEF Inv, RowsOfItems, ItemRows
  <2> QED  BY <1>1, <2>1, <2>2, Zenon DEF Inv, RowsOfItems, IdentityOfRecord
<1>5. OneCurrent' /\ CurrentItems' = CurrentItems
  <2>1. UNCHANGED <<records, items>> /\ OneCurrent
    BY <1>1, Zenon DEF Inv
  <2>2. CurrentItems' = CurrentItems
    BY <2>1, Zenon DEF CurrentItems
  <2>3. OneCurrent'
    BY <2>1, SMT DEF OneCurrent, CurrentItems, IdentityOfRecord
  <2> QED  BY <2>2, <2>3
<1>6. Len(proposals) <= Len(proposals') /\ Len(items) <= Len(items')
  BY <1>1, <1>2, SMT DEF Inv, RowsOfItems
<1>7. \A x \in CurrentItems : items'[x].record = items[x].record
  BY <1>1
<1> QED  BY <1>1, <1>3, <1>4, <1>5, <1>6, <1>7, WriteKeeps, Zenon

\* The N items with the new one after them, to which k, the predecessor, points.
AddedTo(w, k, N) ==
    /\ N = Len(items) /\ DOMAIN items = 1..N /\ Len(items') = N + 1 /\ DOMAIN items' = 1..(N + 1)
    /\ items' \in Seq(ItemRows) /\ items'[N + 1] = NewItem(w)
    /\ \A x \in 1..N :
          /\ items'[x].record = items[x].record /\ items'[x].proposal = items[x].proposal
          /\ x = k => items'[x].state = "SUPERSEDED" /\ items'[x].successor = N + 1
          /\ x # k => items'[x].state = items[x].state /\ items'[x].successor = items[x].successor

\* So are the items after the step.
LEMMA AddedRows ==
    ASSUME Inv, NEW w \in Workers, job[w].pc \in {"SELECTED", "EVALUATED"}, items' = ItemAdded(w),
           NEW k, k = job[w].item
    PROVE  \E N \in Nat : AddedTo(w, k, N)
<1>1. PICK N \in Nat : N = Len(items) /\ DOMAIN items = 1..N /\ N + 1 \in Nat
  BY SMT DEF Inv, RowsOfItems
<1>2. \A x \in 1..N : items[x] \in ItemRows
  BY <1>1, SMT DEF Inv, RowsOfItems
<1>4. PICK old : old = [x \in 1..N |->
                           IF x = k THEN [items[x] EXCEPT !.state = "SUPERSEDED", !.successor = N + 1]
                           ELSE items[x]]
  OBVIOUS
<1>5. PICK new : new = NewItem(w)
  OBVIOUS
<1>6. items' = Append(old, new)
  BY <1>1, <1>4, <1>5, Zenon DEF ItemAdded
<1>7. ASSUME NEW x \in 1..N
      PROVE  /\ old[x] \in ItemRows
             /\ old[x].record = items[x].record /\ old[x].proposal = items[x].proposal
             /\ x = k => old[x].state = "SUPERSEDED" /\ old[x].successor = N + 1
             /\ x # k => old[x].state = items[x].state /\ old[x].successor = items[x].successor
  <2>1. /\ items[x] \in ItemRows
        /\ old[x] = IF x = k THEN [items[x] EXCEPT !.state = "SUPERSEDED", !.successor = N + 1]
                    ELSE items[x]
    BY <1>2, <1>4, Zenon
  <2> QED  BY <2>1, <1>1, Zenon DEF ItemRows
<1>8. old \in Seq(ItemRows) /\ Len(old) = N /\ DOMAIN old = 1..N
  <2>1. old = [x \in 1..N |-> old[x]]
    BY <1>4, Zenon
  <2> QED  BY <2>1, <1>7, SMT
<1>9. new \in ItemRows
  <2>1. JobOK(job[w])
    BY Zenon DEF Inv
  <2>2. job[w].record \in Nat /\ job[w].proposal \in Nat /\ Len(proposals) + 1 \in Nat
    BY <2>1, SMT DEF JobOK, JobRows, Inv, RowsOfProposals
  <2> QED  BY <1>5, <2>2, Zenon DEF NewItem, ItemRows
<1>10. /\ items' \in Seq(ItemRows) /\ Len(items') = N + 1 /\ DOMAIN items' = 1..(N + 1)
       /\ items'[N + 1] = new
       /\ \A x \in 1..N : items'[x] = old[x]
  BY <1>6, <1>8, <1>9, SMT
<1>11. \A x \in 1..N :
          /\ items'[x].record = items[x].record /\ items'[x].proposal = items[x].proposal
          /\ x = k => items'[x].state = "SUPERSEDED" /\ items'[x].successor = N + 1
          /\ x # k => items'[x].state = items[x].state /\ items'[x].successor = items[x].successor
  <2>1. ASSUME NEW x \in 1..N
        PROVE  /\ items'[x].record = items[x].record /\ items'[x].proposal = items[x].proposal
               /\ x = k => items'[x].state = "SUPERSEDED" /\ items'[x].successor = N + 1
               /\ x # k => items'[x].state = items[x].state /\ items'[x].successor = items[x].successor
    <3>1. items'[x] = old[x]
      BY <1>10, Zenon
    <3> QED  BY <3>1, <1>7, Zenon
  <2> QED  BY <2>1, Zenon
<1> QED  BY <1>1, <1>5, <1>10, <1>11, Zenon DEF AddedTo

\* The new item takes the line of the identity over from the one it replaces.
LEMMA MaterializeKeeps == ASSUME Inv, NEW w \in Workers, Materialize(w) PROVE Inv'
<1>1. PICK k, n : k = job[w].item /\ n = job[w].record
  OBVIOUS
<1>2. PICK p : p = IF k = 0 THEN 0 ELSE items[k].proposal
  OBVIOUS
<1>3. /\ job[w].pc = (IF k = 0 THEN "SELECTED" ELSE "EVALUATED")
      /\ items' = ItemAdded(w) /\ job' = [job EXCEPT ![w] = Idle]
      /\ UNCHANGED <<known, loose, records>>
      /\ proposals' = IF job[w].emptied /\ proposals[p].state = "OPEN"
                      THEN [Opened(w) EXCEPT ![p] =
                              [@ EXCEPT !.state = "SUPERSEDED", !.successor = Len(proposals) + 1]]
                      ELSE Opened(w)
  BY <1>1, <1>2, Zenon DEF Materialize
<1>4. job[w].pc \in {"SELECTED", "EVALUATED"} /\ job[w].pc \in Materializing
  BY <1>3, Zenon DEF Materializing
<1>5. JobOK(job[w]) /\ n \in Nat /\ k \in Nat
  BY <1>1, Zenon DEF Inv, JobOK, JobRows
<1>6. /\ Predecessors(n) = {k} \ {0} /\ HeldBy(job[w]) = {k} \ {0} /\ n \in 1..Len(records)
      /\ job[w].emptied => k # 0
      /\ k # 0 => job[w].proposal = 0
  BY <1>1, <1>3, <1>4, <1>5, Zenon DEF JobOK, HeldBy, Newest
<1>7. PICK N \in Nat :
              /\ N = Len(items) /\ DOMAIN items = 1..N /\ Len(items') = N + 1 /\ DOMAIN items' = 1..(N + 1)
              /\ items' \in Seq(ItemRows) /\ items'[N + 1] = NewItem(w)
              /\ \A x \in 1..N :
                    /\ items'[x].record = items[x].record /\ items'[x].proposal = items[x].proposal
                    /\ x = k => items'[x].state = "SUPERSEDED" /\ items'[x].successor = N + 1
                    /\ x # k => items'[x].state = items[x].state /\ items'[x].successor = items[x].successor
  <2>1. k = job[w].item /\ items' = ItemAdded(w)
    BY <1>1, <1>3, Zenon
  <2>2. PICK N \in Nat : AddedTo(w, k, N)
    BY <2>1, <1>4, AddedRows, Zenon
  <2> QED  BY <2>2, Zenon DEF AddedTo
<1>8. PICK L \in Nat, M \in Nat :
              /\ L = Len(proposals) /\ M = Len(Opened(w)) /\ DOMAIN proposals = 1..L
              /\ L <= M /\ M <= L + 1 /\ (job[w].proposal = 0 => M = L + 1)
              /\ Opened(w) \in Seq(ProposalRows) /\ DOMAIN Opened(w) = 1..M
              /\ \A q \in 1..L : Opened(w)[q] = proposals[q]
              /\ \A q \in 1..M : q > L => Opened(w)[q].state = "OPEN" /\ Opened(w)[q].successor = 0
              /\ NewItem(w).proposal \in 1..M
  BY <1>4, OpenedRows, Zenon
<1>9. k # 0 => k \in CurrentItems /\ k \in 1..N /\ IdentityOfRecord(items[k].record) = IdentityOfRecord(n)
  <2>1. k # 0 => k \in Predecessors(n)
    BY <1>6, Zenon
  <2> QED  BY <2>1, <1>7, Zenon DEF Predecessors, CurrentItems
<1>10. /\ NewItem(w).record = n /\ NewItem(w).state = "CURRENT" /\ NewItem(w).successor = 0
  BY <1>1, Zenon DEF NewItem
<1>11. /\ proposals' \in Seq(ProposalRows) /\ Len(proposals') = M /\ DOMAIN proposals' = 1..M
       /\ \A q \in 1..M : \/ proposals'[q] = Opened(w)[q]
                          \/ /\ q <= L /\ M = L + 1
                             /\ proposals'[q].state = "SUPERSEDED" /\ proposals'[q].successor = M
  <2>1. CASE ~ (job[w].emptied /\ proposals[p].state = "OPEN")
    BY <1>3, <1>8, <2>1, SMT
  <2>2. CASE job[w].emptied /\ proposals[p].state = "OPEN"
    <3>1. k # 0 /\ M = L + 1
      BY <1>6, <1>8, <2>2, Zenon
    <3>2. p \in 1..L
      BY <1>2, <1>7, <1>8, <1>9, <3>1, Zenon DEF Inv, RowsOfItems
    <3>3. p \in 1..M /\ p <= L /\ L + 1 \in Nat
      BY <1>8, <3>2, SMT
    <3>4. Opened(w)[p] \in ProposalRows
      BY <1>8, <3>3, SMT
    <3>5. PICK row : row = [Opened(w)[p] EXCEPT !.state = "SUPERSEDED", !.successor = L + 1]
      OBVIOUS
    <3>6. row \in ProposalRows /\ row.state = "SUPERSEDED" /\ row.successor = L + 1
      BY <3>3, <3>4, <3>5, Zenon DEF ProposalRows
    <3>7. proposals' = [Opened(w) EXCEPT ![p] = row]
      BY <1>3, <1>8, <2>2, <3>5, Zenon
    <3>8. proposals' \in Seq(ProposalRows) /\ Len(proposals') = M /\ DOMAIN proposals' = 1..M
      BY <1>8, <3>3, <3>6, <3>7, SMT
    <3>9. \A q \in 1..M : proposals'[q] = IF q = p THEN row ELSE Opened(w)[q]
      BY <1>8, <3>7, Zenon
    <3> QED  BY <3>1, <3>3, <3>6, <3>8, <3>9, Zenon
  <2> QED  BY <2>1, <2>2
<1>12. RowsOfProposals'
  <2>1. ASSUME NEW q \in 1..M
        PROVE  /\ proposals'[q].state = "SUPERSEDED" => proposals'[q].successor > q
               /\ proposals'[q].state # "SUPERSEDED" => proposals'[q].successor = 0
               /\ proposals'[q].successor <= M
    <3>1. CASE q <= L /\ M = L + 1 /\ proposals'[q].state = "SUPERSEDED" /\ proposals'[q].successor = M
      BY <3>1, SMT
    <3>2. CASE proposals'[q] = Opened(w)[q] /\ q > L
      BY <3>2, <1>8, SMT
    <3>3. CASE proposals'[q] = Opened(w)[q] /\ ~ (q > L)
      <4>1. q \in 1..L
        BY <3>3, SMT
      <4>2. proposals'[q] = proposals[q] /\ proposals[q] \in ProposalRows
        BY <4>1, <3>3, <1>8, SMT DEF Inv, RowsOfProposals
      <4>3. proposals[q].successor \in Nat
        BY <4>2, Zenon DEF ProposalRows
      <4>4. /\ proposals[q].state = "SUPERSEDED" => proposals[q].successor > q
            /\ proposals[q].state # "SUPERSEDED" => proposals[q].successor = 0
            /\ proposals[q].successor <= L
        BY <4>1, <1>8, Zenon DEF Inv, RowsOfProposals
      <4> QED  BY <4>2, <4>3, <4>4, <1>8, SMT
    <3> QED  BY <3>1, <3>2, <3>3, <1>11, Zenon
  <2>2. (proposals \in Seq(ProposalRows))'
    BY <1>11, Zenon DEF ProposalRows, Groups
  <2> QED  BY <1>11, <2>1, <2>2, Zenon DEF RowsOfProposals
<1>13. ASSUME NEW x \in 1..(N + 1) PROVE x \in 1..N \/ x = N + 1
  BY <1>13, SMT
<1>14. ASSUME NEW x \in 1..N
       PROVE  /\ x \in 1..(N + 1) /\ x # N + 1
              /\ items[x].record \in 1..Len(records) /\ items[x].proposal \in 1..M
              /\ items[x].state # "SUPERSEDED" => items[x].successor = 0
              /\ items[x].state = "SUPERSEDED" =>
                    /\ items[x].successor > x /\ items[x].successor <= N + 1
                    /\ items[x].successor \in 1..N
                    /\ IdentityOfRecord(items[items[x].successor].record) = IdentityOfRecord(items[x].record)
  <2>1. /\ items[x].record \in 1..Len(records) /\ items[x].proposal \in 1..L
        /\ items[x].state # "SUPERSEDED" => items[x].successor = 0
        /\ items[x].state = "SUPERSEDED" =>
              /\ items[x].successor > x /\ items[x].successor <= N
              /\ IdentityOfRecord(items[items[x].successor].record) = IdentityOfRecord(items[x].record)
    BY <1>7, <1>8, Zenon DEF Inv, RowsOfItems
  <2>2. items[x] \in ItemRows
    BY <1>7, SMT DEF Inv, RowsOfItems
  <2>3. items[x].successor \in Nat /\ items[x].proposal \in Nat
    BY <2>2, Zenon DEF ItemRows
  <2>4. items[x].proposal \in 1..M /\ x \in 1..(N + 1) /\ x # N + 1
    BY <2>1, <1>8, SMT
  <2>5. items[x].state = "SUPERSEDED" =>
            items[x].successor > x /\ items[x].successor <= N + 1 /\ items[x].successor \in 1..N
    BY <2>1, <2>3, SMT
  <2> QED  BY <2>1, <2>4, <2>5, Zenon
<1>15. RowsOfItems'
  <2>1. ASSUME NEW x \in 1..(N + 1)
        PROVE  /\ items'[x].record \in 1..Len(records) /\ items'[x].proposal \in 1..M
               /\ items'[x].state # "SUPERSEDED" => items'[x].successor = 0
               /\ items'[x].state = "SUPERSEDED" =>
                     /\ items'[x].successor > x /\ items'[x].successor <= N + 1
                     /\ IdentityOfRecord(items'[items'[x].successor].record)
                        = IdentityOfRecord(items'[x].record)
    <3>1. CASE x = N + 1
      BY <3>1, <1>6, <1>7, <1>8, <1>10, Zenon
    <3>2. CASE x \in 1..N /\ x = k
      <4>1. /\ items'[x].record = items[x].record /\ items'[x].proposal = items[x].proposal
            /\ items'[x].state = "SUPERSEDED" /\ items'[x].successor = N + 1
            /\ items'[N + 1].record = n
        BY <3>2, <1>7, <1>10, Zenon
      <4>2. N + 1 > x /\ N + 1 <= N + 1 /\ k # 0
        BY <3>2, SMT
      <4>3. IdentityOfRecord(items[x].record) = IdentityOfRecord(n)
        BY <3>2, <4>2, <1>9, Zenon
      <4> QED  BY <3>2, <4>1, <4>2, <4>3, <1>14, SMT
    <3>3. CASE x \in 1..N /\ x # k
      <4>1. /\ items'[x].record = items[x].record /\ items'[x].proposal = items[x].proposal
            /\ items'[x].state = items[x].state /\ items'[x].successor = items[x].successor
        BY <3>3, <1>7, Zenon
      <4>2. items[x].state = "SUPERSEDED" =>
                items'[items[x].successor].record = items[items[x].successor].record
        BY <3>3, <1>7, <1>14, Zenon
      <4> QED  BY <3>3, <4>1, <4>2, <1>14, SMT
    <3> QED  BY <3>1, <3>2, <3>3, <1>13, Zenon
  <2>2. (items \in Seq(ItemRows))'
    BY <1>7, Zenon DEF ItemRows
  <2>3. records' = records /\ Len(items') = N + 1 /\ Len(proposals') = M /\ DOMAIN items' = 1..(N + 1)
    BY <1>3, <1>7, <1>11, Zenon
  <2>4. ASSUME NEW x \in DOMAIN items'
        PROVE  /\ items'[x].record \in 1..Len(records') /\ items'[x].proposal \in 1..Len(proposals')
               /\ items'[x].state # "SUPERSEDED" => items'[x].successor = 0
               /\ items'[x].state = "SUPERSEDED" =>
                     /\ items'[x].successor > x /\ items'[x].successor <= Len(items')
                     /\ IdentityOf[records'[items'[items'[x].successor].record].candidate]
                        = IdentityOf[records'[items'[x].record].candidate]
    <3>1. x \in 1..(N + 1)
      BY <2>3
    <3> QED  BY <3>1, <2>1, <2>3, Zenon DEF IdentityOfRecord
  <2> QED  BY <2>2, <2>4, Zenon DEF RowsOfItems, IdentityOfRecord
<1>16. ASSUME NEW x \in CurrentItems'
       PROVE  \/ x = N + 1
              \/ x \in CurrentItems /\ x # k /\ items'[x].record = items[x].record
  <2>1. x \in 1..(N + 1) /\ items'[x].state = "CURRENT"
    BY <1>7, Zenon DEF CurrentItems
  <2>2. ASSUME x \in 1..N PROVE x \in CurrentItems /\ x # k /\ items'[x].record = items[x].record
    <3>1. x # k
      BY <2>1, <2>2, <1>7, Zenon
    <3> QED  BY <3>1, <2>1, <2>2, <1>7, Zenon DEF CurrentItems
  <2> QED  BY <2>1, <2>2, <1>13
<1>17. ASSUME NEW x \in CurrentItems, x # k PROVE x \in CurrentItems'
  <2>1. x \in 1..N /\ items[x].state = "CURRENT" /\ x \in 1..(N + 1)
    BY <1>7, <1>14, Zenon DEF CurrentItems
  <2>2. items'[x].state = "CURRENT"
    BY <2>1, <1>7, <1>17, Zenon
  <2> QED  BY <2>1, <2>2, <1>7, Zenon DEF CurrentItems
<1>18. items'[N + 1].record = n
  BY <1>7, <1>10, Zenon
<1>19. ASSUME NEW x \in CurrentItems, x # k PROVE IdentityOfRecord(items[x].record) # IdentityOfRecord(n)
  BY <1>6, <1>19, Zenon DEF Predecessors
<1>20. OneCurrent'
  <2>1. ASSUME NEW x \in CurrentItems', NEW y \in CurrentItems',
               IdentityOfRecord(items'[x].record) = IdentityOfRecord(items'[y].record)
        PROVE  x = y
    <3>1. CASE x = N + 1 /\ y = N + 1
      BY <3>1
    <3>2. CASE x = N + 1 /\ y \in CurrentItems /\ y # k /\ items'[y].record = items[y].record
      BY <3>2, <2>1, <1>18, <1>19, Zenon
    <3>3. CASE y = N + 1 /\ x \in CurrentItems /\ x # k /\ items'[x].record = items[x].record
      BY <3>3, <2>1, <1>18, <1>19, Zenon
    <3>4. CASE /\ x \in CurrentItems /\ items'[x].record = items[x].record
               /\ y \in CurrentItems /\ items'[y].record = items[y].record
      BY <3>4, <2>1, Zenon DEF Inv, OneCurrent
    <3> QED  BY <3>1, <3>2, <3>3, <3>4, <1>16, Zenon
  <2>2. ASSUME NEW x \in CurrentItems', NEW y \in CurrentItems',
               IdentityOf[records'[items'[x].record].candidate]
               = IdentityOf[records'[items'[y].record].candidate]
        PROVE  x = y
    <3>1. records' = records
      BY <1>3
    <3>2. IdentityOfRecord(items'[x].record) = IdentityOfRecord(items'[y].record)
      BY <2>2, <3>1, SMT DEF IdentityOfRecord
    <3> QED  BY <3>2, <2>1, Zenon
  <2> QED  BY <2>2, Zenon DEF OneCurrent, IdentityOfRecord
<1>21. Len(proposals) <= Len(proposals') /\ Len(items) <= Len(items')
  BY <1>7, <1>8, <1>11, SMT
<1>22. \A x \in CurrentItems : items'[x].record = items[x].record
  BY <1>7, Zenon DEF CurrentItems
<1>23. \A x \in CurrentItems' : \/ x \in CurrentItems
                                \/ /\ job[w].pc \in Materializing
                                   /\ IdentityOfRecord(items'[x].record) = IdentityOfRecord(job[w].record)
  BY <1>1, <1>4, <1>16, <1>18, Zenon
<1>24. \A x \in CurrentItems : x \in CurrentItems' \/ x \in HeldBy(job[w])
  <2>1. k \in CurrentItems => k # 0
    BY <1>7, SMT DEF CurrentItems
  <2> QED  BY <2>1, <1>6, <1>17, Zenon
<1> QED  BY <1>3, <1>12, <1>15, <1>20, <1>21, <1>22, <1>23, <1>24, WriteKeeps, Zenon

-------------------------------------------------------------------------------

\* The invariant holds at first.
LEMMA Initially == Init => Inv
<1> SUFFICES ASSUME Init PROVE Inv
  OBVIOUS
<1>1. /\ records = << >> /\ proposals = << >> /\ items = << >>
      /\ \A w \in Workers : job[w] = Idle
  BY Zenon DEF Init
<1>2. /\ records \in Seq(RecordRows) /\ proposals \in Seq(ProposalRows) /\ items \in Seq(ItemRows)
      /\ Len(records) = 0 /\ Len(proposals) = 0 /\ Len(items) = 0
      /\ DOMAIN proposals = {} /\ DOMAIN items = {}
  BY <1>1, SMT
<1>3. known \in [Identities -> Nat] /\ loose \in [Identities -> Nat] /\ job = [w \in Workers |-> job[w]]
  BY SMT DEF Init
<1>4. /\ Idle.record = 0 /\ Idle.item = 0 /\ Idle.proposal = 0 /\ Idle.emptied = FALSE
      /\ Idle.stale = {} /\ Idle.void = {} /\ Idle.pc = "IDLE" /\ Idle \in JobRows
  BY Zenon DEF Idle, JobRows
<1>5. JobOK(Idle) /\ Apart(Idle, Idle)
  <2>1. JobOK(Idle)
    BY <1>2, <1>4, SMT DEF JobOK, Materializing, JobRows, Refreshing
  <2>2. HeldBy(Idle) = {}
    BY <1>4, SMT DEF HeldBy
  <2> QED  BY <1>4, <2>1, <2>2, Zenon DEF Apart, Materializing
<1>6. RowsOfProject /\ RowsOfProposals /\ RowsOfItems /\ OneCurrent
  BY <1>2, <1>3, Zenon DEF RowsOfProject, RowsOfProposals, RowsOfItems, OneCurrent, CurrentItems
<1> QED  BY <1>1, <1>3, <1>5, <1>6, Zenon DEF Inv

\* Every step keeps the invariant.
LEMMA Stepwise == Inv /\ [Next]_vars => Inv'
<1> SUFFICES ASSUME Inv, [Next]_vars PROVE Inv'
  OBVIOUS
<1>1. CASE UNCHANGED vars
  <2>1. UNCHANGED <<known, loose, records, proposals, items, job>>
    BY <1>1, Zenon DEF vars
  <2>2. (RowsOfProject /\ RowsOfProposals)'
    BY <2>1, Zenon DEF Inv, RowsOfProject, RowsOfProposals, RecordRows, ProposalRows, Groups
  <2>3. RowsOfItems'
    BY <2>1, Zenon DEF Inv, RowsOfItems, IdentityOfRecord, ItemRows
  <2>4. OneCurrent'
    BY <2>1, Zenon DEF Inv, OneCurrent, CurrentItems, IdentityOfRecord
  <2>5. ASSUME NEW w \in Workers PROVE JobOK(job[w])'
    <3>1. PICK j : j = job[w]
      OBVIOUS
    <3>2. JobOK(j)
      BY <3>1, Zenon DEF Inv
    <3>3. JobOK(j)'
      BY <2>1, <3>2, Zenon DEF JobOK, Newest, Predecessors, CurrentItems, IdentityOfRecord,
                              JobRows, Materializing, Refreshing
    <3> QED  BY <2>1, <3>1, <3>3, Zenon DEF JobOK
  <2>6. ASSUME NEW v \in Workers, NEW w \in Workers, v # w PROVE Apart(job[v], job[w])'
    <3>1. Apart(job[v], job[w])
      BY <2>6, Zenon DEF Inv
    <3> QED  BY <2>1, <3>1, Zenon DEF Apart, HeldBy, Materializing, IdentityOfRecord
  <2>7. (job = [v \in Workers |-> job[v]])'
    BY <2>1, Zenon DEF Inv
  <2> QED  BY <2>2, <2>3, <2>4, <2>5, <2>6, <2>7, Zenon DEF Inv
<1>2. ASSUME NEW w \in Workers, ReplayItem(w) \/ Crash(w) PROVE Inv'
  <2>1. job' = [job EXCEPT ![w] = Idle] /\ UNCHANGED <<known, loose, records, proposals, items>>
    BY <1>2, Zenon DEF ReplayItem, Crash
  <2> QED  BY <2>1, OverKeeps, Zenon
<1>3. CASE \E i \in Identities : MoveKnown(i)
  BY <1>3, MoveKnownKeeps, Zenon
<1>4. CASE \E some \in {Identities} \cup {{i} : i \in Identities} : MoveLoose(some)
  BY <1>4, MoveLooseKeeps, Zenon
<1>5. CASE \E c \in Candidates : Reconcile(c)
  BY <1>5, ReconcileKeeps, Zenon
<1>6. ASSUME NEW w \in Workers,
             \/ \E n \in DOMAIN records : Begin(w, n)
             \/ Select(w) \/ Evaluate(w) \/ MaterializeAgain(w) \/ Materialize(w)
             \/ RefreshItems(w) \/ Mark(w) \/ CountItems(w) \/ RefreshProposals(w)
      PROVE  Inv'
  BY <1>6, BeginKeeps, SelectKeeps, EvaluateKeeps, MaterializeAgainKeeps, MaterializeKeeps,
     RefreshItemsKeeps, MarkKeeps, CountItemsKeeps, RefreshProposalsKeeps, Zenon
<1> QED
  BY <1>1, <1>2, <1>3, <1>4, <1>5, <1>6, Zenon DEF Next

\* The invariant holds throughout.
LEMMA Invariance == Spec => []Inv
  BY Initially, Stepwise, PTL DEF Spec

-------------------------------------------------------------------------------

\* The columns keep their types, and what is superseded, and nothing else, has a
\* successor, which is a row that is there.
THEOREM TypeCorrect == Spec => []TypeOK
<1>1. ASSUME Inv PROVE TypeOK
  <2>1. /\ known \in [Identities -> Nat] /\ loose \in [Identities -> Nat]
        /\ records \in Seq([candidate : Candidates, known : Nat, loose : Nat, reviewable : BOOLEAN])
    BY <1>1, Zenon DEF Inv, RowsOfProject, RecordRows
  <2>2. PICK R \in Nat, L \in Nat, N \in Nat :
          /\ R = Len(records) /\ DOMAIN records = 1..R
          /\ L = Len(proposals) /\ DOMAIN proposals = 1..L /\ N = Len(items) /\ DOMAIN items = 1..N
    <3>1. records \in Seq(RecordRows) /\ proposals \in Seq(ProposalRows) /\ items \in Seq(ItemRows)
      BY <1>1, Zenon DEF Inv, RowsOfProject, RowsOfProposals, RowsOfItems
    <3> QED  BY <3>1, SMT
  <2>3. ASSUME NEW p \in 1..L
        PROVE  /\ proposals[p] \in [group : Groups, state : {"OPEN", "STALE", "SUPERSEDED"},
                                    successor : 0..L]
               /\ proposals[p].state = "SUPERSEDED" <=> proposals[p].successor # 0
    <3>1. proposals[p] \in ProposalRows
      BY <1>1, <2>2, SMT DEF Inv, RowsOfProposals
    <3>2. /\ proposals[p].state = "SUPERSEDED" => proposals[p].successor > p
          /\ proposals[p].state # "SUPERSEDED" => proposals[p].successor = 0
          /\ proposals[p].successor <= L
      BY <1>1, <2>2, Zenon DEF Inv, RowsOfProposals
    <3>3. proposals[p].successor \in Nat
      BY <3>1, Zenon DEF ProposalRows
    <3>4. proposals[p].successor \in 0..L /\ p > 0
      BY <3>2, <3>3, <2>2, SMT
    <3>5. proposals[p].state = "SUPERSEDED" <=> proposals[p].successor # 0
      BY <3>2, <3>3, <3>4, SMT
    <3> QED  BY <3>1, <3>4, <3>5, SMT DEF ProposalRows
  <2>4. ASSUME NEW x \in 1..N
        PROVE  /\ items[x] \in [record : 1..R, proposal : 1..L,
                                state : {"CURRENT", "STALE", "SUPERSEDED"}, successor : 0..N]
               /\ items[x].state = "SUPERSEDED" <=> items[x].successor # 0
    <3>1. items[x] \in ItemRows
      BY <1>1, <2>2, SMT DEF Inv, RowsOfItems
    <3>2. /\ items[x].record \in 1..R /\ items[x].proposal \in 1..L
          /\ items[x].state # "SUPERSEDED" => items[x].successor = 0
          /\ items[x].state = "SUPERSEDED" => items[x].successor > x /\ items[x].successor <= N
      BY <1>1, <2>2, Zenon DEF Inv, RowsOfItems
    <3>3. items[x].successor \in Nat
      BY <3>1, Zenon DEF ItemRows
    <3>4. items[x].successor \in 0..N /\ x > 0
      BY <3>2, <3>3, <2>2, SMT
    <3>5. items[x].state = "SUPERSEDED" <=> items[x].successor # 0
      BY <3>2, <3>3, <3>4, SMT
    <3> QED  BY <3>1, <3>2, <3>4, <3>5, SMT DEF ItemRows
  <2>5. job \in [Workers -> [pc : {"IDLE"} \cup Materializing \cup Refreshing,
                             record : 0..R, item : 0..N, proposal : 0..L, emptied : BOOLEAN,
                             stale : SUBSET (1..N), void : SUBSET (1..L)]]
    <3>1. ASSUME NEW w \in Workers
          PROVE  job[w] \in [pc : {"IDLE"} \cup Materializing \cup Refreshing,
                             record : 0..R, item : 0..N, proposal : 0..L, emptied : BOOLEAN,
                             stale : SUBSET (1..N), void : SUBSET (1..L)]
      <4>1. JobOK(job[w]) /\ job[w] \in JobRows
        BY <1>1, Zenon DEF Inv, JobOK
      <4>2. /\ job[w].record \in Nat /\ job[w].item \in Nat /\ job[w].proposal \in Nat
            /\ job[w].record <= R /\ job[w].item <= N /\ job[w].proposal <= L
            /\ job[w].stale \subseteq 1..N /\ job[w].void \subseteq 1..L
        BY <4>1, <2>2, Zenon DEF JobOK, JobRows
      <4>3. job[w].record \in 0..R /\ job[w].item \in 0..N /\ job[w].proposal \in 0..L
        BY <4>2, <2>2, SMT
      <4> QED  BY <4>1, <4>2, <4>3, SMT DEF JobRows
    <3>2. job = [w \in Workers |-> job[w]]
      BY <1>1, Zenon DEF Inv
    <3> QED  BY <3>1, <3>2, Zenon
  <2> QED  BY <2>1, <2>2, <2>3, <2>4, <2>5, Zenon DEF TypeOK
<1> QED  BY <1>1, Invariance, PTL

\* At most one item of an identity is current, whatever its proposal, and what
\* is superseded points forward within the identity: materialisation and refresh
\* by any number of workers, with crashes, never fork the line or close a cycle.
THEOREM LineageCorrect == Spec => []OneLineage
<1>1. ASSUME Inv PROVE OneLineage
  <2>1. \A x, y \in CurrentItems :
            IdentityOfRecord(items[x].record) = IdentityOfRecord(items[y].record) => x = y
    BY <1>1, Zenon DEF Inv, OneCurrent
  <2>2. \A x \in DOMAIN items : items[x].state = "SUPERSEDED" =>
          /\ items[x].successor > x
          /\ IdentityOfRecord(items[items[x].successor].record) = IdentityOfRecord(items[x].record)
    BY <1>1, Zenon DEF Inv, RowsOfItems
  <2>3. \A p \in DOMAIN proposals : proposals[p].state = "SUPERSEDED" => proposals[p].successor > p
    BY <1>1, Zenon DEF Inv, RowsOfProposals
  <2> QED  BY <2>1, <2>2, <2>3, Zenon DEF OneLineage
<1> QED  BY <1>1, Invariance, PTL

\* Every item is born with a basis that the project row still vouches for: from
\* the comparison to the insert, over all the statements in between, no record of
\* what it guards and no later reconciliation of the identity comes in.
THEOREM FreshAtBirth == Spec => FreshWhenMaterialized
<1> DEFINE Fresh == Len(items') > Len(items) =>
          LET n == items'[Len(items')].record IN
          /\ records[n].known = known[IdentityOfRecord(n)]
          /\ \A later \in (n + 1)..Len(records) :
                IdentityOfRecord(later) = IdentityOfRecord(n) => ~records[later].reviewable
<1>1. ASSUME Inv, [Next]_vars PROVE [Fresh]_vars
  <2>1. ASSUME NEW w \in Workers, Materialize(w) PROVE Fresh
    <3>1. job[w].pc \in {"SELECTED", "EVALUATED"} /\ items' = ItemAdded(w)
      BY <2>1, Zenon DEF Materialize
    <3>2. PICK N \in Nat : Len(items') = N + 1 /\ items'[N + 1] = NewItem(w)
      <4>1. PICK k : k = job[w].item
        OBVIOUS
      <4>2. PICK N \in Nat : AddedTo(w, k, N)
        BY <3>1, <4>1, <1>1, AddedRows, Zenon
      <4> QED  BY <4>2, Zenon DEF AddedTo
    <3>3. items'[Len(items')].record = job[w].record
      <4>1. NewItem(w).record = job[w].record
        BY Zenon DEF NewItem
      <4> QED  BY <3>2, <4>1, Zenon
    <3>4. Newest(job[w].record)
      BY <1>1, <3>1, Zenon DEF Inv, JobOK, Materializing
    <3> QED  BY <3>3, <3>4, Zenon DEF Newest
  <2>2. ASSUME NEW w \in Workers, RefreshProposals(w) PROVE Fresh
    <3>1. PICK N \in Nat : N = Len(items) /\ DOMAIN items = 1..N
      BY <1>1, SMT DEF Inv, RowsOfItems
    <3>2. items' = [x \in 1..N |->
                       IF x \in job[w].stale THEN [items[x] EXCEPT !.state = "STALE"] ELSE items[x]]
      BY <2>2, <3>1, Zenon DEF RefreshProposals
    <3>3. Len(items') = N
      BY <3>2, SMT
    <3>4. ~ (Len(items') > Len(items))
      BY <3>1, <3>3, SMT
    <3> QED  BY <3>4, Zenon
  <2>3. CASE UNCHANGED items
    <3>1. ~ (Len(items') > Len(items))
      BY <1>1, <2>3, SMT DEF Inv, RowsOfItems
    <3> QED  BY <3>1, Zenon
  <2>4. \/ \E w \in Workers : Materialize(w) \/ RefreshProposals(w)
        \/ UNCHANGED items
    BY <1>1, Zenon DEF Next, vars, MoveKnown, MoveLoose, Reconcile, Begin, ReplayItem, Select, Evaluate,
                      MaterializeAgain, RefreshItems, Mark, CountItems, Crash
  <2> QED  BY <2>1, <2>2, <2>3, <2>4, Zenon
<1>2. Spec => [][Fresh]_vars
  BY <1>1, Invariance, PTL DEF Spec
<1> QED  BY <1>2, Zenon DEF FreshWhenMaterialized

\* What left CURRENT or OPEN never changes again.
THEOREM HistoryIsFinal == Spec => HistoryFinal
<1> DEFINE Final == /\ \A x \in DOMAIN items : items[x].state # "CURRENT" => items'[x] = items[x]
                    /\ \A p \in DOMAIN proposals : proposals[p].state # "OPEN" => proposals'[p] = proposals[p]
<1>1. ASSUME Inv, [Next]_vars PROVE [Final]_vars
  <2>1. ASSUME NEW w \in Workers, MaterializeAgain(w) PROVE Final
    <3>1. job[w].pc \in {"SELECTED", "EVALUATED"} /\ proposals' = Opened(w) /\ items' = items
      BY <2>1, Zenon DEF MaterializeAgain
    <3>2. \A p \in DOMAIN proposals : Opened(w)[p] = proposals[p]
      BY <1>1, <3>1, OpenedRows, Zenon
    <3> QED  BY <3>1, <3>2, Zenon
  <2>2. ASSUME NEW w \in Workers, RefreshProposals(w) PROVE Final
    <3>1. job[w].stale \subseteq CurrentItems
      BY <1>1, <2>2, Zenon DEF Inv, JobOK, RefreshProposals
    <3>2. \A x \in DOMAIN items : x \notin job[w].stale => items'[x] = items[x]
      BY <2>2, Zenon DEF RefreshProposals
    <3>3. \A p \in DOMAIN proposals : p \notin OpenProposals => proposals'[p] = proposals[p]
      BY <2>2, Zenon DEF RefreshProposals
    <3> QED  BY <3>1, <3>2, <3>3, Zenon DEF CurrentItems, OpenProposals
  <2>3. ASSUME NEW w \in Workers, Materialize(w) PROVE Final
    <3>1. PICK k : k = job[w].item
      OBVIOUS
    <3>2. PICK p : p = IF k = 0 THEN 0 ELSE items[k].proposal
      OBVIOUS
    <3>3. /\ job[w].pc \in {"SELECTED", "EVALUATED"} /\ items' = ItemAdded(w)
          /\ proposals' = IF job[w].emptied /\ proposals[p].state = "OPEN"
                      THEN [Opened(w) EXCEPT ![p] =
                              [@ EXCEPT !.state = "SUPERSEDED", !.successor = Len(proposals) + 1]]
                      ELSE Opened(w)
      BY <2>3, <3>1, <3>2, Zenon DEF Materialize
    <3>4. JobOK(job[w])
      BY <1>1, Zenon DEF Inv
    <3>5. Predecessors(job[w].record) = {k} \ {0}
      BY <3>1, <3>3, <3>4, Zenon DEF JobOK
    <3>6. ASSUME NEW x \in DOMAIN items, items[x].state # "CURRENT" PROVE items'[x] = items[x]
      <4>1. PICK N \in Nat :
              /\ DOMAIN items = 1..N /\ Len(items') = N + 1 /\ items' \in Seq(ItemRows)
              /\ \A y \in 1..N :
                    /\ items'[y].record = items[y].record /\ items'[y].proposal = items[y].proposal
                    /\ y = k => items'[y].state = "SUPERSEDED" /\ items'[y].successor = N + 1
                    /\ y # k => items'[y].state = items[y].state /\ items'[y].successor = items[y].successor
        <5>1. PICK N \in Nat : AddedTo(w, k, N)
          BY <1>1, <3>1, <3>3, AddedRows, Zenon
        <5> QED  BY <5>1, Zenon DEF AddedTo
      <4>2. x \in 1..N /\ x # 0 /\ x \in 1..(N + 1)
        BY <4>1, <3>6, SMT
      <4>3. x # k
        BY <3>5, <3>6, <4>2, Zenon DEF Predecessors, CurrentItems
      <4>4. items'[x] \in ItemRows /\ items[x] \in ItemRows
        BY <1>1, <4>1, <4>2, SMT DEF Inv, RowsOfItems
      <4>5. /\ items'[x].record = items[x].record /\ items'[x].proposal = items[x].proposal
            /\ items'[x].state = items[x].state /\ items'[x].successor = items[x].successor
        BY <4>1, <4>2, <4>3, Zenon
      <4>6. \A y \in ItemRows : y = [record |-> y.record, proposal |-> y.proposal, state |-> y.state,
                                    successor |-> y.successor]
        BY SMT DEF ItemRows
      <4>7. /\ items[x] = [record |-> items[x].record, proposal |-> items[x].proposal,
                           state |-> items[x].state, successor |-> items[x].successor]
            /\ items'[x] = [record |-> items'[x].record, proposal |-> items'[x].proposal,
                            state |-> items'[x].state, successor |-> items'[x].successor]
        BY <4>4, <4>6, Zenon
      <4> QED  BY <4>5, <4>7, Zenon
    <3>7. ASSUME NEW q \in DOMAIN proposals, proposals[q].state # "OPEN" PROVE proposals'[q] = proposals[q]
      <4>1. Opened(w)[q] = proposals[q]
        BY <1>1, <3>3, <3>7, OpenedRows, Zenon
      <4>2. proposals[p].state = "OPEN" => q # p
        BY <3>7, Zenon
      <4>3. CASE ~ (job[w].emptied /\ proposals[p].state = "OPEN")
        BY <3>3, <4>1, <4>3, Zenon
      <4>4. CASE job[w].emptied /\ proposals[p].state = "OPEN"
        <5>1. q \in DOMAIN Opened(w)
          <6>1. PICK L \in Nat, M \in Nat :
                    DOMAIN proposals = 1..L /\ L <= M /\ DOMAIN Opened(w) = 1..M
            BY <1>1, <3>3, OpenedRows, Zenon
          <6> QED  BY <6>1, <3>7, SMT
        <5>2. PICK row : row = [Opened(w)[p] EXCEPT !.state = "SUPERSEDED",
                                                    !.successor = Len(proposals) + 1]
          OBVIOUS
        <5>3. proposals' = [Opened(w) EXCEPT ![p] = [Opened(w)[p] EXCEPT
                               !.state = "SUPERSEDED", !.successor = Len(proposals) + 1]]
          BY <3>3, <4>4, Zenon
        <5>4. proposals' = [Opened(w) EXCEPT ![p] = row]
          BY <5>2, <5>3
        <5> QED  BY <4>1, <4>2, <4>4, <5>1, <5>4, Zenon
      <4> QED  BY <4>3, <4>4
    <3> QED  BY <3>6, <3>7, Zenon
  <2>4. \/ \E w \in Workers : MaterializeAgain(w) \/ Materialize(w) \/ RefreshProposals(w)
        \/ UNCHANGED <<items, proposals>>
    BY <1>1, Zenon DEF Next, vars, MoveKnown, MoveLoose, Reconcile, Begin, ReplayItem, Select, Evaluate,
                      RefreshItems, Mark, CountItems, Crash
  <2>5. CASE UNCHANGED <<items, proposals>>
    BY <2>5, Zenon
  <2> QED  BY <2>1, <2>2, <2>3, <2>4, <2>5, Zenon
<1>2. Spec => [][Final]_vars
  BY <1>1, Invariance, PTL DEF Spec
<1> QED  BY <1>2, Zenon DEF HistoryFinal
===============================================================================
