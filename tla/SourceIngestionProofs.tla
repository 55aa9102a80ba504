------------------------ MODULE SourceIngestionProofs ------------------------
(***************************************************************************)
(* Theorems about the ingestion of one ref, for any number of workers, any *)
(* history, any trees and any faults.                                      *)
(***************************************************************************)
EXTENDS SourceIngestion, FiniteSetTheorems, TLAPS

-------------------------------------------------------------------------------
(* The invariant                                                           *)

Named == Revisions \cup {"REF_DELETED"}
Locals ==
    [pc : {"idle", "observe"}]
      \cup [pc : {"schedule"}, seen : DOMAIN History]
      \cup [pc : {"acquire"}, passes : 0..MaxPasses]
      \cup Extracting \cup Recording
Dispositions == [seq : Nat, coveredBy : Nat \cup {Null},
                 value : {"INGESTED", "COALESCED", "REF_DELETED"}]

Typed ==
    /\ provider \in [history : Histories, head : Nat] /\ head \in DOMAIN History
    /\ observations \in Seq(Answers)
    /\ frontier \in [observed : Nat, desired : Nat, ingested : Nat]
    /\ unit \in Units
    /\ evidence \subseteq [seq : Nat, ref : References]
    /\ dispositions \subseteq Dispositions
    /\ completed \subseteq [seq : Nat, mode : Modes, count : 0..MaxReferences]
    /\ connected \in BOOLEAN
    /\ jobs \in 0..MaxJobs
    /\ faults \in 0..MaxFaults
    /\ worker \in [Workers -> Locals]

\* The frontier row and the processing unit agree.
RowsAgree ==
    /\ frontier.observed = Len(observations)
    /\ frontier.desired = frontier.observed /\ unit.desired = frontier.desired
    /\ unit.processed = frontier.ingested
    /\ Constraints(unit)

\* Each ingested observation is disposed of once.
DisposedOnce ==
    /\ {d.seq : d \in dispositions} = 1..frontier.ingested
    /\ \A c, d \in dispositions : c.seq = d.seq => c = d

\* A worker at work on an attempt: its token was granted, and if the unit still
\* has it, its target and its base are those of the unit; what it has drawn up is
\* what an extraction gives, and what is not to do any more is recorded.
AttemptOK(l) ==
    l.pc \in {"extract", "record"} =>
        /\ l.token <= unit.attempt /\ l.seq \in 1..Len(observations)
        /\ l.token = unit.token => l.seq = unit.target /\ l.base = RevisionAt(frontier.ingested)
        /\ l.pc = "record" =>
              \E x \in Extractions(l.base, RevisionAt(l.seq)) :
                  /\ x.mode = l.mode /\ l.todo \subseteq x.references
                  /\ l.token = unit.token =>
                        \A r \in x.references : r \in l.todo \/ [seq |-> l.seq, ref |-> r] \in evidence

\* Whatever was recorded beyond the frontier was recorded from the frontier, and
\* never beyond the target of a live attempt.
EvidenceOK(e) ==
    /\ e.seq \in 1..Len(observations)
    /\ unit.target # Null => e.seq <= unit.target
    /\ e.seq > frontier.ingested =>
          \E x \in Extractions(RevisionAt(frontier.ingested), RevisionAt(e.seq)) :
              e.ref \in x.references

\* No observation has more references than the limit.
Limited == \A n : IsFiniteSet(Recorded(n)) /\ Cardinality(Recorded(n)) <= MaxReferences

CompletionsOK ==
    /\ \A c \in completed : c.seq <= frontier.ingested
    /\ LastFull \in 0..frontier.ingested

\* What the tables say, together.
Ledger ==
    /\ RowsAgree /\ DisposedOnce /\ CoalescedIntoIngested
    /\ \A e \in evidence : EvidenceOK(e)
    /\ Limited /\ CompletionsOK /\ EvidenceCoversTree

Inv == Typed /\ Ledger /\ \A w \in Workers : AttemptOK(worker[w])

-------------------------------------------------------------------------------
(* References and extractions                                              *)

\* A revision's files, none for a deleted ref.
FilesOf(t) == IF t = "REF_DELETED" THEN {} ELSE Tree[t]

\* The fields of a reference.
LEMMA ReferenceFields ==
    ASSUME NEW k, NEW p, NEW q, NEW b
    PROVE  /\ Reference(k, p, q, b).kind = k /\ Reference(k, p, q, b).path = p
           /\ Reference(k, p, q, b).previous = q /\ Reference(k, p, q, b).blob = b
  BY Zenon DEF Reference

\* A tree walk draws up the eligible files.
LEMMA TreeReference ==
    ASSUME NEW t, NEW r
    PROVE  r \in TreeReferences(t) <=>
             \E f \in Tree[t] : f \in Eligible /\ r = Reference("FILE", f[1], "", f[2])
  BY Zenon DEF TreeReferences

\* A compare draws up what went away, and the eligible files that are new or
\* changed, a renamed one with the path it had.
LEMMA CompareReference ==
    ASSUME NEW b, NEW t, NEW r
    PROVE  r \in CompareReferences(b, t) <=>
             \/ \E p \in Removed(b, t) : r = Reference("DELETION", p, "", "")
             \/ \E f \in Changed(b, t) :
                   /\ f \in Eligible
                   /\ \/ RenamedFrom(b, t, f) = {} /\ r = Reference("FILE", f[1], "", f[2])
                      \/ \E p \in RenamedFrom(b, t, f) : r = Reference("RENAMED_FILE", f[1], p, f[2])
<1>1. r \in CompareReferences(b, t) <=>
        \/ r \in {Reference("DELETION", p, "", "") : p \in Removed(b, t)}
        \/ r \in {Reference("FILE", f[1], "", f[2]) :
                    f \in {g \in Changed(b, t) \cap Eligible : RenamedFrom(b, t, g) = {}}}
        \/ r \in UNION {{Reference("RENAMED_FILE", f[1], p, f[2]) : p \in RenamedFrom(b, t, f)} :
                          f \in Changed(b, t) \cap Eligible}
  BY Zenon DEF CompareReferences
<1>2. r \in {Reference("DELETION", p, "", "") : p \in Removed(b, t)} <=>
        \E p \in Removed(b, t) : r = Reference("DELETION", p, "", "")
  BY Zenon
<1>3. r \in {Reference("FILE", f[1], "", f[2]) :
              f \in {g \in Changed(b, t) \cap Eligible : RenamedFrom(b, t, g) = {}}} <=>
        \E f \in Changed(b, t) :
            f \in Eligible /\ RenamedFrom(b, t, f) = {} /\ r = Reference("FILE", f[1], "", f[2])
  BY Zenon
<1>4. r \in UNION {{Reference("RENAMED_FILE", f[1], p, f[2]) : p \in RenamedFrom(b, t, f)} :
                    f \in Changed(b, t) \cap Eligible} <=>
        \E f \in Changed(b, t) :
            f \in Eligible /\ \E p \in RenamedFrom(b, t, f) : r = Reference("RENAMED_FILE", f[1], p, f[2])
  BY SMT
<1> QED  BY <1>1, <1>2, <1>3, <1>4, Zenon

\* An image of a finite set is finite.
LEMMA ImageFinite ==
    ASSUME NEW S, IsFiniteSet(S), NEW g, NEW T, \A y : y \in T <=> \E x \in S : y = g[x]
    PROVE  IsFiniteSet(T)
<1>1. PICK f : f = [x \in S |-> g[x]]
  OBVIOUS
<1>2. f \in [S -> T] /\ \A y \in T : \E x \in S : f[x] = y
  BY <1>1, Zenon
<1>3. f \in Surjection(S, T)
  BY <1>2, Zenon DEF Surjection
<1> QED  BY <1>3, FS_Surjection, Zenon DEF ExistsSurjection

\* A finite set that is larger than m has a subset of m elements.
LEMMA SubsetOfSize ==
    ASSUME NEW R, IsFiniteSet(R), NEW m \in Nat, ~(Cardinality(R) <= m)
    PROVE  \E q \in SUBSET R : Cardinality(q) = m
<1>1. PICK k \in Nat : k = Cardinality(R) /\ k > m /\ ExistsBijection(1..k, R)
  <2>1. Cardinality(R) \in Nat /\ ExistsBijection(1..Cardinality(R), R)
    BY FS_CardinalityType, Zenon
  <2> QED  BY <2>1, SMT
<1>2. PICK f \in Bijection(1..k, R) : TRUE
  BY <1>1, Zenon DEF ExistsBijection
<1>3. f \in [1..k -> R] /\ \A a, c \in 1..k : f[a] = f[c] => a = c
  BY <1>2, Zenon DEF Bijection, Injection, IsInjective
<1>4. PICK q, h : q = {f[a] : a \in 1..m} /\ h = [a \in 1..m |-> f[a]]
  OBVIOUS
<1>5. \A a \in 1..m : a \in 1..k
  BY <1>1, SMT
<1>6. q \in SUBSET R
  BY <1>3, <1>4, <1>5, Zenon
<1>7. h \in Bijection(1..m, q)
  <2>1. h \in [1..m -> q] /\ \A y \in q : \E a \in 1..m : h[a] = y
    BY <1>4, Zenon
  <2>2. \A a, c \in 1..m : h[a] = h[c] => a = c
    BY <1>3, <1>4, <1>5, Zenon
  <2> QED  BY <2>1, <2>2, Zenon DEF Bijection, Injection, Surjection, IsInjective
<1>8. IsFiniteSet(1..m) /\ Cardinality(1..m) = m
  BY FS_Interval, SMT
<1>9. Cardinality(q) = m
  BY <1>7, <1>8, FS_Bijection, Zenon DEF ExistsBijection
<1> QED  BY <1>6, <1>9, Zenon

\* The extraction keeps all of R, or as many as the limit.
CutOrWhole(x, R) ==
    /\ x.references \subseteq R
    /\ x.references = R \/ Cardinality(x.references) = MaxReferences

\* What an extraction of finitely many references keeps.
LEMMA ExtractionOf ==
    ASSUME NEW m, NEW R, IsFiniteSet(R), NEW x, x = Extraction(m, R)
    PROVE  x.mode = m /\ CutOrWhole(x, R)
<1>1. x.mode = m /\ x.references = Bounded(R)
  BY Zenon DEF Extraction
<1>2. MaxReferences \in Nat
  BY SourceIngestionAssumption, Zenon
<1>3. CASE Cardinality(R) <= MaxReferences
  BY <1>1, <1>3, Zenon DEF Bounded, CutOrWhole
<1>4. CASE ~(Cardinality(R) <= MaxReferences)
  <2>1. \E q \in SUBSET R : Cardinality(q) = MaxReferences
    BY <1>2, <1>4, SubsetOfSize, Zenon
  <2>2. Bounded(R) = CHOOSE q \in SUBSET R : Cardinality(q) = MaxReferences
    BY <1>4, Zenon DEF Bounded
  <2>3. Bounded(R) \in SUBSET R /\ Cardinality(Bounded(R)) = MaxReferences
    BY <2>1, <2>2, Zenon
  <2> QED  BY <1>1, <2>3, Zenon DEF CutOrWhole
<1> QED  BY <1>1, <1>3, <1>4, Zenon

\* A walk and a compare list finitely many references.
LEMMA TreeFinite == ASSUME NEW t \in Revisions PROVE IsFiniteSet(TreeReferences(t))
<1>1. PICK S : S = Tree[t] \cap Eligible
  OBVIOUS
<1>2. IsFiniteSet(S)
  <2>1. IsFiniteSet(Tree[t]) /\ S \in SUBSET Tree[t]
    BY <1>1, SourceIngestionAssumption, Zenon
  <2> QED  BY <2>1, FS_Subset, Zenon
<1>3. PICK g : g = [f \in S |-> Reference("FILE", f[1], "", f[2])]
  OBVIOUS
<1>4. \A y : y \in TreeReferences(t) <=> \E f \in S : y = g[f]
  BY <1>1, <1>3, Zenon DEF TreeReferences
<1> QED  BY <1>2, <1>4, ImageFinite, Zenon

\* So does a comparison of two revisions.
LEMMA CompareFinite ==
    ASSUME NEW b \in Revisions, NEW t \in Revisions
    PROVE  IsFiniteSet(CompareReferences(b, t))
<1>1. PICK A : A = Changed(b, t) \cap Eligible
  OBVIOUS
<1>2. IsFiniteSet(A)
  <2>1. IsFiniteSet(Tree[t]) /\ A \in SUBSET Tree[t]
    BY <1>1, SourceIngestionAssumption, Zenon DEF Changed
  <2> QED  BY <2>1, FS_Subset, Zenon
<1>3. PICK D, N, S :
        /\ D = {Reference("DELETION", p, "", "") : p \in Removed(b, t)}
        /\ N = {Reference("FILE", f[1], "", f[2]) : f \in {g \in A : RenamedFrom(b, t, g) = {}}}
        /\ S = {{Reference("RENAMED_FILE", f[1], p, f[2]) : p \in RenamedFrom(b, t, f)} : f \in A}
  OBVIOUS
<1>4. IsFiniteSet(D)
  <2>1. IsFiniteSet(Removed(b, t))
    <3>1. PICK g, T : g = [f \in Tree[b] |-> f[1]] /\ T = PathsOf(Tree[b])
      OBVIOUS
    <3>2. \A y : y \in T <=> \E f \in Tree[b] : y = g[f]
      BY <3>1, Zenon DEF PathsOf
    <3>5. IsFiniteSet(Tree[b])
      BY SourceIngestionAssumption, Zenon
    <3>3. IsFiniteSet(T)
      BY <3>2, <3>5, ImageFinite
    <3>4. Removed(b, t) \in SUBSET T
      BY <3>1, Zenon DEF Removed
    <3> QED  BY <3>3, <3>4, FS_Subset, Zenon
  <2>2. PICK g, T : T = Removed(b, t) /\ g = [p \in T |-> Reference("DELETION", p, "", "")]
    OBVIOUS
  <2>3. \A y : y \in D <=> \E p \in T : y = g[p]
    BY <1>3, <2>2, Zenon
  <2>4. IsFiniteSet(T)
    BY <2>1, <2>2, Zenon
  <2> QED  BY <2>3, <2>4, ImageFinite
<1>5. IsFiniteSet(N)
  <2>1. PICK g, T : /\ T = {f \in A : RenamedFrom(b, t, f) = {}}
                    /\ g = [f \in T |-> Reference("FILE", f[1], "", f[2])]
    OBVIOUS
  <2>2. IsFiniteSet(T)
    <3>1. T \in SUBSET A
      BY <2>1, Zenon
    <3> QED  BY <1>2, <3>1, FS_Subset, Zenon
  <2>3. \A y : y \in N <=> \E f \in T : y = g[f]
    BY <1>3, <2>1, Zenon
  <2> QED  BY <2>2, <2>3, ImageFinite, Zenon
<1>6. IsFiniteSet(UNION S)
  <2>1. IsFiniteSet(S)
    <3>1. PICK g : g = [f \in A |-> {Reference("RENAMED_FILE", f[1], p, f[2]) : p \in RenamedFrom(b, t, f)}]
      OBVIOUS
    <3>2. \A y : y \in S <=> \E f \in A : y = g[f]
      BY <1>3, <3>1, Zenon
    <3> QED  BY <1>2, <3>2, ImageFinite, Zenon
  <2>2. ASSUME NEW f \in A
        PROVE  IsFiniteSet({Reference("RENAMED_FILE", f[1], p, f[2]) : p \in RenamedFrom(b, t, f)})
    <3>1. IsFiniteSet(RenamedFrom(b, t, f))
      <4>1. PICK g, T, U : /\ T = {z \in Renames : z[1] = b /\ z[2] = t /\ z[4] = f[1]}
                           /\ g = [z \in T |-> z[3]] /\ U = RenamedFrom(b, t, f)
        OBVIOUS
      <4>2. IsFiniteSet(Renames) /\ T \in SUBSET Renames
        BY <4>1, SourceIngestionAssumption, Zenon
      <4>3. IsFiniteSet(T)
        BY <4>2, FS_Subset, Zenon
      <4>4. \A y : y \in U <=> \E z \in T : y = g[z]
        BY <4>1, Zenon DEF RenamedFrom
      <4>5. IsFiniteSet(U)
        BY <4>3, <4>4, ImageFinite
      <4> QED  BY <4>1, <4>5, Zenon
    <3>2. PICK g, T, U : /\ T = RenamedFrom(b, t, f)
                         /\ g = [p \in T |-> Reference("RENAMED_FILE", f[1], p, f[2])]
                         /\ U = {Reference("RENAMED_FILE", f[1], p, f[2]) : p \in T}
      OBVIOUS
    <3>3. \A y : y \in U <=> \E p \in T : y = g[p]
      BY <3>2, Zenon
    <3>4. IsFiniteSet(T)
      BY <3>1, <3>2, Zenon
    <3>5. IsFiniteSet(U)
      BY <3>3, <3>4, ImageFinite
    <3> QED  BY <3>2, <3>5, Zenon
  <2>3. \A T \in S : IsFiniteSet(T)
    BY <1>3, <2>2, Zenon
  <2> QED  BY <2>1, <2>3, FS_UNION, Zenon
<1>7. CompareReferences(b, t) = (D \cup N) \cup UNION S
  BY <1>1, <1>3, Zenon DEF CompareReferences
<1>8. IsFiniteSet(D \cup N)
  BY <1>4, <1>5, FS_Union, Zenon
<1> QED  BY <1>6, <1>7, <1>8, FS_Union, Zenon

\* What an extraction is, by the two revisions.
ByMode(b, t, x) ==
    \/ t = "REF_DELETED" /\ x.mode = "REF_DELETED" /\ x.references = {}
    \/ /\ t # "REF_DELETED" /\ CutOrWhole(x, TreeReferences(t))
       /\ \/ b = "REF_DELETED" /\ x.mode = "INITIAL_TREE"
          \/ b # "REF_DELETED" /\ b # t /\ x.mode = "BOUNDED_TREE_FALLBACK"
    \/ /\ t # "REF_DELETED" /\ b # "REF_DELETED" /\ x.mode = "INCREMENTAL_COMPARE"
       /\ \/ b = t /\ x.references = {}
          \/ b # t /\ CutOrWhole(x, CompareReferences(b, t))

\* Nothing of nothing is cut.
LEMMA NothingExtracted ==
    ASSUME NEW m, NEW x, x = Extraction(m, {})
    PROVE  x.mode = m /\ x.references = {}
<1>1. IsFiniteSet({})
  BY FS_EmptySet, Zenon
<1>2. x.mode = m /\ CutOrWhole(x, {})
  BY <1>1, ExtractionOf
<1> QED  BY <1>2, Zenon DEF CutOrWhole

\* What an extraction may return, by its mode.
LEMMA ExtractionCases ==
    ASSUME NEW b \in Named, NEW t \in Named, NEW x \in Extractions(b, t)
    PROVE  ByMode(b, t, x)
<1>1. CASE t = "REF_DELETED"
  <2>1. x = Extraction("REF_DELETED", {})
    BY <1>1, Zenon DEF Extractions
  <2> QED  BY <1>1, <2>1, NothingExtracted, Zenon DEF ByMode
<1>2. CASE t # "REF_DELETED" /\ b = "REF_DELETED"
  <2>1. x = Extraction("INITIAL_TREE", TreeReferences(t)) /\ t \in Revisions
    BY <1>2, Zenon DEF Extractions, Named
  <2>2. IsFiniteSet(TreeReferences(t))
    BY <2>1, TreeFinite, Zenon
  <2> QED  BY <1>2, <2>1, <2>2, ExtractionOf, Zenon DEF ByMode
<1>3. CASE t # "REF_DELETED" /\ b # "REF_DELETED" /\ b = t
  <2>1. x = Extraction("INCREMENTAL_COMPARE", {})
    BY <1>3, Zenon DEF Extractions
  <2> QED  BY <1>3, <2>1, NothingExtracted, Zenon DEF ByMode
<1>4. CASE t # "REF_DELETED" /\ b # "REF_DELETED" /\ b # t
  <2>1. \/ x = Extraction("BOUNDED_TREE_FALLBACK", TreeReferences(t))
        \/ x = Extraction("INCREMENTAL_COMPARE", CompareReferences(b, t))
    BY <1>4, Zenon DEF Extractions
  <2>2. IsFiniteSet(TreeReferences(t)) /\ IsFiniteSet(CompareReferences(b, t))
    BY <1>4, TreeFinite, CompareFinite, Zenon DEF Named
  <2>3. CASE x = Extraction("BOUNDED_TREE_FALLBACK", TreeReferences(t))
    BY <1>4, <2>2, <2>3, ExtractionOf, Zenon DEF ByMode
  <2>4. CASE x = Extraction("INCREMENTAL_COMPARE", CompareReferences(b, t))
    BY <1>4, <2>2, <2>4, ExtractionOf, Zenon DEF ByMode
  <2> QED  BY <2>1, <2>3, <2>4
<1> QED  BY <1>1, <1>2, <1>3, <1>4

\* A file of a revision is a path and a blob, one for each path.
LEMMA FileFields ==
    ASSUME NEW t \in Revisions, NEW f \in Tree[t]
    PROVE  /\ f[1] \in PathsOf(Files) /\ f[2] \in {g[2] : g \in Files}
           /\ f = <<f[1], f[2]>> /\ f[1] # ""
           /\ \A g \in Tree[t] : f[1] = g[1] => f = g
<1>1. f \in Files
  BY Zenon DEF Files
<1>2. f[1] \in PathsOf(Files) /\ f[2] \in {g[2] : g \in Files}
  BY <1>1, Zenon DEF PathsOf
<1> QED  BY <1>2, SourceIngestionAssumption, Zenon

\* What a reference that an extraction draws up says of the target.
Says(b, t, r) ==
    \/ \E f \in Tree[t] :
          /\ f \in Eligible /\ r.path = f[1] /\ r.blob = f[2]
          /\ \/ r.kind = "FILE" /\ r.previous = ""
             \/ /\ r.kind = "RENAMED_FILE"
                /\ \E s \in Renames : s[2] = t /\ r.previous = s[3]
    \/ /\ r.kind = "DELETION" /\ r.previous = "" /\ r.blob = ""
       /\ r.path \in PathsOf(Tree[b]) /\ r.path \notin PathsOf(Tree[t])

\* Every reference an extraction returns says something true of the target tree.
LEMMA ExtractionSays ==
    ASSUME NEW b \in Named, NEW t \in Named, NEW x \in Extractions(b, t), NEW r \in x.references
    PROVE  /\ t # "REF_DELETED" /\ Says(b, t, r)
           /\ r.kind = "DELETION" => b # "REF_DELETED"
<1>1. ByMode(b, t, x) /\ t # "REF_DELETED"
  BY ExtractionCases, Zenon DEF ByMode
<1>2. CASE r \in TreeReferences(t)
  <2>1. PICK f \in Tree[t] : f \in Eligible /\ r = Reference("FILE", f[1], "", f[2])
    BY <1>2, TreeReference, Zenon
  <2>2. r.kind = "FILE" /\ r.path = f[1] /\ r.previous = "" /\ r.blob = f[2]
    BY <2>1, Zenon DEF Reference
  <2> QED  BY <1>1, <2>1, <2>2, Zenon DEF Says
<1>3. CASE r \in CompareReferences(b, t) /\ b # "REF_DELETED"
  <2>1. ASSUME NEW p \in Removed(b, t), r = Reference("DELETION", p, "", "")
        PROVE  Says(b, t, r)
    <3>1. r.kind = "DELETION" /\ r.path = p /\ r.previous = "" /\ r.blob = ""
      BY <2>1, Zenon DEF Reference
    <3>2. p \in PathsOf(Tree[b]) /\ p \notin PathsOf(Tree[t])
      BY Zenon DEF Removed
    <3> QED  BY <3>1, <3>2, Zenon DEF Says
  <2>2. ASSUME NEW f \in Changed(b, t), f \in Eligible, r = Reference("FILE", f[1], "", f[2])
        PROVE  Says(b, t, r)
    <3>1. r.kind = "FILE" /\ r.path = f[1] /\ r.previous = "" /\ r.blob = f[2]
      BY <2>2, Zenon DEF Reference
    <3>2. f \in Tree[t]
      BY Zenon DEF Changed
    <3> QED  BY <2>2, <3>1, <3>2, Zenon DEF Says
  <2>3. ASSUME NEW f \in Changed(b, t), f \in Eligible, NEW p \in RenamedFrom(b, t, f),
               r = Reference("RENAMED_FILE", f[1], p, f[2])
        PROVE  Says(b, t, r)
    <3>1. r.kind = "RENAMED_FILE" /\ r.path = f[1] /\ r.previous = p /\ r.blob = f[2]
      BY <2>3, Zenon DEF Reference
    <3>2. f \in Tree[t]
      BY Zenon DEF Changed
    <3>3. \E s \in Renames : s[2] = t /\ p = s[3]
      BY Zenon DEF RenamedFrom
    <3> QED  BY <2>3, <3>1, <3>2, <3>3, Zenon DEF Says
  <2> QED  BY <1>1, <1>3, <2>1, <2>2, <2>3, CompareReference, Zenon
<1> QED  BY <1>1, <1>2, <1>3, Zenon DEF ByMode, CutOrWhole

\* An extraction is of its type.
LEMMA ExtractionTyped ==
    ASSUME NEW b \in Named, NEW t \in Named, NEW x \in Extractions(b, t)
    PROVE  x.mode \in Modes /\ x.references \subseteq References
<1>1. x.mode \in Modes
  BY ExtractionCases, Zenon DEF ByMode, Modes
<1>2. ASSUME NEW r \in x.references PROVE r \in References
  <2>1. PICK k, p, q, c : r = Reference(k, p, q, c)
    <3>1. r \in TreeReferences(t) \/ r \in CompareReferences(b, t)
      BY ExtractionCases, Zenon DEF ByMode, CutOrWhole
    <3>2. CASE r \in TreeReferences(t)
      <4>1. PICK f \in Tree[t] : r = Reference("FILE", f[1], "", f[2])
        BY <3>2, TreeReference, Zenon
      <4> QED  BY <4>1, Zenon
    <3>3. CASE r \in CompareReferences(b, t)
      <4>1. CASE \E f \in Removed(b, t) : r = Reference("DELETION", f, "", "")
        BY <4>1, Zenon
      <4>2. ASSUME NEW f \in Changed(b, t),
                   \/ r = Reference("FILE", f[1], "", f[2])
                   \/ \E z \in RenamedFrom(b, t, f) : r = Reference("RENAMED_FILE", f[1], z, f[2])
            PROVE  \E k, p, q, c : r = Reference(k, p, q, c)
        BY <4>2, Zenon
      <4> QED  BY <3>3, <4>1, <4>2, CompareReference, Zenon
    <3> QED  BY <3>1, <3>2, <3>3
  <2>2. r.kind = k /\ r.path = p /\ r.previous = q /\ r.blob = c
    BY <2>1, Zenon DEF Reference
  <2>3. Says(b, t, r) /\ t \in Revisions
    BY ExtractionSays, Zenon DEF Named
  <2>4. k \in {"FILE", "RENAMED_FILE", "DELETION"}
    BY <2>2, <2>3, Zenon DEF Says
  <2>5. p \in PathsOf(Files) /\ q \in PathsOf(Files) \cup {""} /\ c \in {f[2] : f \in Files} \cup {""}
    <3>1. ASSUME NEW f \in Tree[t], r.path = f[1], r.blob = f[2],
                 r.previous = "" \/ \E s \in Renames : r.previous = s[3]
          PROVE  /\ p \in PathsOf(Files) /\ q \in PathsOf(Files) \cup {""}
                 /\ c \in {g[2] : g \in Files} \cup {""}
      <4>1. f[1] \in PathsOf(Files) /\ f[2] \in {g[2] : g \in Files}
        BY <2>3, FileFields, Zenon
      <4>2. ASSUME NEW s \in Renames PROVE s[3] \in PathsOf(Files)
        <5>1. PICK g \in Tree[s[1]] : s[3] = g[1]
          <6>1. s[3] \in PathsOf(Tree[s[1]])
            BY SourceIngestionAssumption, Zenon
          <6> QED  BY <6>1, Zenon DEF PathsOf
        <5>2. s[1] \in Revisions
          BY SourceIngestionAssumption, Zenon
        <5> QED  BY <5>1, <5>2, FileFields, Zenon
      <4> QED  BY <2>2, <3>1, <4>1, <4>2, Zenon
    <3>2. ASSUME r.kind = "DELETION", r.previous = "", r.blob = "", r.path \in PathsOf(Tree[b])
          PROVE  p \in PathsOf(Files) /\ q = "" /\ c = ""
      <4>1. b \in Revisions
        BY <3>2, ExtractionSays, Zenon DEF Named
      <4>2. PICK f \in Tree[b] : r.path = f[1]
        BY <3>2, Zenon DEF PathsOf
      <4>3. f[1] \in PathsOf(Files)
        BY <4>1, <4>2, FileFields, Zenon
      <4> QED  BY <2>2, <3>2, <4>2, <4>3, Zenon
    <3> QED  BY <2>3, <3>1, <3>2, Zenon DEF Says
  <2> QED  BY <2>1, <2>4, <2>5, Zenon DEF Reference, References
<1> QED  BY <1>1, <1>2, Zenon

-------------------------------------------------------------------------------
(* The processing unit                                                     *)

\* A new observation is beyond all that was desired.
Wanting(u, n) == [u EXCEPT !.desired = n, !.followUp = TRUE]

\* A unit that wants more keeps its lease and what it has done.
LEMMA UpsertedRow ==
    ASSUME NEW u \in Units, Constraints(u), NEW n \in Nat, n > u.desired,
           NEW v, v = Wanting(u, n)
    PROVE  /\ v \in Units /\ Constraints(v) /\ v.desired = n /\ v.processed = u.processed
           /\ v.token = u.token /\ v.target = u.target /\ v.attempt = u.attempt
<1>1. v \in Units
  BY Zenon DEF Units, Wanting
<1>2. /\ v.desired = n /\ v.processed = u.processed /\ v.token = u.token /\ v.target = u.target
      /\ v.expires = u.expires /\ v.followUp /\ v.attempt = u.attempt
  BY Zenon DEF Units, Wanting
<1>3. u.processed \in Nat /\ u.desired \in Nat /\ u.target \in Nat \cup {Null}
  BY Zenon DEF Units
<1>4. Constraints(v)
  BY <1>2, <1>3, SMT DEF Constraints, Null
<1> QED  BY <1>1, <1>2, <1>4

\* The lease is taken for all that is desired, with a token nobody had.
LEMMA AcquiredRow ==
    ASSUME NEW u \in Units, Constraints(u), u.followUp,
           NEW v, v = Acquired(u, u.attempt + 1, Live)
    PROVE  /\ v \in Units /\ Constraints(v) /\ v.desired = u.desired /\ v.processed = u.processed
           /\ v.token = u.attempt + 1 /\ v.target = u.desired /\ v.attempt = u.attempt + 1
           /\ u.desired \in Nat \ {0}
<1>1. /\ u.attempt + 1 \in Nat /\ u.desired \in Nat /\ u.processed \in Nat
      /\ Live \in Nat /\ Null \in Nat \cup {Null}
  BY SMT DEF Units, Live
<1>2. v \in Units
  BY <1>1, Zenon DEF Units, Acquired
<1>3. /\ v.desired = u.desired /\ v.processed = u.processed /\ v.followUp = u.followUp
      /\ v.token = u.attempt + 1 /\ v.target = u.desired /\ v.attempt = u.attempt + 1
      /\ v.expires = Live
  BY Zenon DEF Units, Acquired
<1>4. u.desired > u.processed
  BY Zenon DEF Constraints
<1>5. Constraints(v)
  <2>1. v.followUp
    BY <1>3, Zenon
  <2>2. v.target # Null /\ v.token # Null /\ v.expires # Null
    BY <1>1, <1>3, SMT DEF Null, Live
  <2> QED  BY <1>1, <1>3, <1>4, <2>1, <2>2, SMT DEF Constraints
<1>6. u.desired \in Nat \ {0}
  BY <1>1, <1>4, SMT
<1> QED  BY <1>2, <1>3, <1>5, <1>6

\* Completing makes the leased target the processed frontier.
LEMMA CompletedRow ==
    ASSUME NEW u \in Units, Constraints(u), u.token # Null, NEW n, n = u.target,
           NEW v, v = Completed(u, n)
    PROVE  /\ v \in Units /\ Constraints(v) /\ v.desired = u.desired /\ v.processed = n
           /\ v.token = Null /\ v.target = Null /\ v.attempt = u.attempt
           /\ n \in Nat /\ u.processed < n /\ n <= u.desired
<1>1. n \in Nat /\ u.processed < n /\ n <= u.desired /\ u.desired \in Nat /\ u.processed \in Nat
  BY SMT DEF Units, Constraints, Null
<1>2. (u.desired > n) \in BOOLEAN
  BY SMT
<1>3. UnitReleased(u, Null) \in Units
  <2>1. Null \in Nat \cup {Null}
    OBVIOUS
  <2> QED  BY <2>1, Zenon DEF Units, UnitReleased
<1>4. v \in Units
  BY <1>1, <1>2, <1>3, Zenon DEF Units, Completed
<1>5. /\ v.desired = u.desired /\ v.processed = n /\ v.token = Null /\ v.target = Null
      /\ v.expires = Null /\ v.attempt = u.attempt
  BY Zenon DEF Units, Completed, UnitReleased
<1>6. v.followUp <=> u.desired > n
  BY Zenon DEF Units, Completed, UnitReleased
<1>7. Constraints(v)
  BY <1>1, <1>5, <1>6, SMT DEF Constraints, Null
<1> QED  BY <1>1, <1>4, <1>5, <1>7

\* A retry gives the lease up and keeps the frontier.
LEMMA RetriedRow ==
    ASSUME NEW u \in Units, Constraints(u), NEW v, v = Retried(u, Live)
    PROVE  /\ v \in Units /\ Constraints(v) /\ v.desired = u.desired /\ v.processed = u.processed
           /\ v.token = Null /\ v.target = Null /\ v.attempt = u.attempt
<1>1. Live \in Nat \cup {Null} /\ Null \in Nat \cup {Null}
  BY SMT DEF Live
<1>2. v \in Units
  BY <1>1, Zenon DEF Units, Retried, UnitReleased
<1>3. /\ v.desired = u.desired /\ v.processed = u.processed /\ v.followUp = u.followUp
      /\ v.token = Null /\ v.target = Null /\ v.expires = Null /\ v.attempt = u.attempt
  BY Zenon DEF Units, Retried, UnitReleased
<1>4. Constraints(v)
  BY <1>3, SMT DEF Units, Constraints, Null
<1> QED  BY <1>2, <1>3, <1>4

\* When a lease or a delay ends, nothing but its time changes.
LEMMA LapsedRow ==
    ASSUME NEW u \in Units, Constraints(u),
           NEW v, \/ u.expires = Live /\ v = [u EXCEPT !.expires = Lapsed]
                  \/ v = [u EXCEPT !.next = Lapsed]
    PROVE  /\ v \in Units /\ Constraints(v) /\ v.desired = u.desired /\ v.processed = u.processed
           /\ v.token = u.token /\ v.target = u.target /\ v.attempt = u.attempt
<1>1. Lapsed \in Nat \cup {Null} /\ Lapsed # Null /\ Live # Null
  BY SMT DEF Lapsed, Live, Null
<1>2. v \in Units
  BY <1>1, Zenon DEF Units
<1>3. /\ v.desired = u.desired /\ v.processed = u.processed /\ v.followUp = u.followUp
      /\ v.token = u.token /\ v.target = u.target /\ v.attempt = u.attempt
      /\ (v.expires = Null <=> u.expires = Null)
  BY <1>1, Zenon DEF Units
<1>4. Constraints(v)
  BY <1>3, Zenon DEF Constraints
<1> QED  BY <1>2, <1>3, <1>4

-------------------------------------------------------------------------------
(* Frames                                                                  *)

\* A step of the processing unit alone that neither moves the frontier nor gives
\* out a token that somebody has.
UnitMove ==
    /\ UNCHANGED <<observations, frontier, evidence, dispositions, completed>>
    /\ unit' \in Units /\ Constraints(unit')
    /\ unit'.desired = unit.desired /\ unit'.processed = unit.processed
    /\ unit'.attempt >= unit.attempt
    /\ unit'.target \in {unit.target, unit.desired, Null}
    /\ \/ unit'.token = unit.token /\ unit'.target = unit.target
       \/ unit'.token = Null
       \/ unit'.token > unit.attempt

\* The columns of a processing unit.
LEMMA UnitFields ==
    ASSUME NEW u \in Units
    PROVE  /\ u.desired \in Nat /\ u.processed \in Nat /\ u.attempt \in Nat
           /\ u.token \in Nat \cup {Null} /\ u.target \in Nat \cup {Null}
  BY Zenon DEF Units

\* Such a step leaves what the tables say,
LEMMA LedgerKept == ASSUME Typed, Ledger, UnitMove PROVE Ledger'
<1>1. UNCHANGED <<observations, frontier, evidence, dispositions, completed>>
  BY Zenon DEF UnitMove
<1>2. RowsAgree'
  BY Zenon DEF Ledger, RowsAgree, UnitMove
<1>3. DisposedOnce' /\ CoalescedIntoIngested'
  BY <1>1, Zenon DEF Ledger, DisposedOnce, CoalescedIntoIngested
<1>4. \A n : RevisionAt(n)' = RevisionAt(n)
  BY <1>1, Zenon DEF RevisionAt
<1>5. ASSUME NEW e \in evidence' PROVE EvidenceOK(e)'
  <2>1. EvidenceOK(e) /\ e.seq \in 1..Len(observations) /\ unit.desired = Len(observations)
    BY <1>1, Zenon DEF Ledger, EvidenceOK, RowsAgree
  <2>2. unit'.target # Null => e.seq <= unit'.target
    <3>1. unit'.target \in {unit.target, unit.desired, Null}
      BY Zenon DEF UnitMove
    <3>2. unit.target # Null => e.seq <= unit.target
      BY <2>1, Zenon DEF EvidenceOK
    <3>3. e.seq <= unit.desired
      BY <2>1, SMT
    <3> QED  BY <3>1, <3>2, <3>3, Zenon
  <2> QED  BY <1>1, <1>4, <2>1, <2>2, Zenon DEF EvidenceOK
<1>6. LastFull' = LastFull
  BY <1>1, Zenon DEF LastFull
<1>7. CompletionsOK' /\ Limited'
  BY <1>1, <1>6, Zenon DEF Ledger, CompletionsOK, Limited, Recorded
<1>8. EvidenceCoversTree'
  <2>1. View' = View
    BY <1>1, <1>6, Zenon DEF View
  <2>2. \A n : Served(n)' = Served(n)
    BY <1>4, Zenon DEF Served
  <2>3. NothingCut' = NothingCut
    BY <1>1, <1>6, Zenon DEF NothingCut
  <2> QED  BY <1>1, <2>1, <2>2, <2>3, Zenon DEF Ledger, EvidenceCoversTree
<1> QED  BY <1>2, <1>3, <1>5, <1>7, <1>8, Zenon DEF Ledger

\* and every attempt.
LEMMA AttemptKept ==
    ASSUME Typed, UnitMove, NEW l, AttemptOK(l), l.pc \in {"extract", "record"} => l.token \in Nat
    PROVE  AttemptOK(l)'
<1>1. UNCHANGED <<observations, frontier, evidence>>
  BY Zenon DEF UnitMove
<1>2. \A n : RevisionAt(n)' = RevisionAt(n)
  BY <1>1, Zenon DEF RevisionAt
<1>3. ASSUME l.pc \in {"extract", "record"}
      PROVE  /\ l.token <= unit'.attempt
             /\ l.token = unit'.token => l.token = unit.token /\ unit'.target = unit.target
  <2>1. l.token \in Nat /\ l.token <= unit.attempt
    BY <1>3, Zenon DEF AttemptOK
  <2>2. unit.attempt \in Nat /\ unit'.attempt \in Nat /\ unit'.attempt >= unit.attempt
    BY UnitFields, Zenon DEF Typed, UnitMove
  <2>3. l.token <= unit'.attempt
    BY <2>1, <2>2, SMT
  <2>4. \/ unit'.token = unit.token /\ unit'.target = unit.target
        \/ unit'.token = Null
        \/ unit'.token > unit.attempt
    BY Zenon DEF UnitMove
  <2>5. l.token # Null /\ ~(l.token > unit.attempt)
    BY <2>1, <2>2, SMT DEF Null
  <2> QED  BY <2>3, <2>4, <2>5, Zenon
<1>4. CASE l.pc \in {"extract", "record"}
  BY <1>1, <1>2, <1>3, <1>4, Zenon DEF AttemptOK
<1>5. CASE l.pc \notin {"extract", "record"}
  BY <1>5, Zenon DEF AttemptOK
<1> QED  BY <1>4, <1>5

\* The local variables of a worker, by where it is.
LEMMA WorkerFields ==
    ASSUME Typed, NEW w \in Workers
    PROVE  /\ worker[w] \in Locals
           /\ worker[w].pc = "schedule" => worker[w].seen \in DOMAIN History
           /\ worker[w].pc = "acquire" => worker[w].passes \in 0..MaxPasses
           /\ worker[w].pc = "extract" => worker[w] \in Extracting
           /\ worker[w].pc = "record" => worker[w] \in Recording
<1>1. worker[w] \in Locals
  BY Zenon DEF Typed
<1>2. \/ worker[w] \in [pc : {"idle", "observe"}]
      \/ worker[w] \in [pc : {"schedule"}, seen : DOMAIN History]
      \/ worker[w] \in [pc : {"acquire"}, passes : 0..MaxPasses]
      \/ worker[w] \in Extracting
      \/ worker[w] \in Recording
  BY <1>1, Zenon DEF Locals
<1>3. CASE worker[w] \in [pc : {"idle", "observe"}]
  BY <1>1, <1>3, Zenon
<1>4. CASE worker[w] \in [pc : {"schedule"}, seen : DOMAIN History]
  BY <1>1, <1>4, Zenon
<1>5. CASE worker[w] \in [pc : {"acquire"}, passes : 0..MaxPasses]
  BY <1>1, <1>5, Zenon
<1>6. CASE worker[w] \in Extracting
  <2>1. worker[w].pc = "extract"
    BY <1>6, Zenon DEF Extracting
  <2> QED  BY <1>1, <1>6, <2>1, Zenon
<1>7. CASE worker[w] \in Recording
  <2>1. worker[w].pc = "record"
    BY <1>7, Zenon DEF Recording
  <2> QED  BY <1>1, <1>7, <2>1, Zenon
<1> QED  BY <1>2, <1>3, <1>4, <1>5, <1>6, <1>7

\* What an attempt knows.
LEMMA AttemptFields ==
    ASSUME Typed, NEW w \in Workers, worker[w].pc \in {"extract", "record"}
    PROVE  /\ worker[w].passes \in Nat /\ worker[w].token \in Nat /\ worker[w].seq \in Nat
           /\ worker[w].base \in Named
           /\ worker[w].pc = "record" => worker[w].mode \in Modes /\ worker[w].todo \subseteq References
<1>1. CASE worker[w].pc = "extract"
  <2>1. worker[w] \in Extracting
    BY <1>1, WorkerFields, Zenon
  <2> QED  BY <1>1, <2>1, Zenon DEF Extracting, Named
<1>2. CASE worker[w].pc = "record"
  <2>1. worker[w] \in Recording
    BY <1>2, WorkerFields, Zenon
  <2> QED  BY <1>2, <2>1, Zenon DEF Recording, Named
<1> QED  BY <1>1, <1>2, Zenon

\* A step of w changes the local variables of w.
LEMMA GoesEffect ==
    ASSUME Typed, NEW w \in Workers, NEW l \in Locals, Goes(w, l)
    PROVE  /\ worker' \in [Workers -> Locals] /\ worker'[w] = l
           /\ \A v \in Workers \ {w} : worker'[v] = worker[v]
<1>1. worker \in [Workers -> Locals] /\ worker' = [worker EXCEPT ![w] = l]
  BY Zenon DEF Typed, Goes
<1> QED  BY <1>1, Zenon

\* A worker between jobs.
LEMMA IdleLocal == Idle \in Locals /\ Idle.pc = "idle"
<1>1. Idle \in [pc : {"idle", "observe"}] /\ Idle.pc = "idle"
  BY Zenon DEF Idle
<1> QED  BY <1>1, Zenon DEF Locals

\* The bounds are numbers.
LEMMA Bounds == MaxPasses \in Nat \ {0} /\ MaxJobs \in Nat \ {0} /\ MaxFaults \in Nat
  BY SourceIngestionAssumption, Zenon

\* The bound of the queue.
LEMMA JobsBounded == ASSUME Typed PROVE Min({jobs + 1, MaxJobs}) \in 0..MaxJobs
<1>1. jobs + 1 \in Nat /\ MaxJobs \in Nat
  BY Bounds, SMT DEF Typed
<1>2. PICK a, b : a = jobs + 1 /\ b = MaxJobs
  OBVIOUS
<1>3. \E x \in {a, b} : \A y \in {a, b} : x <= y
  BY <1>1, <1>2, SMT
<1>4. Min({a, b}) \in {a, b} /\ \A y \in {a, b} : Min({a, b}) <= y
  BY <1>3, Zenon DEF Min
<1>5. Min({a, b}) \in Nat /\ Min({a, b}) <= b
  BY <1>1, <1>2, <1>4, Zenon
<1> QED  BY <1>1, <1>2, <1>5, SMT

\* A job that fails goes back to the queue or dies, and the worker is free.
LEMMA JobFailsEffect ==
    ASSUME Typed, NEW w \in Workers, JobFails(w)
    PROVE  jobs' \in 0..MaxJobs /\ Goes(w, Idle)
<1>1. jobs \in 0..MaxJobs
  BY Zenon DEF Typed
<1> QED  BY <1>1, JobsBounded, Zenon DEF JobFails

\* A fault is counted.
LEMMA FaultEffect == ASSUME Typed, Fault PROVE faults' \in 0..MaxFaults
  BY Bounds, SMT DEF Typed, Fault

\* The tables and the rest keep their types.
LEMMA TypedKept ==
    ASSUME Typed, UnitMove, History' = History, provider' \in [history : Histories, head : Nat],
           head' \in DOMAIN History, connected' \in BOOLEAN, jobs' \in 0..MaxJobs,
           faults' \in 0..MaxFaults, worker' \in [Workers -> Locals]
    PROVE  Typed'
<1>1. Locals' = Locals
  BY Zenon DEF Locals
<1>2. /\ UNCHANGED <<observations, frontier, evidence, dispositions, completed>>
      /\ unit' \in Units
  BY Zenon DEF UnitMove
<1> QED  BY <1>1, <1>2, Zenon DEF Typed

\* A step that leaves the tables but for a move of the unit, and of the workers
\* moves at most one, which then has an attempt in order.
LEMMA MoveKeeps ==
    ASSUME Inv, UnitMove, UNCHANGED provider, connected' \in BOOLEAN, jobs' \in 0..MaxJobs,
           faults' \in 0..MaxFaults,
           NEW w \in Workers, NEW l \in Locals, Goes(w, l), AttemptOK(l)'
    PROVE  Inv'
<1>1. /\ worker' \in [Workers -> Locals] /\ worker'[w] = l
      /\ \A v \in Workers \ {w} : worker'[v] = worker[v]
  BY GoesEffect, Zenon DEF Inv
<1>2. Typed'
  <2>1. /\ History' = History /\ provider' \in [history : Histories, head : Nat]
        /\ head' \in DOMAIN History
    BY Zenon DEF Inv, Typed, History, head
  <2> QED  BY <1>1, <2>1, TypedKept, Zenon DEF Inv
<1>3. ASSUME NEW v \in Workers PROVE AttemptOK(worker[v])'
  <2>1. CASE v = w
    BY <2>1, <1>1, Zenon DEF AttemptOK
  <2>2. CASE v # w
    <3>1. PICK k : k = worker[v]
      OBVIOUS
    <3>2. AttemptOK(k) /\ (k.pc \in {"extract", "record"} => k.token \in Nat)
      BY <3>1, AttemptFields, Zenon DEF Inv
    <3>3. AttemptOK(k)'
      BY <3>2, AttemptKept, Zenon DEF Inv
    <3>4. worker'[v] = k
      BY <1>1, <2>2, <3>1, Zenon
    <3> QED  BY <3>3, <3>4, Zenon DEF AttemptOK
  <2> QED  BY <2>1, <2>2
<1> QED  BY <1>2, <1>3, LedgerKept, Zenon DEF Inv

\* The same for a step of the environment.
LEMMA EnvironmentKeeps ==
    ASSUME Inv, UnitMove, UNCHANGED <<worker>>, History' = History,
           provider' \in [history : Histories, head : Nat], head' \in DOMAIN History,
           connected' \in BOOLEAN, jobs' \in 0..MaxJobs, faults' \in 0..MaxFaults
    PROVE  Inv'
<1>1. Typed'
  <2>1. worker' \in [Workers -> Locals]
    BY Zenon DEF Inv, Typed
  <2> QED  BY <2>1, TypedKept, Zenon DEF Inv
<1>2. ASSUME NEW v \in Workers PROVE AttemptOK(worker[v])'
  <2>1. PICK k : k = worker[v]
    OBVIOUS
  <2>2. AttemptOK(k) /\ (k.pc \in {"extract", "record"} => k.token \in Nat)
    BY <2>1, AttemptFields, Zenon DEF Inv
  <2>3. AttemptOK(k)'
    BY <2>2, AttemptKept, Zenon DEF Inv
  <2>4. worker'[v] = k
    BY <2>1, Zenon
  <2> QED  BY <2>3, <2>4, Zenon DEF AttemptOK
<1> QED  BY <1>1, <1>2, LedgerKept, Zenon DEF Inv

\* What was observed, or that nothing was.
LEMMA RevisionNamed ==
    ASSUME Typed, Ledger
    PROVE  /\ RevisionAt(frontier.ingested) \in Named
           /\ \A n \in 1..Len(observations) : RevisionAt(n) \in Named
<1>1. \A n \in 1..Len(observations) : observations[n].revision \in Named
  <2>1. \A n \in 1..Len(observations) : observations[n] \in Answers
    <3>1. PICK S : S = Answers
      OBVIOUS
    <3>2. observations \in Seq(S)
      BY <3>1, Zenon DEF Typed
    <3>3. \A n \in 1..Len(observations) : observations[n] \in S
      BY <3>2, SMT
    <3> QED  BY <3>1, <3>3, Zenon
  <2> QED  BY <2>1, Zenon DEF Answers, Named
<1>2. \A n \in 1..Len(observations) : RevisionAt(n) \in Named
  BY <1>1, Zenon DEF RevisionAt, Named
<1>3. frontier.ingested \in Nat /\ frontier.ingested <= Len(observations) /\ Len(observations) \in Nat
  <2>1. frontier.ingested \in Nat /\ frontier.observed \in Nat
    BY Zenon DEF Typed
  <2>2. frontier.observed = Len(observations) /\ frontier.ingested <= frontier.observed
    BY Zenon DEF Ledger, RowsAgree, Constraints
  <2> QED  BY <2>1, <2>2, Zenon
<1>4. CASE frontier.ingested = 0
  <2>1. RevisionAt(frontier.ingested) = "REF_DELETED"
    BY <1>4, SMT DEF RevisionAt
  <2> QED  BY <1>2, <2>1, Zenon DEF Named
<1>5. CASE frontier.ingested # 0
  <2>1. frontier.ingested \in 1..Len(observations)
    BY <1>3, <1>5, SMT
  <2> QED  BY <1>2, <2>1, Zenon
<1> QED  BY <1>2, <1>4, <1>5

\* A unit that stays has moved.
LEMMA UnitStays == ASSUME Inv, UNCHANGED database PROVE UnitMove
<1>1. UNCHANGED <<observations, frontier, unit, evidence, dispositions, completed>>
  BY Zenon DEF database
<1>2. unit \in Units /\ Constraints(unit) /\ unit.attempt \in Nat
  BY UnitFields, Zenon DEF Inv, Typed, Ledger, RowsAgree
<1>3. unit.attempt >= unit.attempt
  BY <1>2, SMT
<1> QED  BY <1>1, <1>2, <1>3, Zenon DEF UnitMove

-------------------------------------------------------------------------------
(* The steps of the environment                                            *)

\* A pushed ref is the next of its history.
LEMMA PushKeeps == ASSUME Inv, Push PROVE Inv'
<1>1. /\ provider' = [provider EXCEPT !.head = head + 1] /\ head < Len(History)
      /\ UNCHANGED <<database, connected, jobs, worker, faults>>
  BY Zenon DEF Push, head
<1>2. provider \in [history : Histories, head : Nat] /\ head \in DOMAIN History /\ head \in Nat
  BY Zenon DEF Inv, Typed, head
<1>3. History \in Seq(Answers)
  <2>1. History \in Histories
    BY <1>2, Zenon DEF History
  <2> QED  BY <2>1, SourceIngestionAssumption, Zenon
<1>4. head + 1 \in Nat /\ head + 1 \in DOMAIN History
  BY <1>1, <1>2, <1>3, SMT
<1>5. provider' \in [history : Histories, head : Nat] /\ History' = History /\ head' = head + 1
  BY <1>1, <1>2, <1>4, Zenon DEF History, head
<1>6. head' \in DOMAIN History
  BY <1>4, <1>5, Zenon
<1>7. connected' \in BOOLEAN /\ jobs' \in 0..MaxJobs /\ faults' \in 0..MaxFaults
  BY <1>1, Zenon DEF Inv, Typed
<1>8. UnitMove
  BY <1>1, UnitStays, Zenon
<1> QED  BY <1>1, <1>5, <1>6, <1>7, <1>8, EnvironmentKeeps, Zenon

\* The provider stays as it is in every other step.
LEMMA ProviderStays ==
    ASSUME Inv, UNCHANGED provider
    PROVE  /\ History' = History /\ provider' \in [history : Histories, head : Nat]
           /\ head' \in DOMAIN History
  BY Zenon DEF Inv, Typed, History, head

\* A webhook enqueues a job.
LEMMA SignalKeeps == ASSUME Inv, Signal PROVE Inv'
<1>1. jobs < MaxJobs /\ jobs' = jobs + 1 /\ UNCHANGED <<provider, database, connected, worker, faults>>
  BY Zenon DEF Signal
<1>2. jobs' \in 0..MaxJobs
  BY <1>1, Bounds, SMT DEF Inv, Typed
<1>3. connected' \in BOOLEAN /\ faults' \in 0..MaxFaults
  BY <1>1, Zenon DEF Inv, Typed
<1> QED  BY <1>1, <1>2, <1>3, UnitStays, ProviderStays, EnvironmentKeeps, Zenon

\* The connection comes and goes; the ledger does not depend on it.
LEMMA ConnectionKeeps == ASSUME Inv, Disconnect \/ Reconnect PROVE Inv'
<1>1. /\ connected' \in BOOLEAN /\ UNCHANGED <<provider, database, jobs, worker>>
      /\ Fault \/ UNCHANGED faults
  BY Zenon DEF Disconnect, Reconnect
<1>2. jobs' \in 0..MaxJobs /\ faults' \in 0..MaxFaults
  BY <1>1, FaultEffect, Zenon DEF Inv, Typed
<1> QED  BY <1>1, <1>2, UnitStays, ProviderStays, EnvironmentKeeps, Zenon

\* A row whose lease or delay ended has moved.
LEMMA LapsedMove ==
    ASSUME Inv, UNCHANGED <<observations, frontier, evidence, dispositions, completed>>,
           \/ unit.expires = Live /\ unit' = [unit EXCEPT !.expires = Lapsed]
           \/ unit' = [unit EXCEPT !.next = Lapsed]
    PROVE  UnitMove
<1>1. unit \in Units /\ Constraints(unit) /\ unit.attempt \in Nat
  BY UnitFields, Zenon DEF Inv, Typed, Ledger, RowsAgree
<1>2. PICK u, v : u = unit /\ v = unit'
  OBVIOUS
<1>3. /\ v \in Units /\ Constraints(v) /\ v.desired = u.desired /\ v.processed = u.processed
      /\ v.token = u.token /\ v.target = u.target /\ v.attempt = u.attempt
  BY <1>1, <1>2, LapsedRow, Zenon
<1>4. unit'.attempt >= unit.attempt
  BY <1>1, <1>2, <1>3, SMT
<1> QED  BY <1>2, <1>3, <1>4, Zenon DEF UnitMove

\* A lease or a wait that runs out leaves the frontiers of the unit.
LEMMA LapseKeeps == ASSUME Inv, LeaseRunsOut \/ RetryDue PROVE Inv'
<1>1. /\ UNCHANGED <<provider, observations, frontier, evidence, dispositions, completed,
                     connected, jobs, worker>>
      /\ \/ unit.expires = Live /\ unit' = [unit EXCEPT !.expires = Lapsed]
         \/ unit' = [unit EXCEPT !.next = Lapsed]
      /\ Fault \/ UNCHANGED faults
  BY Zenon DEF LeaseRunsOut, RetryDue
<1>2. UnitMove
  BY <1>1, LapsedMove, Zenon
<1>3. connected' \in BOOLEAN /\ jobs' \in 0..MaxJobs /\ faults' \in 0..MaxFaults
  BY <1>1, FaultEffect, Zenon DEF Inv, Typed
<1> QED  BY <1>1, <1>2, <1>3, ProviderStays, EnvironmentKeeps, Zenon

-------------------------------------------------------------------------------
(* The steps of a worker                                                   *)

\* Wherever no attempt is under way there is nothing to check of one.
LEMMA NoAttempt == ASSUME NEW l, l.pc \notin {"extract", "record"} PROVE AttemptOK(l)'
  BY Zenon DEF AttemptOK

\* A worker that stops, having moved the unit at most.
LEMMA IdleKeeps ==
    ASSUME Inv, UnitMove, UNCHANGED provider, connected' \in BOOLEAN, jobs' \in 0..MaxJobs,
           faults' \in 0..MaxFaults, NEW w \in Workers, Goes(w, Idle)
    PROVE  Inv'
<1>1. PICK l : l = Idle
  OBVIOUS
<1>2. l \in Locals /\ l.pc \notin {"extract", "record"} /\ Goes(w, l)
  BY <1>1, IdleLocal, Zenon
<1>3. AttemptOK(l)'
  BY <1>2, NoAttempt, Zenon
<1> QED  BY <1>2, <1>3, MoveKeeps, Zenon

\* A worker that fails leaves the tables and its local variables.
LEMMA FailureKeeps ==
    ASSUME Inv, UnitMove, UNCHANGED <<provider, connected>>, faults' \in 0..MaxFaults,
           NEW w \in Workers, JobFails(w)
    PROVE  Inv'
<1>1. jobs' \in 0..MaxJobs /\ Goes(w, Idle) /\ connected' \in BOOLEAN
  BY JobFailsEffect, Zenon DEF Inv, Typed
<1> QED  BY <1>1, IdleKeeps, Zenon

\* A worker takes a job and observes the ref, or finds nothing to do.
LEMMA TakeJobKeeps == ASSUME Inv, NEW w \in Workers, TakeJob(w) PROVE Inv'
<1>1. /\ jobs > 0 /\ jobs' = jobs - 1 /\ UNCHANGED <<provider, database, connected, faults>>
      /\ Goes(w, [pc |-> "observe"]) \/ Goes(w, Idle)
  BY Zenon DEF TakeJob
<1>2. jobs' \in 0..MaxJobs
  BY <1>1, Bounds, SMT DEF Inv, Typed
<1>3. UnitMove /\ connected' \in BOOLEAN /\ faults' \in 0..MaxFaults
  BY <1>1, UnitStays, Zenon DEF Inv, Typed
<1>4. CASE Goes(w, Idle)
  BY <1>1, <1>2, <1>3, <1>4, IdleKeeps, Zenon
<1>5. CASE Goes(w, [pc |-> "observe"])
  <2>1. PICK l : l = [pc |-> "observe"]
    OBVIOUS
  <2>2. l \in Locals /\ l.pc \notin {"extract", "record"}
    <3>1. l.pc = "observe" /\ l \in [pc : {"idle", "observe"}]
      BY <2>1, Zenon
    <3> QED  BY <3>1, Zenon DEF Locals
  <2>3. AttemptOK(l)'
    BY <2>2, NoAttempt, Zenon
  <2>4. Goes(w, l)
    BY <1>5, <2>1, Zenon
  <2> QED  BY <1>1, <1>2, <1>3, <2>2, <2>3, <2>4, MoveKeeps, Zenon
<1> QED  BY <1>1, <1>4, <1>5

\* A worker that crashes leaves what it committed.
LEMMA CrashKeeps == ASSUME Inv, NEW w \in Workers, Crash(w) PROVE Inv'
<1>1. JobFails(w) /\ UNCHANGED <<provider, database, connected>> /\ Fault
  BY Zenon DEF Crash
<1>2. faults' \in 0..MaxFaults
  BY <1>1, FaultEffect, Zenon DEF Inv
<1> QED  BY <1>1, <1>2, UnitStays, FailureKeeps, Zenon

\* So does one whose job another target ended.
LEMMA EarlierTargetKeeps == ASSUME Inv, NEW w \in Workers, EarlierTargetFails(w) PROVE Inv'
<1>1. JobFails(w) /\ UNCHANGED <<provider, database, connected, faults>>
  BY Zenon DEF EarlierTargetFails
<1>2. faults' \in 0..MaxFaults
  BY <1>1, Zenon DEF Inv, Typed
<1> QED  BY <1>1, <1>2, UnitStays, FailureKeeps, Zenon

\* The provider is read; nothing is written until the next step.
LEMMA ObserveRefKeeps == ASSUME Inv, NEW w \in Workers, ObserveRef(w) PROVE Inv'
<1>1. UNCHANGED <<provider, database, connected>> /\ UnitMove
  BY UnitStays, Zenon DEF ObserveRef
<1>2. CASE Goes(w, [pc |-> "schedule", seen |-> head]) /\ UNCHANGED <<jobs, faults>>
  <2>1. PICK l : l = [pc |-> "schedule", seen |-> head]
    OBVIOUS
  <2>2. l \in Locals /\ l.pc \notin {"extract", "record"}
    <3>1. head \in DOMAIN History
      BY Zenon DEF Inv, Typed
    <3>2. l.pc = "schedule" /\ l \in [pc : {"schedule"}, seen : DOMAIN History]
      BY <2>1, <3>1, Zenon
    <3> QED  BY <3>2, Zenon DEF Locals
  <2>3. AttemptOK(l)' /\ Goes(w, l)
    BY <1>2, <2>1, <2>2, NoAttempt, Zenon
  <2>4. connected' \in BOOLEAN /\ jobs' \in 0..MaxJobs /\ faults' \in 0..MaxFaults
    BY <1>1, <1>2, Zenon DEF Inv, Typed
  <2> QED  BY <1>1, <2>2, <2>3, <2>4, MoveKeeps, Zenon
<1>3. CASE (Fault \/ UNCHANGED faults) /\ JobFails(w)
  <2>1. faults' \in 0..MaxFaults
    BY <1>3, FaultEffect, Zenon DEF Inv, Typed
  <2> QED  BY <1>1, <1>3, <2>1, FailureKeeps, Zenon
<1> QED  BY <1>2, <1>3, Zenon DEF ObserveRef

\* From acquire a worker holds the unit's target, and the frontier as its base.
LEMMA AcquireKeeps == ASSUME Inv, NEW w \in Workers, Acquire(w) PROVE Inv'
<1>1. /\ UNCHANGED <<provider, observations, frontier, evidence, dispositions, completed,
                     connected, faults>>
      /\ connected' \in BOOLEAN /\ faults' \in 0..MaxFaults /\ jobs \in 0..MaxJobs
  BY Zenon DEF Acquire, Inv, Typed
<1>2. PICK u : u = unit
  OBVIOUS
<1>3. u \in Units /\ Constraints(u) /\ u.attempt \in Nat /\ u.desired = Len(observations)
  BY <1>2, UnitFields, Zenon DEF Inv, Typed, Ledger, RowsAgree
<1>4. ASSUME UNCHANGED unit, JobEnds(w) \/ JobFails(w)
      PROVE  Inv'
  <2>1. UnitMove
    BY <1>1, <1>4, UnitStays, Zenon DEF database
  <2>2. jobs' \in 0..MaxJobs /\ Goes(w, Idle)
    BY <1>1, <1>4, JobFailsEffect, Zenon DEF JobEnds, Inv
  <2> QED  BY <1>1, <2>1, <2>2, IdleKeeps, Zenon
<1>5. ASSUME CanAcquire(unit, Lapsed), unit' = Acquired(unit, unit.attempt + 1, Live), UNCHANGED jobs,
             worker[w].pc = "acquire",
             Goes(w, [pc |-> "extract", passes |-> worker[w].passes, token |-> unit.attempt + 1,
                      seq |-> unit.desired, base |-> RevisionAt(frontier.ingested)])
      PROVE  Inv'
  <2>1. PICK v : v = unit'
    OBVIOUS
  <2>2. /\ v \in Units /\ Constraints(v) /\ v.desired = u.desired /\ v.processed = u.processed
        /\ v.token = u.attempt + 1 /\ v.target = u.desired /\ v.attempt = u.attempt + 1
        /\ u.desired \in Nat \ {0}
    <3>1. u.followUp /\ v = Acquired(u, u.attempt + 1, Live)
      BY <1>2, <1>5, <2>1, Zenon DEF CanAcquire
    <3> QED  BY <1>3, <3>1, AcquiredRow, Zenon
  <2>3. v.attempt >= u.attempt /\ v.token > u.attempt
    BY <1>3, <2>2, SMT
  <2>4. UnitMove
    BY <1>1, <1>2, <2>1, <2>2, <2>3, Zenon DEF UnitMove
  <2>5. PICK l : l = [pc |-> "extract", passes |-> worker[w].passes, token |-> u.attempt + 1,
                      seq |-> u.desired, base |-> RevisionAt(frontier.ingested)]
    OBVIOUS
  <2>6. Goes(w, l)
    BY <1>2, <1>5, <2>5, Zenon
  <2>7. RevisionAt(frontier.ingested) \in Named
    BY RevisionNamed, Zenon DEF Inv
  <2>8. worker[w].passes \in Nat /\ u.attempt + 1 \in Nat
    <3>1. worker[w].passes \in 0..MaxPasses
      BY <1>5, WorkerFields, Zenon DEF Inv
    <3> QED  BY <1>3, <3>1, Bounds, SMT
  <2>9. l \in Locals
    <3>1. l \in Extracting
      BY <2>2, <2>5, <2>7, <2>8, Zenon DEF Extracting, Named
    <3> QED  BY <3>1, Zenon DEF Locals
  <2>10. AttemptOK(l)'
    <3>1. /\ l.pc = "extract" /\ l.token = v.attempt /\ l.seq = v.target
          /\ l.base = RevisionAt(frontier.ingested)
      BY <2>2, <2>5, Zenon
    <3>2. l.token <= v.attempt
      BY <2>2, <2>8, <3>1, SMT
    <3>3. l.seq \in 1..Len(observations)
      BY <1>3, <2>2, <3>1, SMT
    <3>4. RevisionAt(frontier.ingested)' = RevisionAt(frontier.ingested)
      BY <1>1, Zenon DEF RevisionAt
    <3> QED  BY <1>1, <2>1, <3>1, <3>2, <3>3, <3>4, Zenon DEF AttemptOK
  <2>11. jobs' \in 0..MaxJobs
    BY <1>1, <1>5, Zenon
  <2> QED  BY <1>1, <2>4, <2>6, <2>9, <2>10, <2>11, MoveKeeps, Zenon
<1> QED  BY <1>4, <1>5, Zenon DEF Acquire

\* An attempt draws up an extraction, or gives its lease back.
LEMMA ExtractKeeps == ASSUME Inv, NEW w \in Workers, Extract(w) PROVE Inv'
<1>1. /\ UNCHANGED <<provider, observations, frontier, evidence, dispositions, completed, connected>>
      /\ worker[w].pc = "extract" /\ connected' \in BOOLEAN
  BY Zenon DEF Extract, Inv, Typed
<1>2. PICK k : k = worker[w]
  OBVIOUS
<1>3. /\ k.passes \in Nat /\ k.token \in Nat /\ k.seq \in Nat /\ k.base \in Named /\ k.pc = "extract"
      /\ k.token <= unit.attempt /\ k.seq \in 1..Len(observations)
      /\ k.token = unit.token => k.seq = unit.target /\ k.base = RevisionAt(frontier.ingested)
  BY <1>1, <1>2, AttemptFields, Zenon DEF Inv, AttemptOK
<1>4. ASSUME NEW x \in Extractions(k.base, RevisionAt(k.seq)), Extracted(w, x),
             UNCHANGED <<unit, jobs, faults>>
      PROVE  Inv'
  <2>1. PICK l : l = [pc |-> "record", passes |-> k.passes, token |-> k.token,
                      seq |-> k.seq, base |-> k.base, mode |-> x.mode, todo |-> x.references]
    OBVIOUS
  <2>2. Goes(w, l)
    BY <1>2, <1>4, <2>1, Zenon DEF Extracted
  <2>3. RevisionAt(k.seq) \in Named
    BY <1>3, RevisionNamed, Zenon DEF Inv
  <2>4. x.mode \in Modes /\ x.references \subseteq References
    BY <1>3, <2>3, ExtractionTyped, Zenon
  <2>5. l \in Locals
    <3>1. l \in Recording
      BY <1>3, <2>1, <2>4, Zenon DEF Recording, Named
    <3> QED  BY <3>1, Zenon DEF Locals
  <2>6. UnitMove /\ jobs' \in 0..MaxJobs /\ faults' \in 0..MaxFaults
    BY <1>1, <1>4, UnitStays, Zenon DEF database, Inv, Typed
  <2>7. AttemptOK(l)
    <3>1. /\ l.pc = "record" /\ l.token = k.token /\ l.seq = k.seq /\ l.base = k.base
          /\ l.mode = x.mode /\ l.todo = x.references
      BY <2>1, Zenon
    <3>2. /\ x \in Extractions(l.base, RevisionAt(l.seq)) /\ x.mode = l.mode
          /\ l.todo \subseteq x.references /\ \A r \in x.references : r \in l.todo
      BY <3>1, <1>4, Zenon
    <3> QED  BY <1>3, <3>1, <3>2, Zenon DEF AttemptOK
  <2>8. AttemptOK(l)'
    <3>1. l.token \in Nat
      BY <1>3, <2>1, Zenon
    <3> QED  BY <2>6, <2>7, <3>1, AttemptKept, Zenon DEF Inv
  <2> QED  BY <1>1, <2>2, <2>5, <2>6, <2>8, MoveKeeps, Zenon
<1>5. ASSUME ExtractFails(w) PROVE Inv'
  <2>1. unit' = Retried(unit, Live) \/ UNCHANGED unit
    BY <1>5, Zenon DEF ExtractFails
  <2>2. UnitMove
    <3>1. CASE UNCHANGED unit
      BY <1>1, <3>1, UnitStays, Zenon DEF database
    <3>2. CASE unit' = Retried(unit, Live)
      <4>1. PICK u, v : u = unit /\ v = unit'
        OBVIOUS
      <4>2. u \in Units /\ Constraints(u) /\ u.attempt \in Nat
        BY <4>1, UnitFields, Zenon DEF Inv, Typed, Ledger, RowsAgree
      <4>3. /\ v \in Units /\ Constraints(v) /\ v.desired = u.desired /\ v.processed = u.processed
            /\ v.token = Null /\ v.target = Null /\ v.attempt = u.attempt
        BY <3>2, <4>1, <4>2, RetriedRow, Zenon
      <4>4. v.attempt >= u.attempt
        BY <4>2, <4>3, SMT
      <4> QED  BY <1>1, <4>1, <4>3, <4>4, Zenon DEF UnitMove
    <3> QED  BY <2>1, <3>1, <3>2
  <2>3. faults' \in 0..MaxFaults /\ JobFails(w)
    BY <1>5, FaultEffect, Zenon DEF ExtractFails, Inv
  <2> QED  BY <1>1, <2>2, <2>3, FailureKeeps, Zenon
<1> QED  BY <1>2, <1>4, <1>5, Zenon DEF Extract

\* One more observation: the frontier row and the unit want it, what is recorded
\* and what is under way stays.
LEMMA ObservedKeeps ==
    ASSUME Inv, NEW version \in DOMAIN History, Observed(version),
           UNCHANGED <<provider, connected, faults, jobs>>, NEW w \in Workers,
           Goes(w, [pc |-> "acquire", passes |-> 0])
    PROVE  Inv'
<1>1. PICK o, n, i, len : /\ o = History[version]
                          /\ n = frontier.observed + 1 /\ i = frontier.ingested
                          /\ len = Len(observations)
  OBVIOUS
<1>2. /\ observations' = Append(observations, o)
      /\ frontier' = [frontier EXCEPT !.observed = n, !.desired = n]
      /\ unit' = Upserted(n)
      /\ UNCHANGED <<evidence, dispositions, completed>>
  BY <1>1, Zenon DEF Observed
<1>3. Typed /\ Ledger /\ RowsAgree
  BY Zenon DEF Inv, Ledger
<1>4. len \in Nat /\ n = len + 1 /\ n \in Nat /\ i \in 0..len /\ unit.desired = len
  <2>1. frontier.observed \in Nat /\ i \in Nat
    BY <1>1, <1>3, Zenon DEF Typed
  <2>2. frontier.observed = len /\ unit.desired = len /\ i <= len
    BY <1>1, <1>3, Zenon DEF RowsAgree, Constraints
  <2> QED  BY <1>1, <2>1, <2>2, SMT
<1>5. PICK S : S = Answers
  OBVIOUS
<1>6. o \in S
  <2>1. History \in Seq(S)
    <3>1. History \in Histories
      BY <1>3, Zenon DEF Typed, History
    <3> QED  BY <1>5, <3>1, SourceIngestionAssumption, Zenon
  <2>2. History[version] \in S
    BY <2>1, SMT
  <2> QED  BY <1>1, <1>5, <2>2, Zenon
<1>7. /\ observations' \in Seq(S) /\ Len(observations') = len + 1
      /\ \A k \in 1..len : observations'[k] = observations[k]
  <2>1. observations \in Seq(S)
    BY <1>3, <1>5, Zenon DEF Typed
  <2> QED  BY <2>1, <1>1, <1>2, <1>6, SMT
<1>8. \A k \in 0..len : RevisionAt(k)' = RevisionAt(k)
  <2>1. ASSUME NEW k \in 0..len PROVE RevisionAt(k)' = RevisionAt(k)
    <3>1. k = 0 \/ k \in 1..len
      BY <1>4, SMT
    <3>2. CASE k = 0
      BY <3>2, Zenon DEF RevisionAt
    <3>3. CASE k \in 1..len
      BY <3>3, <1>7, Zenon DEF RevisionAt
    <3> QED  BY <3>1, <3>2, <3>3
  <2> QED  BY <2>1, Zenon
<1>9. /\ frontier' \in [observed : Nat, desired : Nat, ingested : Nat]
      /\ frontier'.observed = n /\ frontier'.desired = n /\ frontier'.ingested = i
  <2>1. frontier \in [observed : Nat, desired : Nat, ingested : Nat]
    BY <1>3, Zenon DEF Typed
  <2> QED  BY <2>1, <1>1, <1>2, <1>4, Zenon
<1>10. /\ unit' \in Units /\ Constraints(unit') /\ unit'.desired = n /\ unit'.processed = i
       /\ unit'.token = unit.token /\ unit'.target = unit.target /\ unit'.attempt = unit.attempt
  <2>1. PICK u, v : u = unit /\ v = unit'
    OBVIOUS
  <2>2. u \in Units /\ Constraints(u) /\ u.processed = i
    BY <1>1, <1>3, <2>1, Zenon DEF Typed, RowsAgree
  <2>3. n > u.desired
    BY <1>4, <2>1, SMT
  <2>4. v = Wanting(u, n)
    BY <1>2, <2>1, Zenon DEF Upserted, Wanting
  <2>5. /\ v \in Units /\ Constraints(v) /\ v.desired = n /\ v.processed = u.processed
        /\ v.token = u.token /\ v.target = u.target /\ v.attempt = u.attempt
    <3>1. n \in Nat
      BY <1>4
    <3> HIDE DEF Wanting
    <3> QED  BY <2>2, <2>3, <2>4, <3>1, UpsertedRow, SMT
  <2> QED  BY <2>1, <2>2, <2>5, Zenon
<1>11. PICK l : l = [pc |-> "acquire", passes |-> 0]
  OBVIOUS
<1>12. l \in Locals /\ l.pc \notin {"extract", "record"} /\ Goes(w, l)
  <2>1. 0 \in 0..MaxPasses
    BY Bounds, SMT
  <2>2. l.pc = "acquire" /\ l \in [pc : {"acquire"}, passes : 0..MaxPasses]
    BY <1>11, <2>1, Zenon
  <2>3. l \in Locals
    BY <2>2, Zenon DEF Locals
  <2> QED  BY <1>11, <2>2, <2>3, Zenon
<1>13. /\ worker' \in [Workers -> Locals] /\ worker'[w] = l
       /\ \A v \in Workers \ {w} : worker'[v] = worker[v]
  BY <1>3, <1>12, GoesEffect, Zenon
<1>14. Typed'
  <2>1. Locals' = Locals
    BY Zenon DEF Locals, History
  <2>2. (observations \in Seq(Answers))'
    BY <1>5, <1>7, Zenon DEF Answers
  <2>3. (provider \in [history : Histories, head : Nat] /\ head \in DOMAIN History)'
    BY <1>3, Zenon DEF Typed, head, History
  <2> QED  BY <2>1, <2>2, <2>3, <1>2, <1>3, <1>9, <1>10, <1>13, Zenon DEF Typed
<1>15. RowsAgree'
  BY <1>1, <1>4, <1>7, <1>9, <1>10, Zenon DEF RowsAgree
<1>16. DisposedOnce' /\ CoalescedIntoIngested'
  BY <1>1, <1>2, <1>3, <1>9, Zenon DEF Ledger, DisposedOnce, CoalescedIntoIngested
<1>17. ASSUME NEW e \in evidence' PROVE EvidenceOK(e)'
  <2>1. EvidenceOK(e) /\ e.seq \in 1..len
    BY <1>1, <1>2, <1>3, Zenon DEF Ledger, EvidenceOK
  <2>2. e.seq \in 1..(len + 1) /\ e.seq \in 0..len
    BY <1>4, <2>1, SMT
  <2>3. RevisionAt(i)' = RevisionAt(i) /\ RevisionAt(e.seq)' = RevisionAt(e.seq)
    BY <1>4, <1>8, <2>2, Zenon
  <2> QED  BY <1>1, <1>7, <1>9, <1>10, <2>1, <2>2, <2>3, Zenon DEF EvidenceOK
<1>18. LastFull' = LastFull
  BY <1>2, Zenon DEF LastFull
<1>19. CompletionsOK' /\ Limited'
  BY <1>1, <1>2, <1>3, <1>9, <1>18, Zenon DEF Ledger, CompletionsOK, Limited, Recorded
<1>20. EvidenceCoversTree'
  <2>1. View' = View
    BY <1>1, <1>2, <1>9, <1>18, Zenon DEF View
  <2>2. Served(i)' = Served(i)
    BY <1>4, <1>8, Zenon DEF Served
  <2>3. Served(frontier.ingested)' = Served(frontier.ingested)
    BY <1>1, <1>9, <2>2, Zenon DEF Served, RevisionAt
  <2>4. NothingCut' = NothingCut
    BY <1>2, <1>18, Zenon DEF NothingCut
  <2> QED  BY <1>3, <2>1, <2>3, <2>4, Zenon DEF Ledger, EvidenceCoversTree
<1>21. ASSUME NEW v \in Workers PROVE AttemptOK(worker[v])'
  <2>1. CASE v = w
    BY <2>1, <1>12, <1>13, Zenon DEF AttemptOK
  <2>2. CASE v # w
    <3>1. PICK k : k = worker[v]
      OBVIOUS
    <3>2. AttemptOK(k) /\ worker'[v] = k
      BY <1>13, <2>2, <3>1, Zenon DEF Inv
    <3>3. CASE k.pc \in {"extract", "record"}
      <4>1. k.seq \in 1..len
        BY <1>1, <3>2, <3>3, Zenon DEF AttemptOK
      <4>2. k.seq \in 1..(len + 1) /\ k.seq \in 0..len
        BY <1>4, <4>1, SMT
      <4>3. RevisionAt(i)' = RevisionAt(i) /\ RevisionAt(k.seq)' = RevisionAt(k.seq)
        BY <1>4, <1>8, <4>2, Zenon
      <4>4. AttemptOK(k)'
        BY <1>1, <1>2, <1>7, <1>9, <1>10, <3>2, <3>3, <4>2, <4>3, Zenon DEF AttemptOK
      <4> QED  BY <3>2, <4>4, Zenon DEF AttemptOK
    <3>4. CASE k.pc \notin {"extract", "record"}
      BY <3>2, <3>4, Zenon DEF AttemptOK
    <3> QED  BY <3>3, <3>4
  <2> QED  BY <2>1, <2>2
<1>22. Ledger'
  BY <1>15, <1>16, <1>17, <1>19, <1>20, Zenon DEF Ledger
<1> QED  BY <1>14, <1>21, <1>22, Zenon DEF Inv

\* An observation is appended, with the frontier and the unit, or none of them.
LEMMA ScheduleKeeps == ASSUME Inv, NEW w \in Workers, Schedule(w) PROVE Inv'
<1>1. UNCHANGED <<provider, connected, faults>> /\ worker[w].pc = "schedule"
  BY Zenon DEF Schedule
<1>2. connected' \in BOOLEAN /\ faults' \in 0..MaxFaults /\ jobs \in 0..MaxJobs
  BY <1>1, Zenon DEF Inv, Typed
<1>3. CASE JobFails(w) /\ UNCHANGED database
  BY <1>1, <1>2, <1>3, UnitStays, FailureKeeps, Zenon
<1>4. CASE UNCHANGED database /\ Goes(w, [pc |-> "acquire", passes |-> 0]) /\ UNCHANGED jobs
  <2>1. PICK l : l = [pc |-> "acquire", passes |-> 0]
    OBVIOUS
  <2>2. 0 \in 0..MaxPasses
    BY Bounds, SMT
  <2>3. l.pc = "acquire" /\ l \in [pc : {"acquire"}, passes : 0..MaxPasses]
    BY <2>1, <2>2, Zenon
  <2>4. l \in Locals /\ l.pc \notin {"extract", "record"} /\ Goes(w, l)
    BY <1>4, <2>1, <2>3, Zenon DEF Locals
  <2>5. AttemptOK(l)'
    BY <2>4, NoAttempt, Zenon
  <2> QED  BY <1>1, <1>2, <1>4, <2>4, <2>5, UnitStays, MoveKeeps, Zenon
<1>5. CASE Observed(worker[w].seen) /\ Goes(w, [pc |-> "acquire", passes |-> 0]) /\ UNCHANGED jobs
  <2>1. worker[w].seen \in DOMAIN History
    BY <1>1, WorkerFields, Zenon DEF Inv
  <2> QED  BY <1>1, <1>5, <2>1, ObservedKeeps, Zenon
<1> QED  BY <1>3, <1>4, <1>5, Zenon DEF Schedule

\* Evidence beyond the frontier does not show.
LEMMA ViewOfMore ==
    ASSUME NEW z, ~(z.seq <= frontier.ingested), evidence' = evidence \cup {z},
           UNCHANGED frontier, LastFull' = LastFull
    PROVE  View' = View
<1>1. ASSUME NEW f
      PROVE  (/\ f \in evidence' /\ f.ref.kind # "DELETION"
              /\ LastFull' <= f.seq /\ f.seq <= frontier'.ingested
              /\ \A g \in evidence' :
                    f.seq < g.seq /\ g.seq <= frontier'.ingested => ~Touches(g, f.ref.path))
             <=> (/\ f \in evidence /\ f.ref.kind # "DELETION"
                  /\ LastFull <= f.seq /\ f.seq <= frontier.ingested
                  /\ \A g \in evidence :
                        f.seq < g.seq /\ g.seq <= frontier.ingested => ~Touches(g, f.ref.path))
  BY Zenon
<1>2. \A g, p : Touches(g, p)' <=> Touches(g, p)
  BY Zenon DEF Touches
<1> QED  BY <1>1, <1>2, Zenon DEF View

\* A reference of the attempt that has the lease is beyond the frontier: what the
\* evidence shows up to there stays.
LEMMA RecordReferenceKeeps == ASSUME Inv, NEW w \in Workers, RecordReference(w) PROVE Inv'
<1>1. /\ UNCHANGED <<provider, observations, frontier, unit, dispositions, completed, connected, faults>>
      /\ worker[w].pc = "record"
  BY Zenon DEF RecordReference
<1>2. connected' \in BOOLEAN /\ faults' \in 0..MaxFaults /\ jobs \in 0..MaxJobs
  BY <1>1, Zenon DEF Inv, Typed
<1>3. CASE JobFails(w) /\ UNCHANGED evidence
  <2>1. UNCHANGED database
    BY <1>1, <1>3, Zenon DEF database
  <2> QED  BY <1>1, <1>2, <1>3, <2>1, UnitStays, FailureKeeps, Zenon
<1>4. ASSUME NEW r \in worker[w].todo, Leases(w), Fits(worker[w].seq, r), UNCHANGED jobs,
             evidence' = evidence \cup {[seq |-> worker[w].seq, ref |-> r]},
             Goes(w, [worker[w] EXCEPT !.todo = @ \ {r}])
      PROVE  Inv'
  <2>1. PICK k, z, i : k = worker[w] /\ z = [seq |-> k.seq, ref |-> r] /\ i = frontier.ingested
    OBVIOUS
  <2>2. Typed /\ Ledger /\ AttemptOK(k) /\ k.pc = "record"
    BY <1>1, <2>1, Zenon DEF Inv
  <2>3. /\ k \in Recording /\ k.seq \in Nat /\ k.base \in Named /\ k.token \in Nat
        /\ k.todo \subseteq References
    BY <1>1, <2>1, <2>2, WorkerFields, AttemptFields, Zenon
  <2>4. k.token = unit.token /\ k.seq = unit.target /\ k.seq \in 1..Len(observations)
        /\ k.base = RevisionAt(i)
    BY <1>4, <2>1, <2>2, Zenon DEF Leases, HoldsUnit, AttemptOK
  <2>5. PICK x \in Extractions(k.base, RevisionAt(k.seq)) :
            /\ x.mode = k.mode /\ k.todo \subseteq x.references
            /\ \A q \in x.references : q \in k.todo \/ [seq |-> k.seq, ref |-> q] \in evidence
    BY <2>2, <2>4, Zenon DEF AttemptOK
  <2>6. i < k.seq /\ i \in Nat /\ k.seq > i /\ k.seq <= k.seq
    <3>1. i \in Nat /\ unit.processed = i /\ Constraints(unit) /\ unit.target # Null
      <4>1. k.seq # Null
        BY <2>3, SMT DEF Null
      <4> QED  BY <2>1, <2>2, <2>4, <4>1, Zenon DEF Typed, Ledger, RowsAgree
    <3>2. i < k.seq
      BY <2>4, <3>1, Zenon DEF Constraints
    <3> QED  BY <2>3, <3>1, <3>2, SMT
  <2>7. evidence' = evidence \cup {z} /\ z.seq = k.seq /\ z.ref = r
    BY <1>4, <2>1, Zenon
  <2>8. \A n : RevisionAt(n)' = RevisionAt(n)
    BY <1>1, Zenon DEF RevisionAt
  <2>9. PICK l : l = [k EXCEPT !.todo = @ \ {r}]
    OBVIOUS
  <2>10. /\ l \in Recording /\ l.pc = "record" /\ l.token = k.token /\ l.seq = k.seq
         /\ l.base = k.base /\ l.mode = k.mode /\ l.todo = k.todo \ {r} /\ Goes(w, l)
    <3>1. k.todo \ {r} \subseteq References
      BY <2>3, Zenon
    <3>2. l = [k EXCEPT !.todo = k.todo \ {r}]
      BY <2>9, Zenon
    <3>3. /\ l \in Recording /\ l.pc = "record" /\ l.token = k.token /\ l.seq = k.seq
          /\ l.base = k.base /\ l.mode = k.mode /\ l.todo = k.todo \ {r}
      BY <2>2, <2>3, <3>1, <3>2, Zenon DEF Recording
    <3> QED  BY <1>4, <2>1, <2>9, <3>3, Zenon
  <2>11. l \in Locals
    BY <2>10, Zenon DEF Locals
  <2>12. /\ worker' \in [Workers -> Locals] /\ worker'[w] = l
         /\ \A v \in Workers \ {w} : worker'[v] = worker[v]
    BY <2>2, <2>10, <2>11, GoesEffect, Zenon
  <2>13. Typed'
    <3>1. Locals' = Locals
      BY <1>1, Zenon DEF Locals, History
    <3>2. z \in [seq : Nat, ref : References]
      BY <1>4, <2>1, <2>3, Zenon
    <3>3. evidence' \subseteq [seq : Nat, ref : References]
      BY <2>2, <2>7, <3>2, Zenon DEF Typed
    <3>4. (observations \in Seq(Answers))'
      BY <1>1, <2>2, Zenon DEF Typed, Answers
    <3>5. (provider \in [history : Histories, head : Nat] /\ head \in DOMAIN History)'
      BY <1>1, <2>2, Zenon DEF Typed, head, History
    <3> QED  BY <3>1, <3>3, <3>4, <3>5, <1>1, <1>2, <1>4, <2>2, <2>12, Zenon DEF Typed
  <2>14. RowsAgree' /\ DisposedOnce' /\ CoalescedIntoIngested'
    BY <1>1, <2>2, Zenon DEF Ledger, RowsAgree, DisposedOnce, CoalescedIntoIngested
  <2>15. ASSUME NEW e \in evidence' PROVE EvidenceOK(e)'
    <3>1. CASE e \in evidence
      BY <1>1, <2>2, <2>8, <3>1, Zenon DEF Ledger, EvidenceOK
    <3>2. CASE e = z
      <4>1. r \in x.references
        BY <1>4, <2>1, <2>5, Zenon
      <4> QED  BY <1>1, <2>1, <2>4, <2>5, <2>6, <2>7, <2>8, <3>2, <4>1, Zenon DEF EvidenceOK
    <3> QED  BY <2>7, <2>15, <3>1, <3>2, Zenon
  <2>16. LastFull' = LastFull
    BY <1>1, Zenon DEF LastFull
  <2>17. CompletionsOK' /\ Limited'
    <3>1. CompletionsOK'
      BY <1>1, <2>2, <2>16, Zenon DEF Ledger, CompletionsOK
    <3>2. ASSUME NEW n PROVE IsFiniteSet(Recorded(n)') /\ Cardinality(Recorded(n)') <= MaxReferences
      <4>1. IsFiniteSet(Recorded(n)) /\ Cardinality(Recorded(n)) <= MaxReferences
        BY <2>2, Zenon DEF Ledger, Limited
      <4>2. CASE n # k.seq \/ r \in Recorded(k.seq)
        <5>1. Recorded(n)' = Recorded(n)
          BY <2>7, <4>2, Zenon DEF Recorded
        <5> QED  BY <4>1, <5>1, Zenon
      <4>3. CASE n = k.seq /\ r \notin Recorded(k.seq)
        <5>1. Recorded(n)' = Recorded(n) \cup {r}
          BY <2>7, <4>3, Zenon DEF Recorded
        <5>2. /\ IsFiniteSet(Recorded(n) \cup {r})
              /\ Cardinality(Recorded(n) \cup {r}) = Cardinality(Recorded(n)) + 1
          BY <4>1, <4>3, FS_AddElement, Zenon
        <5>3. Cardinality(Recorded(n)) < MaxReferences
          BY <1>4, <2>1, <4>3, Zenon DEF Fits
        <5>4. Cardinality(Recorded(n)) \in Nat /\ MaxReferences \in Nat
          BY <4>1, FS_CardinalityType, SourceIngestionAssumption, Zenon
        <5>5. Cardinality(Recorded(n)) + 1 <= MaxReferences
          BY <5>3, <5>4, SMT
        <5> QED  BY <5>1, <5>2, <5>5, Zenon
      <4> QED  BY <4>2, <4>3, Zenon
    <3> QED  BY <3>1, <3>2, Zenon DEF Limited
  <2>18. EvidenceCoversTree'
    <3>1. ~(z.seq <= i)
      BY <2>3, <2>6, <2>7, SMT
    <3>2. View' = View
      BY <1>1, <2>1, <2>7, <2>16, <3>1, ViewOfMore, Zenon
    <3>3. Served(frontier.ingested)' = Served(frontier.ingested)
      BY <1>1, <2>8, Zenon DEF Served
    <3>4. NothingCut' = NothingCut
      BY <1>1, <2>16, Zenon DEF NothingCut
    <3> QED  BY <2>2, <3>2, <3>3, <3>4, Zenon DEF Ledger, EvidenceCoversTree
  <2>19. ASSUME NEW v \in Workers PROVE AttemptOK(worker[v])'
    <3>1. CASE v = w
      <4>1. \A q \in x.references : q \in l.todo \/ [seq |-> l.seq, ref |-> q] \in evidence'
        BY <2>1, <2>5, <2>7, <2>10, Zenon
      <4>2. x \in Extractions(l.base, RevisionAt(l.seq)) /\ x.mode = l.mode /\ l.todo \subseteq x.references
        BY <2>5, <2>10, Zenon
      <4>3. AttemptOK(l)'
        BY <1>1, <2>2, <2>4, <2>8, <2>10, <4>1, <4>2, Zenon DEF AttemptOK
      <4> QED  BY <2>12, <3>1, <4>3, Zenon DEF AttemptOK
    <3>2. CASE v # w
      <4>1. PICK j : j = worker[v]
        OBVIOUS
      <4>2. AttemptOK(j) /\ worker'[v] = j
        BY <2>12, <3>2, <4>1, Zenon DEF Inv
      <4>3. AttemptOK(j)'
        BY <1>1, <2>7, <2>8, <4>2, Zenon DEF AttemptOK
      <4> QED  BY <4>2, <4>3, Zenon DEF AttemptOK
    <3> QED  BY <3>1, <3>2
  <2>20. Ledger'
    BY <2>14, <2>15, <2>17, <2>18, Zenon DEF Ledger
  <2> QED  BY <2>13, <2>19, <2>20, Zenon DEF Inv
<1> QED  BY <1>3, <1>4, Zenon DEF RecordReference
-------------------------------------------------------------------------------
(* What a compare changes                                                  *)

\* A compare draws up every eligible file that is new or changed,
LEMMA CompareNew ==
    ASSUME NEW b, NEW t, NEW f \in Changed(b, t), f \in Eligible
    PROVE  \E r \in CompareReferences(b, t) :
              r.kind # "DELETION" /\ r.path = f[1] /\ r.blob = f[2]
<1>1. CASE RenamedFrom(b, t, f) = {}
  <2>1. PICK r : r = Reference("FILE", f[1], "", f[2])
    OBVIOUS
  <2>2. r.kind = "FILE" /\ r.path = f[1] /\ r.blob = f[2]
    BY <2>1, Zenon DEF Reference
  <2>3. r \in CompareReferences(b, t)
    BY <1>1, <2>1, CompareReference, Zenon
  <2> QED  BY <2>2, <2>3, Zenon
<1>2. CASE RenamedFrom(b, t, f) # {}
  <2>1. PICK p \in RenamedFrom(b, t, f) : TRUE
    BY <1>2, Zenon
  <2>2. PICK r : r = Reference("RENAMED_FILE", f[1], p, f[2])
    OBVIOUS
  <2>3. r.kind = "RENAMED_FILE" /\ r.path = f[1] /\ r.blob = f[2]
    BY <2>2, Zenon DEF Reference
  <2>4. r \in CompareReferences(b, t)
    BY <2>1, <2>2, CompareReference, Zenon
  <2> QED  BY <2>3, <2>4, Zenon
<1> QED  BY <1>1, <1>2

\* and names every path that went away, unless its file was renamed into one
\* that is not eligible.
LEMMA CompareGone ==
    ASSUME NEW b, NEW t, NEW p \in PathsOf(Tree[b]), p \notin PathsOf(Tree[t])
    PROVE  \/ p \in RenamedAway
           \/ \E r \in CompareReferences(b, t) : r.path = p \/ r.previous = p
<1>1. CASE p \in Removed(b, t)
  <2>1. PICK r : r = Reference("DELETION", p, "", "")
    OBVIOUS
  <2>2. r.path = p
    BY <2>1, Zenon DEF Reference
  <2>3. r \in CompareReferences(b, t)
    BY <1>1, <2>1, CompareReference, Zenon
  <2> QED  BY <2>2, <2>3, Zenon
<1>2. CASE p \notin Removed(b, t)
  <2>1. PICK f \in Changed(b, t) : p \in RenamedFrom(b, t, f)
    BY <1>2, Zenon DEF Removed
  <2>2. CASE f \in Eligible
    <3>1. PICK r : r = Reference("RENAMED_FILE", f[1], p, f[2])
      OBVIOUS
    <3>2. r.previous = p
      BY <3>1, Zenon DEF Reference
    <3>3. r \in CompareReferences(b, t)
      BY <2>1, <2>2, <3>1, CompareReference, Zenon
    <3> QED  BY <3>2, <3>3, Zenon
  <2>3. CASE f \notin Eligible
    <3>1. PICK s \in Renames : s[2] = t /\ s[4] = f[1] /\ p = s[3]
      BY <2>1, Zenon DEF RenamedFrom
    <3>2. f \in Tree[s[2]] \ Eligible
      BY <2>3, <3>1, Zenon DEF Changed
    <3> QED  BY <3>1, <3>2, Zenon DEF RenamedAway
  <2> QED  BY <2>2, <2>3
<1> QED  BY <1>1, <1>2

\* A reference that touches the path of a file of the target is to that file:
\* what is deleted or renamed away is no path of the target.
LEMMA SaysShows ==
    ASSUME NEW b, NEW t \in Revisions, NEW r, Says(b, t, r), NEW f \in Tree[t],
           r.path = f[1] \/ r.previous = f[1]
    PROVE  r.kind # "DELETION" /\ r.path = f[1] /\ r.blob = f[2]
<1>1. f[1] # "" /\ f[1] \in PathsOf(Tree[t]) /\ \A g \in Tree[t] : f[1] = g[1] => f = g
  BY FileFields, Zenon DEF PathsOf
<1>2. ASSUME NEW h \in Tree[t], r.path = h[1], r.blob = h[2],
             \/ r.kind = "FILE" /\ r.previous = ""
             \/ r.kind = "RENAMED_FILE" /\ \E s \in Renames : s[2] = t /\ r.previous = s[3]
      PROVE  r.kind # "DELETION" /\ r.path = f[1] /\ r.blob = f[2]
  <2>1. r.previous # f[1]
    <3>1. ASSUME NEW s \in Renames, s[2] = t PROVE s[3] # f[1]
      BY <1>1, <3>1, SourceIngestionAssumption, Zenon
    <3> QED  BY <1>1, <1>2, <3>1, Zenon
  <2>2. r.path = f[1]
    BY <2>1
  <2>3. f = h
    BY <1>1, <1>2, <2>2, Zenon
  <2>4. r.kind # "DELETION"
    BY <1>2
  <2> QED  BY <1>2, <2>2, <2>3, <2>4, Zenon
<1>3. CASE r.path \notin PathsOf(Tree[t]) /\ r.previous = ""
  BY <1>1, <1>3, Zenon
<1> QED  BY <1>2, <1>3, Zenon DEF Says

-------------------------------------------------------------------------------
(* What the evidence shows                                                 *)

\* The reference e of the evidence E is the last one to its path, between the
\* sequences lo and hi.
Shows(E, lo, hi, e) ==
    /\ e \in E /\ e.ref.kind # "DELETION" /\ lo <= e.seq /\ e.seq <= hi
    /\ \A g \in E : e.seq < g.seq /\ g.seq <= hi => ~Touches(g, e.ref.path)

\* What EvidenceCoversTree says of a revision r, element by element.
Covers(E, lo, hi, r) ==
    /\ \A f \in FilesOf(r) : f \in Eligible =>
          \E e \in E : Shows(E, lo, hi, e) /\ f[1] = e.ref.path /\ f[2] = e.ref.blob
    /\ \A e \in E : Shows(E, lo, hi, e) =>
          e.ref.path \in PathsOf(FilesOf(r)) \/ e.ref.path \in RenamedAway

\* What View is of the evidence E between lo and hi.
Shown(E, lo, hi) == {<<e.ref.path, e.ref.blob>> : e \in {f \in E : Shows(E, lo, hi, f)}}

\* The evidence covers a tree if it does so element by element.
LEMMA CoversShown ==
    ASSUME NEW E, NEW lo, NEW hi, NEW r \in Named
    PROVE  Covers(E, lo, hi, r) <=>
             /\ FilesOf(r) \cap Eligible \subseteq Shown(E, lo, hi)
             /\ PathsOf(Shown(E, lo, hi)) \subseteq PathsOf(FilesOf(r)) \cup RenamedAway
<1>1. ASSUME NEW v
      PROVE  v \in Shown(E, lo, hi) <=> \E e \in E : /\ Shows(E, lo, hi, e)
                                                   /\ v = <<e.ref.path, e.ref.blob>>
  BY Zenon DEF Shown
<1>2. ASSUME NEW f \in FilesOf(r)
      PROVE  f \in Shown(E, lo, hi) <=> \E e \in E : /\ Shows(E, lo, hi, e)
                                                   /\ f[1] = e.ref.path /\ f[2] = e.ref.blob
  <2>1. r \in Revisions /\ f \in Tree[r]
    BY Zenon DEF FilesOf, Named
  <2>2. f = <<f[1], f[2]>>
    BY <2>1, FileFields, Zenon
  <2>3. \A e : f = <<e.ref.path, e.ref.blob>> <=> f[1] = e.ref.path /\ f[2] = e.ref.blob
    BY <2>2, SMT
  <2>4. f \in Shown(E, lo, hi) <=> \E e \in E : /\ Shows(E, lo, hi, e)
                                              /\ f = <<e.ref.path, e.ref.blob>>
    BY <1>1, Zenon
  <2> QED  BY <2>3, <2>4, Zenon
<1>3. ASSUME NEW p
      PROVE  p \in PathsOf(Shown(E, lo, hi)) <=> \E e \in E : Shows(E, lo, hi, e) /\ p = e.ref.path
  <2>1. p \in PathsOf(Shown(E, lo, hi)) <=> \E v \in Shown(E, lo, hi) : p = v[1]
    BY Zenon DEF PathsOf
  <2>2. \A e : <<e.ref.path, e.ref.blob>>[1] = e.ref.path
    BY SMT
  <2>3. ASSUME NEW v \in Shown(E, lo, hi), p = v[1]
        PROVE  \E e \in E : Shows(E, lo, hi, e) /\ p = e.ref.path
    <3>1. PICK e \in E : Shows(E, lo, hi, e) /\ v = <<e.ref.path, e.ref.blob>>
      BY <1>1, Zenon
    <3> QED  BY <2>2, <2>3, <3>1, Zenon
  <2>4. ASSUME NEW e \in E, Shows(E, lo, hi, e), p = e.ref.path
        PROVE  \E v \in Shown(E, lo, hi) : p = v[1]
    <3>1. PICK v : v = <<e.ref.path, e.ref.blob>>
      OBVIOUS
    <3>2. v \in Shown(E, lo, hi) /\ v[1] = p
      BY <1>1, <2>2, <2>4, <3>1, Zenon
    <3> QED  BY <3>2, Zenon
  <2> QED  BY <2>1, <2>3, <2>4, Zenon
<1> QED  BY <1>2, <1>3, Zenon DEF Covers

\* A completion at n of an attempt from i that drew up x: of the evidence E it
\* keeps F, the references up to i and those at n.
Completes(E, F, i, n, b, t, x) ==
    /\ i \in Nat /\ n \in Nat /\ i < n /\ b \in Named /\ t \in Named
    /\ \A e : e \in F <=> e \in E /\ (e.seq <= i \/ e.seq = n)
    /\ \A e \in E : e.seq \in Nat /\ e.seq <= n
    /\ \A e \in E : e.seq = n => \E y \in Extractions(b, t) : e.ref \in y.references
    /\ x \in Extractions(b, t) /\ \A r \in x.references : [seq |-> n, ref |-> r] \in E

\* What is recorded at the target says what the target is,
LEMMA NewSays ==
    ASSUME NEW E, NEW F, NEW i, NEW n, NEW b, NEW t, NEW x, Completes(E, F, i, n, b, t, x),
           NEW e \in F, e.seq = n
    PROVE  t # "REF_DELETED" /\ t \in Revisions /\ Says(b, t, e.ref)
<1>1. PICK y \in Extractions(b, t) : e.ref \in y.references
  BY Zenon DEF Completes
<1>2. t # "REF_DELETED" /\ Says(b, t, e.ref) /\ t \in Named
  BY <1>1, ExtractionSays, Zenon DEF Completes
<1> QED  BY <1>2, Zenon DEF Named

\* is the last to its path, and is to a path of it unless it is a deletion.
LEMMA NewShows ==
    ASSUME NEW E, NEW F, NEW i, NEW n, NEW b, NEW t, NEW x, Completes(E, F, i, n, b, t, x),
           NEW lo, lo <= n, NEW e \in F, e.seq = n, e.ref.kind # "DELETION"
    PROVE  Shows(F, lo, n, e) /\ e.ref.path \in PathsOf(FilesOf(t))
<1>1. n \in Nat /\ \A g \in F : g.seq \in Nat
  BY Zenon DEF Completes
<1>2. Shows(F, lo, n, e)
  <2>1. lo <= e.seq /\ e.seq <= n /\ \A g \in F : ~(e.seq < g.seq /\ g.seq <= n)
    BY <1>1, SMT
  <2> QED  BY <2>1, Zenon DEF Shows
<1>3. t # "REF_DELETED" /\ Says(b, t, e.ref)
  BY NewSays, Zenon
<1>4. PICK f \in Tree[t] : e.ref.path = f[1]
  BY <1>3, Zenon DEF Says
<1>5. f \in FilesOf(t)
  BY <1>3, <1>4, Zenon DEF FilesOf
<1> QED  BY <1>2, <1>4, <1>5, Zenon DEF PathsOf

\* A reference that was drawn up is kept.
LEMMA DrawnUpKept ==
    ASSUME NEW E, NEW F, NEW i, NEW n, NEW b, NEW t, NEW x, Completes(E, F, i, n, b, t, x)
    PROVE  \A r \in x.references : \E e \in F : e.seq = n /\ e.ref = r
<1>1. SUFFICES ASSUME NEW r \in x.references PROVE \E e \in F : e.seq = n /\ e.ref = r
  OBVIOUS
<1>2. PICK e : e = [seq |-> n, ref |-> r]
  OBVIOUS
<1>3. e \in E /\ e.seq = n /\ e.ref = r
  BY <1>2, Zenon DEF Completes
<1>4. e \in F
  BY <1>3, Zenon DEF Completes
<1> QED  BY <1>3, <1>4, Zenon

\* A full walk that is not cut covers the target whatever was there before.
LEMMA FullCovers ==
    ASSUME NEW E, NEW F, NEW i, NEW n, NEW b, NEW t, NEW x, Completes(E, F, i, n, b, t, x),
           x.mode # "INCREMENTAL_COMPARE", Cardinality(x.references) # MaxReferences
    PROVE  Covers(F, n, n, t)
<1>1. n \in Nat /\ (\A g \in F : g.seq \in Nat) /\ n <= n
  <2>1. n \in Nat /\ \A g \in F : g.seq \in Nat
    BY Zenon DEF Completes
  <2> QED  BY <2>1, SMT
<1>2. ASSUME NEW f \in FilesOf(t), f \in Eligible
      PROVE  \E e \in F : Shows(F, n, n, e) /\ f[1] = e.ref.path /\ f[2] = e.ref.blob
  <2>1. t # "REF_DELETED" /\ f \in Tree[t]
    BY Zenon DEF FilesOf
  <2>2. x.references = TreeReferences(t)
    BY <2>1, ExtractionCases, Zenon DEF ByMode, Completes, CutOrWhole
  <2>3. PICK r : r = Reference("FILE", f[1], "", f[2])
    OBVIOUS
  <2>4. r.kind = "FILE" /\ r.path = f[1] /\ r.blob = f[2]
    BY <2>3, Zenon DEF Reference
  <2>5. r \in x.references
    BY <1>2, <2>1, <2>2, <2>3, TreeReference, ZenonT(40)
  <2>6. PICK e \in F : e.seq = n /\ e.ref = r
    BY <2>5, DrawnUpKept, SMT
  <2>7. e.ref.kind # "DELETION"
    BY <2>4, <2>6
  <2>8. Shows(F, n, n, e)
    BY <1>1, <2>6, <2>7, NewShows, Zenon
  <2> QED  BY <2>4, <2>6, <2>8, Zenon
<1>3. ASSUME NEW e \in F, Shows(F, n, n, e) PROVE e.ref.path \in PathsOf(FilesOf(t))
  <2>1. e.seq = n /\ e.ref.kind # "DELETION"
    <3>1. n <= e.seq /\ e.seq <= n /\ e.ref.kind # "DELETION"
      BY <1>3, Zenon DEF Shows
    <3> QED  BY <1>1, <3>1, SMT
  <2> QED  BY <1>1, <2>1, NewShows, Zenon
<1> QED  BY <1>2, <1>3, Zenon DEF Covers

\* What was shown is shown still, unless something new touches its path.
LEMMA OldShows ==
    ASSUME NEW E, NEW F, NEW i, NEW n, NEW b, NEW t, NEW x, Completes(E, F, i, n, b, t, x),
           NEW lo, NEW e, e.seq <= i
    PROVE  Shows(F, lo, n, e) <=>
             /\ Shows(E, lo, i, e)
             /\ \A g \in F : g.seq = n => ~Touches(g, e.ref.path)
<1>1. /\ i \in Nat /\ n \in Nat /\ i < n
      /\ \A g : g \in F <=> g \in E /\ (g.seq <= i \/ g.seq = n)
      /\ \A g \in E : g.seq \in Nat
  BY Zenon DEF Completes
<1>2. CASE e \in E
  <2>1. e \in F /\ e.seq \in Nat
    BY <1>1, <1>2, Zenon
  <2>2. e.seq <= n /\ e.seq < n
    BY <1>1, <2>1, SMT
  <2>3. ASSUME NEW g \in E
        PROVE  /\ g.seq <= i => g.seq <= n
               /\ g.seq = n => e.seq < g.seq /\ g.seq <= n
    BY <1>1, <2>1, SMT
  <2>4. ASSUME Shows(F, lo, n, e)
        PROVE  Shows(E, lo, i, e) /\ \A g \in F : g.seq = n => ~Touches(g, e.ref.path)
    BY <1>1, <1>2, <2>3, <2>4, Zenon DEF Shows
  <2>5. ASSUME Shows(E, lo, i, e), \A g \in F : g.seq = n => ~Touches(g, e.ref.path)
        PROVE  Shows(F, lo, n, e)
    <3>1. ASSUME NEW g \in F, e.seq < g.seq PROVE ~Touches(g, e.ref.path)
      <4>1. CASE g.seq = n
        BY <2>5, <4>1
      <4>2. CASE g.seq <= i
        BY <1>1, <2>5, <3>1, <4>2, Zenon DEF Shows
      <4> QED  BY <1>1, <4>1, <4>2, Zenon
    <3>2. e.ref.kind # "DELETION" /\ lo <= e.seq
      BY <2>5, Zenon DEF Shows
    <3> QED  BY <2>1, <2>2, <3>1, <3>2, Zenon DEF Shows
  <2> QED  BY <2>4, <2>5
<1>3. CASE e \notin E
  BY <1>1, <1>3, Zenon DEF Shows
<1> QED  BY <1>2, <1>3

\* A compare that is not cut brings what covers the base to cover the target.
LEMMA CompareCovers ==
    ASSUME NEW E, NEW F, NEW i, NEW n, NEW b, NEW t, NEW x, Completes(E, F, i, n, b, t, x),
           x.mode = "INCREMENTAL_COMPARE", Cardinality(x.references) # MaxReferences, NEW lo \in Nat, lo <= i, Covers(E, lo, i, b)
    PROVE  Covers(F, lo, n, t)
<1>1. /\ i \in Nat /\ n \in Nat /\ i < n /\ b \in Named /\ t \in Named
      /\ \A g : g \in F <=> g \in E /\ (g.seq <= i \/ g.seq = n)
      /\ \A g \in E : g.seq \in Nat
  BY Zenon DEF Completes
<1>2. lo <= n
  BY <1>1, SMT
<1>3. /\ b \in Revisions /\ t \in Revisions /\ FilesOf(b) = Tree[b] /\ FilesOf(t) = Tree[t]
      /\ b # t => x.references = CompareReferences(b, t)
  <2>1. /\ b # "REF_DELETED" /\ t # "REF_DELETED"
        /\ b # t => x.references = CompareReferences(b, t)
    BY ExtractionCases, Zenon DEF ByMode, Completes, CutOrWhole
  <2> QED  BY <1>1, <2>1, Zenon DEF Named, FilesOf
<1>4. ASSUME NEW f \in FilesOf(t), f \in Eligible
      PROVE  \E e \in F : Shows(F, lo, n, e) /\ f[1] = e.ref.path /\ f[2] = e.ref.blob
  <2>1. f \in Tree[t]
    BY <1>3, <1>4
  <2>2. CASE f \notin Tree[b]
    <3>1. f \in Changed(b, t) /\ b # t
      BY <2>1, <2>2, Zenon DEF Changed
    <3>2. PICK r \in x.references : r.kind # "DELETION" /\ r.path = f[1] /\ r.blob = f[2]
      <4>1. \E r \in CompareReferences(b, t) :
              r.kind # "DELETION" /\ r.path = f[1] /\ r.blob = f[2]
        BY <1>4, <3>1, CompareNew, Zenon
      <4> QED  BY <1>3, <3>1, <4>1, Zenon
    <3>3. PICK e \in F : e.seq = n /\ e.ref = r
      BY <3>2, DrawnUpKept, SMT
    <3>4. e.ref.kind # "DELETION"
      BY <3>2, <3>3, Zenon
    <3>5. Shows(F, lo, n, e)
      BY <1>2, <3>3, <3>4, NewShows, Zenon
    <3> QED  BY <3>2, <3>3, <3>5, Zenon
  <2>3. CASE f \in Tree[b]
    <3>1. PICK e \in E : Shows(E, lo, i, e) /\ f[1] = e.ref.path /\ f[2] = e.ref.blob
      BY <1>3, <1>4, <2>3, Zenon DEF Covers
    <3>2. CASE \A g \in F : g.seq = n => ~Touches(g, f[1])
      <4>1. e.seq <= i /\ e \in F
        BY <1>1, <3>1, Zenon DEF Shows
      <4>2. Shows(F, lo, n, e)
        BY <3>1, <3>2, <4>1, OldShows, Zenon
      <4> QED  BY <3>1, <4>1, <4>2, Zenon
    <3>3. ASSUME NEW g \in F, g.seq = n, Touches(g, f[1])
          PROVE  \E d \in F : Shows(F, lo, n, d) /\ f[1] = d.ref.path /\ f[2] = d.ref.blob
      <4>1. Says(b, t, g.ref)
        BY <3>3, NewSays, Zenon
      <4>2. g.ref.path = f[1] \/ g.ref.previous = f[1]
        BY <3>3, Zenon DEF Touches
      <4>3. g.ref.kind # "DELETION" /\ g.ref.path = f[1] /\ g.ref.blob = f[2]
        <5>1. PICK r : r = g.ref
          OBVIOUS
        <5>2. t \in Revisions /\ Says(b, t, r) /\ (r.path = f[1] \/ r.previous = f[1])
          BY <1>3, <4>1, <4>2, <5>1, Zenon
        <5>3. r.kind # "DELETION" /\ r.path = f[1] /\ r.blob = f[2]
          BY <2>1, <5>2, SaysShows, SMT
        <5> QED  BY <5>1, <5>3, Zenon
      <4>4. Shows(F, lo, n, g)
        BY <1>2, <3>3, <4>3, NewShows, Zenon
      <4> QED  BY <4>3, <4>4, Zenon
    <3> QED  BY <3>2, <3>3, Zenon
  <2> QED  BY <2>2, <2>3
<1>5. ASSUME NEW e \in F, Shows(F, lo, n, e)
      PROVE  e.ref.path \in PathsOf(FilesOf(t)) \/ e.ref.path \in RenamedAway
  <2>1. CASE e.seq = n
    BY <1>2, <1>5, <2>1, NewShows, Zenon DEF Shows
  <2>2. CASE e.seq <= i
    <3>1. Shows(E, lo, i, e) /\ e \in E /\ \A g \in F : g.seq = n => ~Touches(g, e.ref.path)
      BY <1>1, <1>5, <2>2, OldShows, Zenon
    <3>2. e.ref.path \in PathsOf(Tree[b]) \/ e.ref.path \in RenamedAway
      BY <1>3, <3>1, Zenon DEF Covers
    <3>3. ASSUME e.ref.path \in PathsOf(Tree[b]), e.ref.path \notin PathsOf(Tree[t])
          PROVE  e.ref.path \in RenamedAway
      <4>1. b # t
        BY <3>3, Zenon
      <4>2. ASSUME NEW r \in x.references, r.path = e.ref.path \/ r.previous = e.ref.path
            PROVE  FALSE
        <5>1. PICK g \in F : g.seq = n /\ g.ref = r
          BY DrawnUpKept, SMT
        <5>2. Touches(g, e.ref.path)
          BY <4>2, <5>1, Zenon DEF Touches
        <5> QED  BY <3>1, <5>1, <5>2, Zenon
      <4>3. PICK p : p = e.ref.path
        OBVIOUS
      <4>4. \/ p \in RenamedAway
            \/ \E r \in CompareReferences(b, t) : r.path = p \/ r.previous = p
        <5>1. p \in PathsOf(Tree[b]) /\ p \notin PathsOf(Tree[t])
          BY <3>3, <4>3, Zenon
        <5> QED  BY <5>1, CompareGone, SMT
      <4> QED  BY <1>3, <4>1, <4>2, <4>3, <4>4, Zenon
    <3> QED  BY <1>3, <3>2, <3>3, Zenon
  <2> QED  BY <1>1, <1>5, <2>1, <2>2, Zenon
<1> QED  BY <1>4, <1>5, Zenon DEF Covers
-------------------------------------------------------------------------------
(* Completion                                                              *)

\* Max finds the greatest element.
LEMMA MaxOf ==
    ASSUME NEW S, S \subseteq Nat, NEW m \in S, \A y \in S : y <= m
    PROVE  Max(S) = m
<1>1. PICK c : c = Max(S)
  OBVIOUS
<1>2. \A y \in S : m >= y
  BY SMT
<1>3. c \in S /\ \A y \in S : c >= y
  BY <1>1, <1>2, Zenon DEF Max
<1>4. c = m
  BY <1>3, SMT
<1> QED  BY <1>1, <1>4

\* What a completion at n makes of the dispositions D up to i: those up to n.
Over(s, n) == [seq |-> s, value |-> "COALESCED", coveredBy |-> n]
Disposes(D, G, i, n, c) ==
    /\ i \in Nat /\ n \in Nat /\ i < n
    /\ {d.seq : d \in D} = 1..i
    /\ c.seq = n /\ c.value # "COALESCED"
    /\ \A d : d \in G <=> d \in D \/ d = c \/ \E s \in (i + 1)..(n - 1) : d = Over(s, n)

\* A disposition of G is old, the last, or of a sequence passed over.
DisposedAs(D, i, n, c, d) ==
    \/ d \in D /\ d.seq \in 1..i
    \/ d = c /\ d.seq = n
    \/ /\ d = Over(d.seq, n) /\ d.value = "COALESCED" /\ d.coveredBy = n
       /\ d.seq \in (i + 1)..(n - 1)

\* A disposition after a completion is an old one, the one recorded, or one it covers.
LEMMA DisposedCases ==
    ASSUME NEW D, NEW G, NEW i, NEW n, NEW c, Disposes(D, G, i, n, c)
    PROVE  \A d \in G : DisposedAs(D, i, n, c, d)
<1> SUFFICES ASSUME NEW d \in G PROVE DisposedAs(D, i, n, c, d)
  OBVIOUS
<1>1. CASE d \in D
  BY <1>1, Zenon DEF Disposes, DisposedAs
<1>2. CASE d = c
  BY <1>2, Zenon DEF Disposes, DisposedAs
<1>3. ASSUME NEW s \in (i + 1)..(n - 1), d = Over(s, n)
      PROVE  DisposedAs(D, i, n, c, d)
  <2>1. d.seq = s /\ d.value = "COALESCED" /\ d.coveredBy = n
    BY <1>3, Zenon DEF Over
  <2> QED  BY <1>3, <2>1, Zenon DEF DisposedAs
<1> QED  BY <1>1, <1>2, <1>3, Zenon DEF Disposes

\* Each sequence up to n is disposed of, once.
LEMMA DisposedStep ==
    ASSUME NEW D, NEW G, NEW i, NEW n, NEW c, Disposes(D, G, i, n, c),
           \A d, e \in D : d.seq = e.seq => d = e
    PROVE  /\ {d.seq : d \in G} = 1..n
           /\ \A d, e \in G : d.seq = e.seq => d = e
<1>1. i \in Nat /\ n \in Nat /\ i < n /\ c.seq = n /\ {d.seq : d \in D} = 1..i
  BY Zenon DEF Disposes
<1>2. ASSUME NEW d \in G PROVE d.seq \in 1..n
  <2>1. d.seq \in 1..i \/ d.seq = n \/ d.seq \in (i + 1)..(n - 1)
    <3>1. DisposedAs(D, i, n, c, d)
      BY DisposedCases
    <3> QED  BY <3>1, Zenon DEF DisposedAs
  <2> QED  BY <1>1, <2>1, SMT
<1>3. ASSUME NEW s \in 1..n PROVE \E d \in G : d.seq = s
  <2>1. s \in 1..i \/ s = n \/ s \in (i + 1)..(n - 1)
    BY <1>1, SMT
  <2>2. CASE s \in 1..i
    <3>1. PICK d \in D : d.seq = s
      BY <1>1, <2>2, Zenon
    <3>2. d \in G
      BY <3>1, Zenon DEF Disposes
    <3> QED  BY <3>1, <3>2, Zenon
  <2>3. CASE s = n
    <3>1. c \in G
      BY Zenon DEF Disposes
    <3> QED  BY <1>1, <2>3, <3>1, Zenon
  <2>4. CASE s \in (i + 1)..(n - 1)
    <3>1. PICK d : d = Over(s, n)
      OBVIOUS
    <3>2. d \in G /\ d.seq = s
      BY <2>4, <3>1, Zenon DEF Disposes, Over
    <3> QED  BY <3>2, Zenon
  <2> QED  BY <2>1, <2>2, <2>3, <2>4
<1>4. ASSUME NEW d \in G, NEW e \in G, d.seq = e.seq PROVE d = e
  <2>1. \/ d \in D /\ d.seq \in 1..i
        \/ d = c /\ d.seq = n
        \/ d = Over(d.seq, n) /\ d.seq \in (i + 1)..(n - 1)
    <3>1. DisposedAs(D, i, n, c, d)
      BY DisposedCases
    <3> QED  BY <3>1, Zenon DEF DisposedAs
  <2>2. \/ e \in D /\ e.seq \in 1..i
        \/ e = c /\ e.seq = n
        \/ e = Over(e.seq, n) /\ e.seq \in (i + 1)..(n - 1)
    <3>1. DisposedAs(D, i, n, c, e)
      BY DisposedCases
    <3> QED  BY <3>1, Zenon DEF DisposedAs
  <2>3. /\ \A s \in 1..i : s # n /\ s \notin (i + 1)..(n - 1)
        /\ n \notin (i + 1)..(n - 1)
    BY <1>1, SMT
  <2> QED  BY <1>4, <2>1, <2>2, <2>3, Zenon
<1>5. {d.seq : d \in G} = 1..n
  <2>1. PICK S : S = 1..n
    OBVIOUS
  <2>2. {d.seq : d \in G} = S
    <3>1. \A s : s \in {d.seq : d \in G} <=> \E d \in G : s = d.seq
      BY Zenon
    <3>2. \A s : s \in {d.seq : d \in G} <=> s \in S
      BY <1>2, <1>3, <2>1, <3>1, Zenon
    <3> QED  BY <3>2, Zenon
  <2> QED  BY <2>1, <2>2
<1> QED  BY <1>4, <1>5, Zenon

\* What CoalescedIntoIngested says of the dispositions D.
Subsumed(D) ==
    \A d \in D : d.value = "COALESCED" =>
        /\ \E c \in D : c.seq = d.coveredBy /\ c.value # "COALESCED"
        /\ \A c \in D : d.seq < c.seq /\ c.seq < d.coveredBy => c.value = "COALESCED"
        /\ d.seq < d.coveredBy

\* What was coalesced stays covered, by an observation that was not.
LEMMA SubsumedStep ==
    ASSUME NEW D, NEW G, NEW i, NEW n, NEW c, Disposes(D, G, i, n, c), Subsumed(D)
    PROVE  Subsumed(G)
<1>1. /\ i \in Nat /\ n \in Nat /\ i < n /\ c.seq = n /\ c.value # "COALESCED" /\ c \in G
      /\ \A d \in D : d.seq \in 1..i /\ d \in G
  BY Zenon DEF Disposes
<1>2. SUFFICES ASSUME NEW d \in G, d.value = "COALESCED"
               PROVE  /\ \E e \in G : e.seq = d.coveredBy /\ e.value # "COALESCED"
                      /\ \A e \in G : d.seq < e.seq /\ e.seq < d.coveredBy => e.value = "COALESCED"
                      /\ d.seq < d.coveredBy
  BY Zenon DEF Subsumed
<1>3. CASE d \in D
  <2>1. PICK a \in D : a.seq = d.coveredBy /\ a.value # "COALESCED"
    BY <1>2, <1>3, Zenon DEF Subsumed
  <2>2. d.coveredBy \in 1..i /\ a \in G
    BY <1>1, <2>1, Zenon
  <2>3. ASSUME NEW e \in G, d.seq < e.seq, e.seq < d.coveredBy PROVE e.value = "COALESCED"
    <3>1. e \in D \/ e.seq = n \/ e.seq \in (i + 1)..(n - 1)
      <4>1. DisposedAs(D, i, n, c, e)
        BY DisposedCases
      <4> QED  BY <4>1, Zenon DEF DisposedAs
    <3>2. e \in D
      BY <1>1, <2>2, <2>3, <3>1, SMT
    <3> QED  BY <1>2, <1>3, <2>3, <3>2, Zenon DEF Subsumed
  <2>4. d.seq < d.coveredBy
    BY <1>2, <1>3, Zenon DEF Subsumed
  <2> QED  BY <2>1, <2>2, <2>3, <2>4, Zenon
<1>4. CASE d \notin D
  <2>1. d.coveredBy = n /\ d.seq \in (i + 1)..(n - 1)
    <3>1. DisposedAs(D, i, n, c, d)
      BY DisposedCases
    <3> QED  BY <1>1, <1>2, <1>4, <3>1, Zenon DEF DisposedAs
  <2>2. d.seq < n
    BY <1>1, <2>1, SMT
  <2>3. ASSUME NEW e \in G, d.seq < e.seq, e.seq < n PROVE e.value = "COALESCED"
    <3>1. \/ e.seq \in 1..i
          \/ e.seq = n
          \/ e.value = "COALESCED"
      <4>1. DisposedAs(D, i, n, c, e)
        BY DisposedCases
      <4> QED  BY <4>1, Zenon DEF DisposedAs
    <3> QED  BY <1>1, <2>1, <2>3, <3>1, SMT
  <2> QED  BY <1>1, <2>1, <2>2, <2>3, Zenon
<1> QED  BY <1>3, <1>4
\* After a processed pass a worker is idle or acquires again; no attempt is under way.
LEMMA PassEffect ==
    ASSUME Typed, NEW w \in Workers, worker[w].pc = "record", NEW f, NextPass(w, f)
    PROVE  /\ jobs' \in 0..MaxJobs /\ worker' \in [Workers -> Locals]
           /\ worker'[w].pc \notin {"extract", "record"}
           /\ \A v \in Workers \ {w} : worker'[v] = worker[v]
<1>1. jobs \in 0..MaxJobs /\ Min({jobs + 1, MaxJobs}) \in 0..MaxJobs
  BY JobsBounded, Zenon DEF Typed
<1>2. PICK p : p = worker[w].passes + 1
  OBVIOUS
<1>3. worker[w].passes \in Nat
  BY AttemptFields, Zenon
<1>4. CASE p < MaxPasses /\ Goes(w, [pc |-> "acquire", passes |-> p]) /\ UNCHANGED jobs
  <2>1. PICK l : l = [pc |-> "acquire", passes |-> p]
    OBVIOUS
  <2>2. p \in 0..MaxPasses
    BY <1>2, <1>3, <1>4, Bounds, SMT
  <2>3. l.pc = "acquire" /\ l \in [pc : {"acquire"}, passes : 0..MaxPasses]
    BY <2>1, <2>2, Zenon
  <2>4. l \in Locals /\ l.pc \notin {"extract", "record"} /\ Goes(w, l)
    BY <1>4, <2>1, <2>3, Zenon DEF Locals
  <2> QED  BY <1>1, <1>4, <2>4, GoesEffect, Zenon
<1>5. CASE Goes(w, Idle) /\ (jobs' = jobs \/ jobs' = Min({jobs + 1, MaxJobs}))
  <2>1. PICK l : l = Idle
    OBVIOUS
  <2>2. l \in Locals /\ l.pc \notin {"extract", "record"} /\ Goes(w, l)
    BY <1>5, <2>1, IdleLocal, Zenon
  <2> QED  BY <1>1, <1>5, <2>2, GoesEffect, Zenon
<1> QED  BY <1>2, <1>4, <1>5, Zenon DEF NextPass

\* What an accepted completion has and does.
LEMMA CompletionEffect ==
    ASSUME NEW w \in Workers, CompleteAccepted(w), NEW n, n = worker[w].seq
    PROVE  /\ worker[w].token = unit.token /\ n = unit.target
           /\ evidence' = KeptEvidence(n) /\ dispositions' = Disposed(n)
           /\ frontier' = [frontier EXCEPT !.ingested = n]
           /\ unit' = Completed(unit, n)
           /\ completed' = completed \cup
                 {[seq |-> n, mode |-> worker[w].mode, count |-> Cardinality(Recorded(n))]}
           /\ \E f : NextPass(w, f)
  BY Zenon DEF CompleteAccepted, Leases, HoldsUnit

\* The last full walk is this one, if it is one.
LEMMA LastFullStep ==
    ASSUME NEW n \in Nat, NEW m \in Modes, NEW k, Typed, CompletionsOK, frontier.ingested < n,
           completed' = completed \cup {[seq |-> n, mode |-> m, count |-> k]}
    PROVE  LastFull' = IF m # "INCREMENTAL_COMPARE" THEN n ELSE LastFull
<1>1. PICK z : z = [seq |-> n, mode |-> m, count |-> k]
  OBVIOUS
<1>2. z.seq = n /\ z.mode = m /\ completed' = completed \cup {z}
  BY <1>1, Zenon
<1>3. CASE m = "INCREMENTAL_COMPARE"
  <2>1. {x \in completed' : x.mode # "INCREMENTAL_COMPARE"} = {x \in completed : x.mode # "INCREMENTAL_COMPARE"}
    BY <1>2, <1>3, Zenon
  <2> QED  BY <1>3, <2>1, Zenon DEF LastFull
<1>4. CASE m # "INCREMENTAL_COMPARE"
  <2>1. PICK S : S = {0} \cup {c.seq : c \in {x \in completed' : x.mode # "INCREMENTAL_COMPARE"}}
    OBVIOUS
  <2>2. \A y \in S : y = 0 \/ y = n \/ \E c \in completed : y = c.seq
    BY <1>2, <2>1, Zenon
  <2>3. n \in S
    BY <1>2, <1>4, <2>1, Zenon
  <2>4. ASSUME NEW y \in S PROVE y \in Nat /\ y <= n
    <3>1. CASE y = 0 \/ y = n
      BY <3>1, SMT
    <3>2. ASSUME NEW c \in completed, y = c.seq PROVE y \in Nat /\ y <= n
      <4>1. c.seq \in Nat /\ c.seq <= frontier.ingested /\ frontier.ingested \in Nat
        BY Zenon DEF Typed, CompletionsOK
      <4> QED  BY <3>2, <4>1, SMT
    <3> QED  BY <2>2, <3>1, <3>2, Zenon
  <2>5. Max(S) = n
    BY <2>3, <2>4, MaxOf, Zenon
  <2> QED  BY <1>4, <2>1, <2>5, Zenon DEF LastFull
<1> QED  BY <1>3, <1>4

\* What the completion disposes of.
LEMMA DisposedDisposes ==
    ASSUME NEW n \in Nat, NEW i, i = frontier.ingested, i \in Nat, i < n, DisposedOnce
    PROVE  \E c : Disposes(dispositions, Disposed(n), i, n, c) /\ (n \in Nat => c \in Dispositions)
<1>1. PICK c : c = [seq |-> n, coveredBy |-> Null,
                    value |-> IF RevisionAt(n) = "REF_DELETED" THEN "REF_DELETED" ELSE "INGESTED"]
  OBVIOUS
<1>2. c.seq = n /\ c.value # "COALESCED" /\ c \in Dispositions
  BY <1>1, Zenon DEF Dispositions
<1>3. ASSUME NEW d
      PROVE  d \in Disposed(n) <=> \/ d \in dispositions \/ d = c
                                   \/ \E s \in (i + 1)..(n - 1) : d = Over(s, n)
  BY <1>1, Zenon DEF Disposed, Skipped, Over
<1> QED  BY <1>2, <1>3, Zenon DEF Disposes, DisposedOnce

\* An accepted completion brings every table to the target of its lease: the
\* rows, the dispositions, and what the evidence shows.
LEMMA AcceptedKeeps ==
    ASSUME Inv, NEW w \in Workers, CompleteAccepted(w), worker[w].pc = "record",
           worker[w].todo = {}, UNCHANGED <<provider, observations, connected, faults>>
    PROVE  Inv'
<1>1. PICK k, n, i, u, v, len, E, F, y :
         /\ y = Cardinality(Recorded(n)) /\ k = worker[w] /\ n = k.seq /\ i = frontier.ingested /\ u = unit /\ v = unit'
         /\ len = Len(observations) /\ E = evidence /\ F = evidence'
  OBVIOUS
<1>2. Typed /\ Ledger /\ AttemptOK(k) /\ k.pc = "record" /\ k.todo = {}
  BY <1>1, Zenon DEF Inv
<1>3. RowsAgree /\ DisposedOnce /\ CoalescedIntoIngested /\ CompletionsOK /\ EvidenceCoversTree
  BY <1>2, Zenon DEF Ledger
<1>4. /\ k.token = u.token /\ n = u.target
      /\ F = KeptEvidence(n) /\ dispositions' = Disposed(n)
      /\ frontier' = [frontier EXCEPT !.ingested = n]
      /\ v = Completed(u, n)
      /\ completed' = completed \cup {[seq |-> n, mode |-> k.mode, count |-> y]}
      /\ \E f : NextPass(w, f)
  BY <1>1, CompletionEffect, Zenon
<1>5. k.token \in Nat /\ k.mode \in Modes /\ k.base = RevisionAt(i) /\ n \in 1..len
  BY <1>1, <1>2, <1>4, AttemptFields, Zenon DEF AttemptOK
<1>6. /\ v \in Units /\ Constraints(v) /\ v.desired = u.desired /\ v.processed = n
      /\ v.token = Null /\ v.target = Null
      /\ n \in Nat /\ u.processed < n
  <2>1. u \in Units /\ Constraints(u)
    BY <1>1, <1>2, <1>3, Zenon DEF Typed, RowsAgree
  <2>2. u.token # Null
    BY <1>4, <1>5, SMT DEF Null
  <2>3. v = Completed(u, n) /\ n = u.target
    BY <1>4
  <2> QED  BY <2>1, <2>2, <2>3, CompletedRow, SMT
<1>7. i \in Nat /\ i < n /\ len \in Nat /\ n <= len /\ frontier.observed = len
  <2>1. u.processed = i /\ i \in Nat /\ frontier.observed \in Nat /\ frontier.observed = len
    BY <1>1, <1>2, <1>3, Zenon DEF Typed, RowsAgree
  <2> QED  BY <1>5, <1>6, <2>1, SMT
<1>8. PICK b, t : b = RevisionAt(i) /\ t = RevisionAt(n)
  OBVIOUS
<1>9. b \in Named /\ t \in Named /\ \A m : RevisionAt(m)' = RevisionAt(m)
  BY <1>1, <1>2, <1>5, <1>8, RevisionNamed, Zenon DEF RevisionAt
<1>10. PICK x \in Extractions(b, t) :
          x.mode = k.mode /\ \A r \in x.references : [seq |-> n, ref |-> r] \in E
  BY <1>1, <1>2, <1>4, <1>5, <1>8, Zenon DEF AttemptOK
<1>11. Completes(E, F, i, n, b, t, x)
  <2>1. ASSUME NEW e \in E PROVE e.seq \in Nat /\ e.seq <= n
    <3>1. EvidenceOK(e) /\ n # Null
      <4>1. n # Null
        BY <1>6, SMT DEF Null
      <4> QED  BY <1>1, <1>2, <4>1, Zenon DEF Ledger
    <3>2. e.seq \in Nat
      BY <1>1, <1>2, <2>1, Zenon DEF Typed
    <3> QED  BY <1>1, <1>4, <3>1, <3>2, Zenon DEF EvidenceOK
  <2>2. ASSUME NEW e \in E, e.seq = n PROVE \E z \in Extractions(b, t) : e.ref \in z.references
    <3>1. EvidenceOK(e) /\ e.seq > i
      BY <1>1, <1>2, <1>7, <2>2, SMT DEF Ledger
    <3> QED  BY <1>1, <1>8, <2>2, <3>1, Zenon DEF EvidenceOK
  <2>3. ASSUME NEW e PROVE e \in F <=> e \in E /\ (e.seq <= i \/ e.seq = n)
    <3>1. e \in F <=> e \in E /\ e.seq \notin (i + 1)..(n - 1)
      BY <1>1, <1>4, Zenon DEF KeptEvidence, Skipped
    <3>2. e \in E => (e.seq \notin (i + 1)..(n - 1) <=> e.seq <= i \/ e.seq = n)
      BY <1>6, <1>7, <2>1, SMT
    <3> QED  BY <3>1, <3>2, Zenon
  <2> QED  BY <1>6, <1>7, <1>9, <1>10, <2>1, <2>2, <2>3, Zenon DEF Completes
<1>12. PICK j, m : j = LastFull /\ m = LastFull'
  OBVIOUS
<1>13. /\ j \in Nat /\ j <= i /\ m = IF k.mode # "INCREMENTAL_COMPARE" THEN n ELSE j
  <2>1. j \in 0..i
    BY <1>1, <1>3, <1>12, Zenon DEF CompletionsOK
  <2>2. m = IF k.mode # "INCREMENTAL_COMPARE" THEN n ELSE j
    BY <1>1, <1>2, <1>3, <1>4, <1>5, <1>6, <1>7, <1>12, LastFullStep, Zenon
  <2> QED  BY <1>7, <2>1, <2>2, SMT
<1>14. y \in 0..MaxReferences /\ (y < MaxReferences => Cardinality(x.references) # MaxReferences)
  <2>1. IsFiniteSet(Recorded(n)) /\ y <= MaxReferences /\ y = Cardinality(Recorded(n))
    BY <1>1, <1>2, Zenon DEF Ledger, Limited
  <2>2. x.references \in SUBSET Recorded(n)
    <3>1. ASSUME NEW q \in x.references PROVE q \in Recorded(n)
      <4>1. PICK e : e = [seq |-> n, ref |-> q]
        OBVIOUS
      <4>2. e \in evidence /\ e.seq = n /\ e.ref = q
        BY <1>1, <1>10, <4>1, Zenon
      <4> QED  BY <4>2, Zenon DEF Recorded
    <3> QED  BY <3>1, Zenon
  <2>3. IsFiniteSet(x.references) /\ Cardinality(x.references) <= y
    BY <2>1, <2>2, FS_Subset, Zenon
  <2>4. Cardinality(x.references) \in Nat /\ y \in Nat /\ MaxReferences \in Nat
    BY <2>1, <2>3, FS_CardinalityType, SourceIngestionAssumption, Zenon
  <2> QED  BY <2>1, <2>3, <2>4, SMT
<1>29. ASSUME NothingCut' PROVE Covers(F, m, n, t)
  <2>1. y < MaxReferences
    <3>1. PICK c : c = [seq |-> n, mode |-> k.mode, count |-> y]
      OBVIOUS
    <3>2. c \in completed' /\ c.seq = n /\ c.count = y
      BY <1>4, <3>1, Zenon
    <3>3. m <= n
      BY <1>6, <1>7, <1>13, SMT
    <3> QED  BY <1>12, <1>29, <3>2, <3>3, Zenon DEF NothingCut
  <2>2. Cardinality(x.references) # MaxReferences
    BY <1>14, <2>1
  <2>3. CASE k.mode # "INCREMENTAL_COMPARE"
    BY <1>10, <1>11, <1>13, <2>2, <2>3, FullCovers, Zenon
  <2>4. CASE k.mode = "INCREMENTAL_COMPARE"
    <3>1. FilesOf(b) = Served(i) /\ View = Shown(E, j, i)
      BY <1>1, <1>8, <1>12, Zenon DEF FilesOf, Served, View, Shown, Shows
    <3>2. NothingCut
      <4>1. m = j /\ completed \subseteq completed'
        BY <1>4, <1>13, <2>4, Zenon
      <4> QED  BY <1>12, <1>29, <4>1, Zenon DEF NothingCut
    <3>3. Covers(E, j, i, b)
      BY <1>1, <1>3, <1>9, <3>1, <3>2, CoversShown, Zenon DEF EvidenceCoversTree
    <3> QED  BY <1>10, <1>11, <1>13, <2>2, <2>4, <3>3, CompareCovers, Zenon
  <2> QED  BY <2>3, <2>4
<1>15. /\ frontier' \in [observed : Nat, desired : Nat, ingested : Nat]
       /\ frontier'.observed = frontier.observed /\ frontier'.desired = frontier.desired
       /\ frontier'.ingested = n
  <2>1. frontier \in [observed : Nat, desired : Nat, ingested : Nat]
    BY <1>2, Zenon DEF Typed
  <2> QED  BY <2>1, <1>4, <1>6, Zenon
<1>16. EvidenceCoversTree'
  <2> SUFFICES ASSUME NothingCut'
               PROVE  (/\ Served(frontier.ingested) \cap Eligible \subseteq View
                       /\ PathsOf(View) \subseteq PathsOf(Served(frontier.ingested)) \cup RenamedAway)'
    BY Zenon DEF EvidenceCoversTree
  <2>1. FilesOf(t) = Served(n)'
    BY <1>8, <1>9, Zenon DEF FilesOf, Served
  <2>2. Served(frontier.ingested)' = FilesOf(t)
    BY <1>15, <2>1, Zenon DEF Served, RevisionAt
  <2>3. View' = Shown(F, m, n)
    BY <1>1, <1>12, <1>15, SMT DEF View, Shown, Shows, Touches
  <2>4. FilesOf(t) \cap Eligible \subseteq Shown(F, m, n)
        /\ PathsOf(Shown(F, m, n)) \subseteq PathsOf(FilesOf(t)) \cup RenamedAway
    BY <1>9, <1>29, CoversShown, Zenon
  <2>5. RenamedAway' = RenamedAway /\ \A S : PathsOf(S)' = PathsOf(S)
    BY Zenon DEF RenamedAway, PathsOf
  <2> QED  BY <2>2, <2>3, <2>4, <2>5, Zenon DEF PathsOf
<1>17. PICK c : Disposes(dispositions, Disposed(n), i, n, c) /\ c \in Dispositions
  BY <1>1, <1>3, <1>6, <1>7, DisposedDisposes, Zenon
<1>18. PICK D, G : D = dispositions /\ G = dispositions'
  OBVIOUS
<1>19. Disposes(D, G, i, n, c)
  BY <1>4, <1>17, <1>18, Zenon
<1>20. DisposedOnce'
  <2>1. \A d, e \in D : d.seq = e.seq => d = e
    BY <1>3, <1>18, Zenon DEF DisposedOnce
  <2>2. {d.seq : d \in G} = 1..n /\ \A d, e \in G : d.seq = e.seq => d = e
    BY <1>19, <2>1, DisposedStep, SMT
  <2> QED  BY <1>15, <1>18, <2>2, Zenon DEF DisposedOnce
<1>21. CoalescedIntoIngested'
  <2>1. Subsumed(D)
    BY <1>3, <1>18, Zenon DEF Subsumed, CoalescedIntoIngested
  <2>2. Subsumed(G)
    BY <1>19, <2>1, SubsumedStep, Zenon
  <2> QED  BY <1>18, <2>2, Zenon DEF Subsumed, CoalescedIntoIngested
<1>22. RowsAgree'
  BY <1>1, <1>3, <1>6, <1>15, Zenon DEF RowsAgree
<1>23. CompletionsOK'
  <2>1. ASSUME NEW d \in completed' PROVE d.seq <= n
    <3>1. CASE d \in completed
      <4>1. d.seq \in Nat /\ d.seq <= i
        BY <1>1, <1>2, <1>3, <3>1, Zenon DEF Typed, CompletionsOK
      <4> QED  BY <1>6, <1>7, <4>1, SMT
    <3>2. CASE d = [seq |-> n, mode |-> k.mode, count |-> y]
      <4>1. d.seq = n
        BY <3>2, Zenon
      <4> QED  BY <1>6, <4>1, SMT
    <3> QED  BY <1>4, <2>1, <3>1, <3>2, Zenon
  <2>2. m \in 0..n
    BY <1>6, <1>7, <1>13, SMT
  <2> QED  BY <1>12, <1>15, <2>1, <2>2, Zenon DEF CompletionsOK
<1>30. Limited'
  <2>1. ASSUME NEW a PROVE IsFiniteSet(Recorded(a)') /\ Cardinality(Recorded(a)') <= MaxReferences
    <3>1. IsFiniteSet(Recorded(a)) /\ Cardinality(Recorded(a)) <= MaxReferences
      BY <1>2, Zenon DEF Ledger, Limited
    <3>2. Recorded(a)' \in SUBSET Recorded(a)
      BY <1>1, <1>4, Zenon DEF Recorded, KeptEvidence
    <3>3. IsFiniteSet(Recorded(a)') /\ Cardinality(Recorded(a)') <= Cardinality(Recorded(a))
      BY <3>1, <3>2, FS_Subset, Zenon
    <3>4. /\ Cardinality(Recorded(a)') \in Nat /\ Cardinality(Recorded(a)) \in Nat
          /\ MaxReferences \in Nat
      BY <3>1, <3>3, FS_CardinalityType, SourceIngestionAssumption, Zenon
    <3>5. PICK p, q : p = Cardinality(Recorded(a)') /\ q = Cardinality(Recorded(a))
      OBVIOUS
    <3>6. p <= MaxReferences
      BY <3>1, <3>3, <3>4, <3>5, SMT
    <3> QED  BY <3>3, <3>5, <3>6, Zenon
  <2> QED  BY <2>1, Zenon DEF Limited
<1>24. ASSUME NEW e \in evidence' PROVE EvidenceOK(e)'
  <2>1. e \in E /\ e.seq \in Nat /\ e.seq <= n /\ e.seq \in 1..len
    BY <1>1, <1>2, <1>11, <1>24, Zenon DEF Completes, Ledger, EvidenceOK
  <2>2. ~(e.seq > n)
    BY <1>6, <2>1, SMT
  <2> QED  BY <1>1, <1>6, <1>15, <2>1, <2>2, Zenon DEF EvidenceOK
<1>25. /\ jobs' \in 0..MaxJobs /\ worker' \in [Workers -> Locals]
       /\ worker'[w].pc \notin {"extract", "record"}
       /\ \A a \in Workers \ {w} : worker'[a] = worker[a]
  BY <1>1, <1>2, <1>4, PassEffect, Zenon
<1>26. ASSUME NEW a \in Workers PROVE AttemptOK(worker[a])'
  <2>1. CASE a = w
    BY <1>25, <2>1, Zenon DEF AttemptOK
  <2>2. CASE a # w
    <3>1. PICK l : l = worker[a]
      OBVIOUS
    <3>2. worker'[a] = l /\ AttemptOK(l)
      BY <1>25, <2>2, <3>1, Zenon DEF Inv
    <3>3. CASE l.pc \in {"extract", "record"}
      <4>1. l.token \in Nat
        BY <1>2, <3>1, <3>3, AttemptFields, Zenon
      <4>2. l.token # unit'.token
        BY <1>1, <1>6, <4>1, SMT DEF Null
      <4>3. unit'.attempt = unit.attempt
        BY <1>1, <1>2, <1>4, Zenon DEF Completed, UnitReleased, Typed, Units
      <4>4. AttemptOK(l)'
        BY <1>9, <3>2, <3>3, <4>2, <4>3, Zenon DEF AttemptOK
      <4> QED  BY <3>2, <4>4, Zenon DEF AttemptOK
    <3>4. CASE l.pc \notin {"extract", "record"}
      BY <3>2, <3>4, Zenon DEF AttemptOK
    <3> QED  BY <3>3, <3>4
  <2> QED  BY <2>1, <2>2
<1>27. Typed'
  <2>1. Locals' = Locals /\ connected' \in BOOLEAN /\ faults' \in 0..MaxFaults
    BY <1>2, Zenon DEF Locals, History, Typed
  <2>2. evidence' \subseteq [seq : Nat, ref : References]
    BY <1>1, <1>2, <1>11, Zenon DEF Typed, Completes
  <2>3. dispositions' \subseteq Dispositions
    <3>1. ASSUME NEW d \in G PROVE d \in Dispositions
      <4>1. CASE d \in D \/ d = c
        BY <1>2, <1>17, <1>18, <4>1, Zenon DEF Typed
      <4>2. ASSUME NEW s \in (i + 1)..(n - 1), d = Over(s, n) PROVE d \in Dispositions
        <5>1. s \in Nat
          BY <1>6, <1>7, SMT
        <5> QED  BY <1>6, <4>2, <5>1, Zenon DEF Over, Dispositions
      <4> QED  BY <1>19, <3>1, <4>1, <4>2, Zenon DEF Disposes
    <3> QED  BY <1>18, <3>1, Zenon
  <2>4. completed' \subseteq [seq : Nat, mode : Modes, count : 0..MaxReferences]
    <3>1. [seq |-> n, mode |-> k.mode, count |-> y]
            \in [seq : Nat, mode : Modes, count : 0..MaxReferences]
      BY <1>5, <1>6, <1>14, Zenon
    <3> QED  BY <1>2, <1>4, <3>1, Zenon DEF Typed
  <2>5. (observations \in Seq(Answers))'
    BY <1>2, Zenon DEF Typed, Answers
  <2>6. (provider \in [history : Histories, head : Nat] /\ head \in DOMAIN History)'
    BY <1>2, Zenon DEF Typed, head, History
  <2> QED  BY <1>1, <1>6, <1>15, <1>25, <2>1, <2>2, <2>3, <2>4, <2>5, <2>6, Zenon DEF Typed
<1>28. Ledger'
  BY <1>16, <1>20, <1>21, <1>22, <1>23, <1>24, <1>30, Zenon DEF Ledger
<1> QED  BY <1>26, <1>27, <1>28, Zenon DEF Inv

\* A completion is accepted whole or not at all.
LEMMA CompleteKeeps == ASSUME Inv, NEW w \in Workers, Complete(w) PROVE Inv'
<1>1. UNCHANGED <<provider, observations, connected, faults>> /\ worker[w].pc = "record" /\ worker[w].todo = {}
  BY Zenon DEF Complete
<1>2. CASE CompleteAccepted(w)
  BY <1>1, <1>2, AcceptedKeeps, Zenon
<1>3. CASE JobFails(w) /\ UNCHANGED <<frontier, unit, evidence, dispositions, completed>>
  <2>1. UNCHANGED database /\ faults' \in 0..MaxFaults
    BY <1>1, <1>3, Zenon DEF database, Inv, Typed
  <2> QED  BY <1>1, <1>3, <2>1, UnitStays, FailureKeeps, Zenon
<1> QED  BY <1>2, <1>3, Zenon DEF Complete
-------------------------------------------------------------------------------
(* The invariant holds, and what follows from it                           *)

\* The invariant holds before the first observation.
LEMMA Initially == ASSUME Init PROVE Inv
<1>1. /\ provider \in [history : Histories, head : {1}] /\ observations = << >>
      /\ frontier = [observed |-> 0, desired |-> 0, ingested |-> 0] /\ unit = NewUnit
      /\ evidence = {} /\ dispositions = {} /\ completed = {} /\ connected = TRUE /\ jobs = 0
      /\ worker = [w \in Workers |-> Idle] /\ faults = 0
  BY Zenon DEF Init
<1>2. 0 \in Nat /\ 1 \in Nat /\ 1..0 = {} /\ 0 \in 0..0 /\ 0 <= 0
  BY SMT
<1>3. frontier \in [observed : Nat, desired : Nat, ingested : Nat]
      /\ frontier.observed = 0 /\ frontier.desired = 0 /\ frontier.ingested = 0
  BY <1>1, <1>2, Zenon
<1>4. unit \in Units /\ unit.desired = 0 /\ unit.processed = 0 /\ Constraints(unit)
  <2>1. PICK u : u = unit
    OBVIOUS
  <2>2. Null \in Nat \cup {Null} /\ FALSE \in BOOLEAN
    OBVIOUS
  <2>3. u \in Units
    BY <1>1, <1>2, <2>1, <2>2, Zenon DEF NewUnit, Units
  <2>4. /\ u.desired = 0 /\ u.processed = 0 /\ ~u.followUp
        /\ u.token = Null /\ u.target = Null /\ u.expires = Null
    BY <1>1, <2>1, Zenon DEF NewUnit
  <2>5. Constraints(u)
    BY <2>4, SMT DEF Constraints
  <2> QED  BY <2>1, <2>3, <2>4, <2>5
<1>5. Len(observations) = 0
  BY <1>1, SMT
<1>6. Typed
  <2>1. /\ provider \in [history : Histories, head : Nat] /\ head = 1 /\ History \in Histories
    BY <1>1, <1>2, Zenon DEF head, History
  <2>2. head \in DOMAIN History
    <3>1. History \in Seq(Answers) /\ History # << >>
      BY <2>1, SourceIngestionAssumption, Zenon
    <3> QED  BY <2>1, <3>1, SMT
  <2>3. observations \in Seq(Answers)
    <3>1. PICK S : S = Answers
      OBVIOUS
    <3>2. observations \in Seq(S)
      BY <1>1, SMT
    <3> QED  BY <3>1, <3>2
  <2>4. jobs \in 0..MaxJobs /\ faults \in 0..MaxFaults
    BY <1>1, Bounds, SMT
  <2>5. worker \in [Workers -> Locals]
    BY <1>1, IdleLocal, Zenon
  <2> QED  BY <1>1, <1>3, <1>4, <2>1, <2>2, <2>3, <2>4, <2>5, Zenon DEF Typed
<1>7. RowsAgree
  BY <1>3, <1>4, <1>5, Zenon DEF RowsAgree
<1>8. DisposedOnce /\ CoalescedIntoIngested
  BY <1>1, <1>2, <1>3, Zenon DEF DisposedOnce, CoalescedIntoIngested
<1>9. LastFull = 0
  <2>1. PICK S : S = {0} \cup {c.seq : c \in {x \in completed : x.mode # "INCREMENTAL_COMPARE"}}
    OBVIOUS
  <2>2. S = {0}
    BY <1>1, <2>1, Zenon
  <2>3. S \subseteq Nat /\ 0 \in S /\ \A y \in S : y <= 0
    BY <1>2, <2>2, Zenon
  <2>4. Max(S) = 0
    BY <2>3, MaxOf, Zenon
  <2> QED  BY <2>1, <2>4, Zenon DEF LastFull
<1>10. CompletionsOK
  BY <1>1, <1>2, <1>3, <1>9, Zenon DEF CompletionsOK
<1>11. EvidenceCoversTree
  <2>1. RevisionAt(0) = "REF_DELETED"
    BY SMT DEF RevisionAt
  <2>2. Served(frontier.ingested) = {} /\ View = {}
    BY <1>1, <1>3, <2>1, Zenon DEF Served, View
  <2> QED  BY <2>2, Zenon DEF EvidenceCoversTree, PathsOf
<1>14. Limited
  <2>1. \A n : Recorded(n) = {}
    BY <1>1, Zenon DEF Recorded
  <2>2. IsFiniteSet({}) /\ Cardinality({}) = 0
    BY FS_EmptySet, Zenon
  <2>4. MaxReferences \in Nat
    BY SourceIngestionAssumption, Zenon
  <2>3. 0 <= MaxReferences
    BY <2>4, SMT
  <2> QED  BY <2>1, <2>2, <2>3, Zenon DEF Limited
<1>12. Ledger
  BY <1>14, <1>1, <1>7, <1>8, <1>10, <1>11, Zenon DEF Ledger
<1>13. ASSUME NEW w \in Workers PROVE AttemptOK(worker[w])
  BY <1>1, IdleLocal, Zenon DEF AttemptOK
<1> QED  BY <1>6, <1>12, <1>13, Zenon DEF Inv

\* Every step keeps the invariant.
LEMMA Stepwise == ASSUME Inv, [Next]_vars PROVE Inv'
<1>1. CASE Push \/ Signal
  BY <1>1, PushKeeps, SignalKeeps
<1>2. CASE Disconnect \/ Reconnect
  BY <1>2, ConnectionKeeps
<1>3. CASE LeaseRunsOut \/ RetryDue
  BY <1>3, LapseKeeps
<1>4. ASSUME NEW w \in Workers, Step(w) PROVE Inv'
  BY <1>4, TakeJobKeeps, EarlierTargetKeeps, ObserveRefKeeps, ScheduleKeeps, AcquireKeeps, ExtractKeeps,
     RecordReferenceKeeps, CompleteKeeps, Zenon DEF Step
<1>5. ASSUME NEW w \in Workers, Crash(w) PROVE Inv'
  BY <1>5, CrashKeeps
<1>6. CASE UNCHANGED vars
  <2>1. UNCHANGED database
    BY <1>6, Zenon DEF vars, database
  <2>2. UNCHANGED <<worker, connected, jobs, faults, provider>>
    BY <1>6, Zenon DEF vars
  <2>3. connected' \in BOOLEAN /\ jobs' \in 0..MaxJobs /\ faults' \in 0..MaxFaults
    BY <2>2, Zenon DEF Inv, Typed
  <2> QED  BY <2>1, <2>2, <2>3, UnitStays, ProviderStays, EnvironmentKeeps, Zenon
<1> QED  BY <1>1, <1>2, <1>3, <1>4, <1>5, <1>6, Zenon DEF Next

\* The invariant holds throughout.
LEMMA Invariance == Spec => []Inv
<1>1. Init => Inv
  BY Initially
<1>2. Inv /\ [Next]_vars => Inv'
  BY Stepwise
<1> QED  BY <1>1, <1>2, PTL DEF Spec

\* Every variable keeps its type, the local variables of each worker with it.
THEOREM TypeCorrect == Spec => []TypeOK
<1>1. Inv => TypeOK
  <2> SUFFICES ASSUME Inv PROVE TypeOK
    OBVIOUS
  <2>1. Typed
    BY Zenon DEF Inv
  <2>2. ASSUME NEW w \in Workers
        PROVE  \/ worker[w] \in [pc : {"idle", "observe"}]
               \/ worker[w] \in [pc : {"schedule"}, seen : DOMAIN History]
               \/ worker[w] \in [pc : {"acquire"}, passes : 0..MaxPasses]
               \/ worker[w] \in Extracting
               \/ worker[w].pc = "record" /\ worker[w].todo \subseteq References
    <3>1. worker[w] \in Locals
      BY <2>1, Zenon DEF Typed
    <3>2. worker[w] \in Recording => worker[w].pc = "record" /\ worker[w].todo \subseteq References
      BY Zenon DEF Recording
    <3> QED  BY <3>1, <3>2, Zenon DEF Locals
  <2>3. History \in Histories
    BY <2>1, Zenon DEF Typed, History
  <2> QED  BY <2>1, <2>2, <2>3, Zenon DEF Typed, TypeOK, Named, Dispositions
<1> QED  BY <1>1, Invariance, PTL

\* The frontier row, the processing unit and the dispositions agree at every
\* state: each ingested observation is disposed of exactly once.
THEOREM ProgressCorrect == Spec => []ProgressAgrees
<1>1. Inv => ProgressAgrees
  <2> SUFFICES ASSUME Inv PROVE ProgressAgrees
    OBVIOUS
  <2>1. RowsAgree /\ DisposedOnce /\ Typed
    BY Zenon DEF Inv, Ledger
  <2>2. Cardinality(dispositions) = frontier.ingested
    <3>1. PICK i, D : i = frontier.ingested /\ D = dispositions
      OBVIOUS
    <3>2. i \in Nat /\ {d.seq : d \in D} = 1..i /\ \A c, d \in D : c.seq = d.seq => c = d
      BY <2>1, <3>1, Zenon DEF Typed, DisposedOnce
    <3>3. PICK f : f = [s \in 1..i |-> CHOOSE d \in D : d.seq = s]
      OBVIOUS
    <3>4. ASSUME NEW s \in 1..i PROVE f[s] \in D /\ f[s].seq = s
      <4>1. \E d \in D : d.seq = s
        BY <3>2, Zenon
      <4>2. f[s] = CHOOSE d \in D : d.seq = s
        BY <3>3, Zenon
      <4> QED  BY <4>1, <4>2, Zenon
    <3>5. f \in Bijection(1..i, D)
      <4>1. f \in [1..i -> D]
        BY <3>3, <3>4, Zenon
      <4>2. \A a, b \in 1..i : f[a] = f[b] => a = b
        BY <3>4, Zenon
      <4>3. ASSUME NEW d \in D PROVE \E s \in 1..i : f[s] = d
        <5>1. d.seq \in 1..i
          BY <3>2, Zenon
        <5>2. f[d.seq] \in D /\ f[d.seq].seq = d.seq
          BY <3>4, <5>1, Zenon
        <5>3. f[d.seq] = d
          BY <3>2, <5>2, Zenon
        <5> QED  BY <5>1, <5>3, Zenon
      <4> QED  BY <4>1, <4>2, <4>3, Zenon DEF Bijection, Injection, Surjection, IsInjective
    <3>6. IsFiniteSet(1..i) /\ Cardinality(1..i) = i
      BY <3>2, FS_Interval, SMT
    <3>7. Cardinality(D) = i
      BY <3>5, <3>6, FS_Bijection, Zenon DEF ExistsBijection
    <3> QED  BY <3>1, <3>7
  <2> QED  BY <2>1, <2>2, Zenon DEF RowsAgree, DisposedOnce, ProgressAgrees
<1> QED  BY <1>1, Invariance, PTL

\* A coalesced observation is covered by the next one that was ingested itself.
THEOREM CoalescingCorrect == Spec => []CoalescedIntoIngested
<1>1. Inv => CoalescedIntoIngested
  BY Zenon DEF Inv, Ledger
<1> QED  BY <1>1, Invariance, PTL

\* At every ingested frontier, unless an audit event since the last full walk tells
\* that the limit of references was met, the evidence shows each eligible file of
\* the ingested revision and no path it lacks but those renamed to where the policy
\* forbids: for any limit, any finite trees, and every mixture of full walks,
\* compares, lost leases, takeovers and faults.
THEOREM EvidenceComplete == Spec => []EvidenceCoversTree
<1>1. Inv => EvidenceCoversTree
  BY Zenon DEF Inv, Ledger
<1> QED  BY <1>1, Invariance, PTL
=============================================================================
