----------------------- MODULE GitHubConnectionProofs -----------------------
(***************************************************************************)
(* Theorems about the GitHub Sources of any number of Projects, with any   *)
(* deliveries, intents and requests.                                       *)
(***************************************************************************)
EXTENDS GitHubConnection, TLAPS

-------------------------------------------------------------------------------
(* The strongest of some webhook states                                    *)

\* The state s is the strongest of S, and ACTIVE only if nothing was said.
IsStrongest(s, S) ==
    /\ s \in S \cup {"ACTIVE"}
    /\ \A t \in S : Severity[s] >= Severity[t] /\ (t # "ACTIVE" => s # "ACTIVE")

\* The ranks are numbers, and ACTIVE has the lowest.
LEMMA Ranks ==
    /\ \A s \in States : Severity[s] \in 1..5
    /\ Severity["ACTIVE"] = 1 /\ "ACTIVE" \in States
  BY SMT DEF Severity, States

\* One more signal either is the strongest now or leaves the strongest.
LEMMA StrongestOfMore ==
    ASSUME NEW S, S \subseteq States \ {"ACTIVE"}, NEW s, IsStrongest(s, S),
           NEW d \in States \ {"ACTIVE"}
    PROVE  IsStrongest(IF Severity[d] >= Severity[s] THEN d ELSE s, S \cup {d})
<1>1. s \in States /\ Severity[s] \in 1..5 /\ Severity[d] \in 1..5
      /\ \A t \in S : Severity[t] \in 1..5
  BY Ranks, Zenon DEF IsStrongest
<1>2. CASE Severity[d] >= Severity[s]
  <2>1. \A t \in S : Severity[d] >= Severity[t]
    BY <1>1, <1>2, SMT DEF IsStrongest
  <2>2. Severity[d] >= Severity[d]
    BY <1>1, SMT
  <2> QED  BY <1>2, <2>1, <2>2, Zenon DEF IsStrongest
<1>3. CASE ~(Severity[d] >= Severity[s])
  <2>1. Severity[s] >= Severity[d] /\ Severity[s] # 1
    BY <1>1, <1>3, SMT
  <2>2. s # "ACTIVE"
    BY <2>1, Ranks, Zenon
  <2> QED  BY <1>3, <2>1, <2>2, Zenon DEF IsStrongest
<1> QED  BY <1>2, <1>3

(***************************************************************************)
(* The invariant.                                                          *)
(***************************************************************************)
Receipts == [id : Nat, installation : STRING, state : States, at : Nat]
Candidates == [identity : Repositories, verified : Nat, expires : Nat]
Intents == [project : Projects, expires : Nat, consumed : BOOLEAN, candidates : SUBSET Candidates]
Requests == [project : Projects, key : Keys, identity : Repositories]
Events == [project : Projects, intent : Nat, event : {"CONNECTED", "REVERIFIED"}]
Calls == [pc : {"checked"}, intent : Nat, candidate : Candidates, key : Keys, at : Nat]

\* Candidates of one intent belong to one installation, each repository once.
OneInstallation(C) ==
    /\ \A c, d \in C : c.identity[1] = d.identity[1]
    /\ \A c, d \in C : c.identity = d.identity => c = d

Typed ==
    /\ DOMAIN connection \subseteq Projects
    /\ \A p \in DOMAIN connection : connection[p] \in Connections
    /\ fences \subseteq Fences
    /\ receipts \in [Projects -> Seq(Receipts)]
    /\ intents \in Seq(Intents) /\ \A i \in DOMAIN intents : OneInstallation(intents[i].candidates)
    /\ requests \subseteq Requests
    /\ audit \in Seq(Events)
    /\ connecting \in [Projects -> Calls \cup {Idle}]
    /\ now \in 0..MaxTime

\* The call of p holds a confirmed candidate of an intent of p, which nobody
\* takes away as long as the call holds the locks.
CallOK(p, call) ==
    call.pc = "checked" =>
        /\ call.intent \in DOMAIN intents /\ intents[call.intent].project = p
        /\ call.candidate \in intents[call.intent].candidates

\* The signals that p has received since it was connected.
Counted(p) ==
    {receipts[p][n].state : n \in {m \in DOMAIN receipts[p] : receipts[p][m].at >= connection[p].created}}

\* Every connection says the strongest of what has reached it.
SignalsCounted ==
    /\ \A p \in Projects \ DOMAIN connection : receipts[p] = << >>
    /\ \A p \in Projects : \A n \in DOMAIN receipts[p] : receipts[p][n].state # "ACTIVE"
    /\ \A p \in DOMAIN connection : ~Reverified(p) => IsStrongest(connection[p].state, Counted(p))

Inv == Typed /\ (\A p \in Projects : CallOK(p, connecting[p])) /\ RestsOnProof /\ SignalsCounted

-------------------------------------------------------------------------------
(* Frames                                                                  *)

\* The connection and what reached it depend on nothing else.
LEMMA SignalsKept == ASSUME Inv, UNCHANGED <<connection, receipts, audit>> PROVE SignalsCounted'
<1>1. SignalsCounted
  BY Zenon DEF Inv
<1>2. \A p : Reverified(p)' <=> Reverified(p)
  BY Zenon DEF Reverified
<1>3. \A p : Counted(p)' = Counted(p)
  BY Zenon DEF Counted
<1>4. ASSUME NEW p \in DOMAIN connection', ~Reverified(p)'
      PROVE  IsStrongest(connection[p].state, Counted(p))'
  <2>1. IsStrongest(connection[p].state, Counted(p))
    BY <1>1, <1>2, <1>4, Zenon DEF SignalsCounted
  <2>2. connection'[p].state = connection[p].state
    BY Zenon
  <2> QED  BY <2>1, <2>2, <1>3, Zenon DEF IsStrongest
<1> QED  BY <1>1, <1>4, Zenon DEF SignalsCounted

\* The proof of a connection stays, with the intent that was used for it.
LEMMA ProofKept ==
    ASSUME RestsOnProof, DOMAIN connection' = DOMAIN connection,
           \A p \in DOMAIN connection : /\ connection'[p].identity = connection[p].identity
                                        /\ connection'[p].verified = connection[p].verified,
           \A i \in DOMAIN intents : /\ i \in DOMAIN intents'
                                     /\ intents[i].consumed => intents'[i] = intents[i]
    PROVE  RestsOnProof'
<1>1. ASSUME NEW p \in DOMAIN connection'
      PROVE  \E i \in DOMAIN intents' :
                /\ intents'[i].project = p /\ intents'[i].consumed
                /\ \E c \in intents'[i].candidates :
                      /\ c.identity = connection'[p].identity
                      /\ c.verified = connection'[p].verified
  <2>1. PICK i \in DOMAIN intents :
            /\ intents[i].project = p /\ intents[i].consumed
            /\ \E c \in intents[i].candidates :
                  c.identity = connection[p].identity /\ c.verified = connection[p].verified
    BY <1>1, Zenon DEF RestsOnProof
  <2>2. i \in DOMAIN intents' /\ intents'[i] = intents[i]
    BY <2>1, Zenon
  <2>3. PICK c \in intents[i].candidates :
            c.identity = connection[p].identity /\ c.verified = connection[p].verified
    BY <2>1, Zenon
  <2>4. c.identity = connection'[p].identity /\ c.verified = connection'[p].verified
    BY <1>1, <2>3, Zenon
  <2>5. intents'[i].project = p /\ intents'[i].consumed /\ c \in intents'[i].candidates
    BY <2>1, <2>2, <2>3, Zenon
  <2> QED  BY <2>2, <2>4, <2>5, Zenon
<1> QED  BY <1>1, Zenon DEF RestsOnProof

\* The fields of an intent and of a call.
LEMMA IntentFields ==
    ASSUME Typed, NEW i \in DOMAIN intents
    PROVE  /\ intents[i] \in Intents /\ intents[i].project \in Projects
           /\ intents[i].expires \in Nat /\ intents[i].consumed \in BOOLEAN
           /\ intents[i].candidates \subseteq Candidates /\ OneInstallation(intents[i].candidates)
<1>1. intents[i] \in Intents
  BY SMT DEF Typed
<1> QED  BY <1>1, Zenon DEF Typed, Intents

\* What a connect transaction that passed its checks holds.
LEMMA CallFields ==
    ASSUME Typed, NEW p \in Projects, connecting[p].pc = "checked"
    PROVE  /\ connecting[p] \in Calls /\ connecting[p].candidate \in Candidates
           /\ connecting[p].key \in Keys /\ connecting[p].intent \in Nat
<1>1. connecting[p] \in Calls \cup {Idle}
  BY Zenon DEF Typed
<1>2. Idle.pc = "idle"
  BY Zenon DEF Idle
<1>3. connecting[p] \in Calls
  BY <1>1, <1>2, Zenon
<1> QED  BY <1>3, Zenon DEF Calls

\* The columns of a connection row.
LEMMA ConnectionFields ==
    ASSUME Typed, NEW p \in DOMAIN connection
    PROVE  /\ p \in Projects /\ connection[p] \in Connections
           /\ connection[p].identity \in Repositories /\ connection[p].state \in States
           /\ connection[p].verified \in Nat /\ connection[p].created \in Nat
<1>1. p \in Projects /\ connection[p] \in Connections
  BY Zenon DEF Typed
<1> QED  BY <1>1, Zenon DEF Connections

\* The smaller of two numbers.
LEMMA MinOfTwo == ASSUME NEW a \in Nat, NEW b \in Nat PROVE Min({a, b}) \in Nat
<1>1. \E x \in {a, b} : \A y \in {a, b} : x <= y
  BY SMT
<1>2. Min({a, b}) \in {a, b}
  BY <1>1, Zenon DEF Min
<1> QED  BY <1>2, Zenon

-------------------------------------------------------------------------------
(* The steps                                                               *)

\* A new intent has no candidates yet.
LEMMA BeginKeeps == ASSUME Inv, NEW p \in Projects, Begin(p) PROVE Inv'
<1>1. PICK x : x = [project |-> p, expires |-> now + IntentLife, consumed |-> FALSE, candidates |-> {}]
  OBVIOUS
<1>2. /\ intents' = Append(intents, x)
      /\ UNCHANGED <<connection, fences, receipts, requests, audit, connecting, now>>
  BY <1>1, Zenon DEF Begin
<1>3. intents \in Seq(Intents) /\ now + IntentLife \in Nat
  BY GitHubConnectionAssumption, SMT DEF Inv, Typed
<1>4. x \in Intents /\ OneInstallation(x.candidates)
  <2>1. {} \in SUBSET Candidates /\ FALSE \in BOOLEAN
    OBVIOUS
  <2>2. x \in Intents
    BY <1>1, <1>3, <2>1, Zenon DEF Intents
  <2> QED  BY <1>1, <2>2, Zenon DEF OneInstallation
<1>5. /\ intents' \in Seq(Intents)
      /\ \A i \in DOMAIN intents : i \in DOMAIN intents' /\ intents'[i] = intents[i]
      /\ \A i \in DOMAIN intents' : i \in DOMAIN intents \/ intents'[i] = x
  BY <1>2, <1>3, <1>4, SMT
<1>6. Typed'
  <2>1. \A i \in DOMAIN intents' : OneInstallation(intents'[i].candidates)
    BY <1>4, <1>5, IntentFields, Zenon DEF Inv
  <2>2. \A i \in DOMAIN intents' : OneInstallation(intents[i].candidates)'
    BY <2>1, Zenon DEF OneInstallation
  <2> QED  BY <1>2, <1>5, <2>2, Zenon DEF Inv, Typed
<1>7. ASSUME NEW q \in Projects PROVE CallOK(q, connecting[q])'
  BY <1>2, <1>5, Zenon DEF Inv, CallOK
<1>8. RestsOnProof'
  BY <1>2, <1>5, ProofKept, Zenon DEF Inv
<1> QED  BY <1>2, <1>6, <1>7, <1>8, SignalsKept, Zenon DEF Inv

\* A proof recorded again replaces the older one of the same repository.
LEMMA RecordCandidateKeeps ==
    ASSUME Inv, NEW i \in DOMAIN intents, NEW r \in Repositories,
           NEW verified \in 0..now, NEW at \in 0..now, RecordCandidate(i, r, verified, at)
    PROVE  Inv'
<1>1. PICK C, x : /\ x = [identity |-> r, verified |-> verified,
                          expires |-> Min({intents[i].expires, at + ProofLife})]
                  /\ C = {c \in intents[i].candidates : c.identity # r} \cup {x}
  OBVIOUS
<1>2. /\ Unlocked(intents[i].project) /\ ~intents[i].consumed /\ SameInstallation(i, r)
      /\ intents' = [intents EXCEPT ![i].candidates = C]
      /\ UNCHANGED <<connection, fences, receipts, requests, audit, connecting, now>>
  BY <1>1, Zenon DEF RecordCandidate
<1>3. /\ intents[i] \in Intents /\ intents[i].candidates \subseteq Candidates
      /\ intents[i].expires \in Nat /\ OneInstallation(intents[i].candidates)
  BY IntentFields, Zenon DEF Inv
<1>4. intents \in Seq(Intents) /\ verified \in Nat /\ at + ProofLife \in Nat
  BY GitHubConnectionAssumption, SMT DEF Inv, Typed
<1>5. x \in Candidates /\ x.identity = r
  BY <1>1, <1>3, <1>4, MinOfTwo, Zenon DEF Candidates
<1>6. C \subseteq Candidates
  BY <1>1, <1>3, <1>5, Zenon
<1>7. OneInstallation(C)
  <2>1. \A c \in C : c = x \/ (c \in intents[i].candidates /\ c.identity # r)
    BY <1>1, Zenon
  <2>2. \A c \in C : c.identity[1] = r[1]
    BY <2>1, <1>2, <1>5, Zenon DEF SameInstallation
  <2>3. ASSUME NEW c \in C, NEW d \in C, c.identity = d.identity PROVE c = d
    BY <2>1, <2>3, <1>3, <1>5, Zenon DEF OneInstallation
  <2> QED  BY <2>2, <2>3, Zenon DEF OneInstallation
<1>8. PICK y : y = [intents[i] EXCEPT !.candidates = C]
  OBVIOUS
<1>9. y \in Intents /\ y.candidates = C /\ y.project = intents[i].project
  BY <1>3, <1>6, <1>8, Zenon DEF Intents
<1>10. /\ intents' \in Seq(Intents) /\ DOMAIN intents' = DOMAIN intents /\ intents'[i] = y
       /\ \A j \in DOMAIN intents \ {i} : intents'[j] = intents[j]
  <2>1. intents' = [intents EXCEPT ![i] = y]
    BY <1>2, <1>8, Zenon
  <2> QED  BY <2>1, <1>4, <1>9, SMT
<1>11. Typed'
  <2>1. \A j \in DOMAIN intents' : OneInstallation(intents'[j].candidates)
    BY <1>7, <1>9, <1>10, IntentFields, Zenon DEF Inv
  <2>2. \A j \in DOMAIN intents' : OneInstallation(intents[j].candidates)'
    BY <2>1, Zenon DEF OneInstallation
  <2> QED  BY <1>2, <1>10, <2>2, Zenon DEF Inv, Typed
<1>12. ASSUME NEW q \in Projects PROVE CallOK(q, connecting[q])'
  <2>1. CallOK(q, connecting[q])
    BY Zenon DEF Inv
  <2>2. connecting[q].pc = "checked" => connecting[q].intent # i
    BY <2>1, <1>2, Zenon DEF CallOK, Unlocked
  <2> QED  BY <2>1, <2>2, <1>2, <1>10, Zenon DEF CallOK
<1>13. RestsOnProof'
  <2>1. \A j \in DOMAIN intents : intents[j].consumed => intents'[j] = intents[j]
    BY <1>2, <1>10, Zenon
  <2> QED  BY <2>1, <1>2, <1>10, ProofKept, Zenon DEF Inv
<1> QED  BY <1>2, <1>11, <1>12, <1>13, SignalsKept, Zenon DEF Inv

\* The checks read a candidate that is in the intent they lock.
LEMMA ConnectChecksKeeps ==
    ASSUME Inv, NEW i \in DOMAIN intents, NEW key \in Keys, NEW at \in 0..now,
           NEW c \in intents[i].candidates, ConnectChecks(i, c, key, at)
    PROVE  Inv'
<1>1. PICK p, x : /\ p = intents[i].project
                  /\ x = [pc |-> "checked", intent |-> i, candidate |-> c, key |-> key, at |-> at]
  OBVIOUS
<1>2. /\ connecting' = [connecting EXCEPT ![p] = x]
      /\ UNCHANGED <<connection, fences, receipts, intents, requests, audit, now>>
  BY <1>1, Zenon DEF ConnectChecks
<1>3. p \in Projects /\ c \in Candidates
  BY <1>1, IntentFields, Zenon DEF Inv
<1>4. i \in Nat /\ at \in Nat
  BY GitHubConnectionAssumption, SMT DEF Inv, Typed
<1>5. x \in Calls /\ x.intent = i /\ x.candidate = c
  BY <1>1, <1>3, <1>4, Zenon DEF Calls
<1>6. /\ connecting' \in [Projects -> Calls \cup {Idle}] /\ connecting'[p] = x
      /\ \A q \in Projects \ {p} : connecting'[q] = connecting[q]
  BY <1>2, <1>3, <1>5, Zenon DEF Inv, Typed
<1>7. Typed'
  <2>1. \A j \in DOMAIN intents' : OneInstallation(intents[j].candidates)'
    BY <1>2, SMT DEF Inv, Typed, OneInstallation
  <2> QED  BY <1>2, <1>6, <2>1, Zenon DEF Inv, Typed
<1>8. ASSUME NEW q \in Projects PROVE CallOK(q, connecting[q])'
  BY <1>1, <1>2, <1>5, <1>6, Zenon DEF Inv, CallOK
<1>9. RestsOnProof'
  BY <1>2, ProofKept, Zenon DEF Inv
<1> QED  BY <1>2, <1>7, <1>8, <1>9, SignalsKept, Zenon DEF Inv

\* A connect that gives up leaves the tables alone.
LEMMA ConnectEndsKeeps == ASSUME Inv, NEW p \in Projects, ConnectEnds(p) PROVE Inv'
<1>1. /\ connecting' = [connecting EXCEPT ![p] = Idle]
      /\ UNCHANGED <<connection, fences, receipts, intents, requests, audit, now>>
  BY Zenon DEF ConnectEnds
<1>2. /\ connecting' \in [Projects -> Calls \cup {Idle}] /\ connecting'[p] = Idle
      /\ \A q \in Projects \ {p} : connecting'[q] = connecting[q]
  BY <1>1, Zenon DEF Inv, Typed
<1>3. Typed'
  <2>1. \A j \in DOMAIN intents' : OneInstallation(intents[j].candidates)'
    BY <1>1, SMT DEF Inv, Typed, OneInstallation
  <2> QED  BY <1>1, <1>2, <2>1, Zenon DEF Inv, Typed
<1>4. ASSUME NEW q \in Projects PROVE CallOK(q, connecting[q])'
  <2>1. Idle.pc # "checked"
    BY Zenon DEF Idle
  <2> QED  BY <2>1, <1>1, <1>2, Zenon DEF Inv, CallOK
<1>5. RestsOnProof'
  BY <1>1, ProofKept, Zenon DEF Inv
<1> QED  BY <1>1, <1>3, <1>4, <1>5, SignalsKept, Zenon DEF Inv

\* Time passes; what was written stays in the past.
LEMMA TickKeeps == ASSUME Inv, Tick PROVE Inv'
<1>1. /\ UNCHANGED <<connection, fences, receipts, intents, requests, audit, connecting>>
      /\ now' = now + 1 /\ now < MaxTime
  BY Zenon DEF Tick
<1>2. now' \in 0..MaxTime
  BY <1>1, GitHubConnectionAssumption, SMT DEF Inv, Typed
<1>3. Typed'
  BY <1>1, <1>2, Zenon DEF Inv, Typed, OneInstallation
<1>4. \A q \in Projects : CallOK(q, connecting[q])'
  BY <1>1, Zenon DEF Inv, CallOK
<1>5. RestsOnProof'
  BY <1>1, ProofKept, Zenon DEF Inv
<1> QED  BY <1>1, <1>3, <1>4, <1>5, SignalsKept, Zenon DEF Inv

\* What connecting writes on the row of p.
LEMMA ConnectedRow ==
    ASSUME Typed, NEW p \in Projects, NEW call \in Calls, Replaceable(p, call.candidate.identity),
           NEW C, C = Connected(p, call)
    PROVE  /\ DOMAIN C = DOMAIN connection \cup {p}
           /\ \A q \in DOMAIN connection \ {p} : C[q] = connection[q]
           /\ C[p] \in Connections /\ C[p].state = "ACTIVE"
           /\ C[p].identity = call.candidate.identity /\ C[p].verified = call.candidate.verified
<1>1. PICK c : c = call.candidate
  OBVIOUS
<1>2. c \in Candidates /\ c.identity \in Repositories /\ c.verified \in Nat
  BY <1>1, Zenon DEF Calls, Candidates
<1>3. now \in Nat /\ "ACTIVE" \in States
  BY GitHubConnectionAssumption, Ranks, SMT DEF Typed
<1>4. PICK x : x = IF p \in DOMAIN connection
                   THEN [connection[p] EXCEPT !.state = "ACTIVE", !.verified = c.verified]
                   ELSE [identity |-> c.identity, state |-> "ACTIVE", verified |-> c.verified,
                         created |-> now]
  OBVIOUS
<1>5. x \in Connections /\ x.state = "ACTIVE" /\ x.identity = c.identity /\ x.verified = c.verified
  <2>1. CASE p \in DOMAIN connection
    <3>1. connection[p] \in Connections /\ connection[p].identity = c.identity
      BY <1>1, <2>1, ConnectionFields, Zenon DEF Replaceable
    <3>2. x = [connection[p] EXCEPT !.state = "ACTIVE", !.verified = c.verified]
      BY <1>4, <2>1, Zenon
    <3>3. PICK y : y = [connection[p] EXCEPT !.state = "ACTIVE"]
      OBVIOUS
    <3>4. y \in Connections /\ y.state = "ACTIVE" /\ y.identity = c.identity
      BY <1>3, <3>1, <3>3, Zenon DEF Connections
    <3>5. x = [y EXCEPT !.verified = c.verified]
      BY <3>2, <3>3, Zenon
    <3> QED  BY <1>2, <3>4, <3>5, Zenon DEF Connections
  <2>2. CASE p \notin DOMAIN connection
    BY <1>2, <1>3, <1>4, <2>2, SMT DEF Connections
  <2> QED  BY <2>1, <2>2
<1>6. C = [q \in DOMAIN connection \cup {p} |-> IF q # p THEN connection[q] ELSE x]
  BY <1>1, <1>4, Zenon DEF Connected
<1>7. DOMAIN C = DOMAIN connection \cup {p} /\ C[p] = x
  BY <1>6, Zenon
<1>8. \A q \in DOMAIN connection \ {p} : C[q] = connection[q]
  BY <1>6, Zenon
<1> QED  BY <1>1, <1>5, <1>7, <1>8, Zenon

\* Connecting keeps the invariant: it writes ACTIVE on the row of p, which counts
\* nothing before, and only a Reverified row had one.
LEMMA ConnectCommitsKeeps == ASSUME Inv, NEW p \in Projects, ConnectCommits(p) PROVE Inv'
<1>1. PICK call, i, c : call = connecting[p] /\ i = call.intent /\ c = call.candidate
  OBVIOUS
<1>2. /\ call.pc = "checked" /\ Replaceable(p, c.identity) /\ connection' = Connected(p, call)
      /\ intents' = [intents EXCEPT ![i].consumed = TRUE]
      /\ requests' = requests \cup {[project |-> p, key |-> call.key, identity |-> c.identity]}
      /\ connecting' = [connecting EXCEPT ![p] = Idle]
      /\ UNCHANGED <<fences, receipts, now>>
  BY <1>1, Zenon DEF ConnectCommits
<1>3. PICK event : event = IF p \in DOMAIN connection THEN "REVERIFIED" ELSE "CONNECTED"
  OBVIOUS
<1>4. PICK x : x = [project |-> p, intent |-> i, event |-> event]
  OBVIOUS
<1>5. audit' = Append(audit, x)
  BY <1>1, <1>3, <1>4, Zenon DEF ConnectCommits
<1>6. Typed /\ RestsOnProof /\ SignalsCounted /\ CallOK(p, call)
  BY <1>1, Zenon DEF Inv
<1>7. /\ i \in DOMAIN intents /\ intents[i].project = p /\ c \in intents[i].candidates
      /\ call \in Calls /\ call.key \in Keys /\ c \in Candidates /\ i \in Nat
  BY <1>1, <1>2, <1>6, CallFields, Zenon DEF CallOK
<1>8. c.identity \in Repositories
  BY <1>7, Zenon DEF Candidates
<1>9. /\ DOMAIN connection' = DOMAIN connection \cup {p}
      /\ \A q \in DOMAIN connection \ {p} : connection'[q] = connection[q]
      /\ connection'[p] \in Connections /\ connection'[p].state = "ACTIVE"
      /\ connection'[p].identity = c.identity /\ connection'[p].verified = c.verified
  <2>1. Replaceable(p, call.candidate.identity)
    BY <1>1, <1>2, Zenon
  <2>2. PICK C : C = connection' /\ C = Connected(p, call)
    BY <1>2, Zenon
  <2>3. /\ DOMAIN C = DOMAIN connection \cup {p}
        /\ \A q \in DOMAIN connection \ {p} : C[q] = connection[q]
        /\ C[p] \in Connections /\ C[p].state = "ACTIVE"
        /\ C[p].identity = call.candidate.identity /\ C[p].verified = call.candidate.verified
    BY <2>1, <2>2, <1>6, <1>7, ConnectedRow, ZenonT(40)
  <2> QED  BY <2>2, <2>3, <1>1, Zenon
<1>10. PICK y : y = [intents[i] EXCEPT !.consumed = TRUE]
  OBVIOUS
<1>11. intents[i] \in Intents /\ OneInstallation(intents[i].candidates)
  BY <1>6, <1>7, IntentFields, Zenon
<1>12. y \in Intents /\ y.consumed /\ y.project = p /\ y.candidates = intents[i].candidates
  BY <1>7, <1>10, <1>11, Zenon DEF Intents
<1>13. /\ intents' \in Seq(Intents) /\ DOMAIN intents' = DOMAIN intents /\ intents'[i] = y
       /\ \A j \in DOMAIN intents \ {i} : intents'[j] = intents[j]
  <2>1. intents' = [intents EXCEPT ![i] = y]
    BY <1>2, <1>10, Zenon
  <2> QED  BY <2>1, <1>6, <1>7, <1>12, SMT DEF Typed
<1>14. /\ connecting' \in [Projects -> Calls \cup {Idle}] /\ connecting'[p] = Idle
       /\ \A q \in Projects \ {p} : connecting'[q] = connecting[q]
  BY <1>2, <1>6, Zenon DEF Typed
<1>15. /\ audit' \in Seq(Events) /\ Len(audit) + 1 \in DOMAIN audit' /\ audit'[Len(audit) + 1] = x
       /\ \A n \in DOMAIN audit : n \in DOMAIN audit' /\ audit'[n] = audit[n]
       /\ \A n \in DOMAIN audit' : n \in DOMAIN audit \/ audit'[n] = x
  <2>1. event \in {"CONNECTED", "REVERIFIED"}
    BY <1>3, Zenon
  <2>2. x \in Events
    BY <1>4, <1>7, <2>1, Zenon DEF Events
  <2> QED  BY <2>2, <1>5, <1>6, SMT DEF Typed
<1>16. Typed'
  <2>1. DOMAIN connection' \subseteq Projects
    BY <1>6, <1>9, Zenon DEF Typed
  <2>2. \A q \in DOMAIN connection' : connection'[q] \in Connections
    BY <1>6, <1>9, Zenon DEF Typed
  <2>3. \A j \in DOMAIN intents' : OneInstallation(intents'[j].candidates)
    BY <1>6, <1>11, <1>12, <1>13, IntentFields, Zenon
  <2>4. \A j \in DOMAIN intents' : OneInstallation(intents[j].candidates)'
    BY <2>3, Zenon DEF OneInstallation
  <2>5. requests' \subseteq Requests
    <3>1. [project |-> p, key |-> call.key, identity |-> c.identity] \in Requests
      BY <1>7, <1>8, Zenon DEF Requests
    <3> QED  BY <3>1, <1>2, <1>6, Zenon DEF Typed
  <2>6. (\A q \in DOMAIN connection : connection[q] \in Connections)'
    BY <2>2, Zenon DEF Connections
  <2> QED  BY <2>1, <2>4, <2>5, <2>6, <1>2, <1>6, <1>13, <1>14, <1>15, Zenon DEF Typed
<1>17. ASSUME NEW q \in Projects PROVE CallOK(q, connecting[q])'
  <2>1. CASE q = p
    <3>1. Idle.pc # "checked"
      BY Zenon DEF Idle
    <3> QED  BY <2>1, <3>1, <1>14, Zenon DEF CallOK
  <2>2. CASE q # p
    <3>1. CallOK(q, connecting[q]) /\ connecting'[q] = connecting[q]
      BY <2>2, <1>14, Zenon DEF Inv
    <3>2. \A j \in DOMAIN intents : /\ intents'[j].project = intents[j].project
                                    /\ intents'[j].candidates = intents[j].candidates
      BY <1>7, <1>12, <1>13, Zenon
    <3> QED  BY <3>1, <3>2, <1>13, Zenon DEF CallOK
  <2> QED  BY <2>1, <2>2
<1>18. RestsOnProof'
  <2>1. ASSUME NEW q \in DOMAIN connection'
        PROVE  \E j \in DOMAIN intents' :
                  /\ intents'[j].project = q /\ intents'[j].consumed
                  /\ \E e \in intents'[j].candidates :
                        /\ e.identity = connection'[q].identity
                        /\ e.verified = connection'[q].verified
    <3>1. CASE q = p
      <4>1. i \in DOMAIN intents' /\ intents'[i].project = q /\ intents'[i].consumed
        BY <3>1, <1>7, <1>12, <1>13, Zenon
      <4>2. c \in intents'[i].candidates
        BY <1>7, <1>12, <1>13, Zenon
      <4>3. c.identity = connection'[q].identity /\ c.verified = connection'[q].verified
        BY <3>1, <1>9, Zenon
      <4> QED  BY <4>1, <4>2, <4>3, Zenon
    <3>2. CASE q # p
      <4>1. q \in DOMAIN connection /\ connection'[q] = connection[q]
        BY <3>2, <2>1, <1>9, Zenon
      <4>2. PICK j \in DOMAIN intents :
                /\ intents[j].project = q /\ intents[j].consumed
                /\ \E e \in intents[j].candidates :
                      e.identity = connection[q].identity /\ e.verified = connection[q].verified
        BY <4>1, <1>6, Zenon DEF RestsOnProof
      <4>3. j \in DOMAIN intents' /\ intents'[j] = intents[j]
        BY <3>2, <4>2, <1>7, <1>13, Zenon
      <4> QED  BY <4>1, <4>2, <4>3, Zenon
    <3> QED  BY <3>1, <3>2
  <2> QED  BY <2>1, Zenon DEF RestsOnProof
<1>19. ASSUME NEW q \in DOMAIN connection', ~Reverified(q)'
       PROVE  IsStrongest(connection[q].state, Counted(q))'
  <2>1. CASE q = p
    <3>1. p \notin DOMAIN connection
      <4> SUFFICES ASSUME p \in DOMAIN connection PROVE FALSE
        OBVIOUS
      <4>1. x.project = p /\ x.event = "REVERIFIED"
        BY <1>3, <1>4, Zenon
      <4> QED  BY <4>1, <2>1, <1>15, <1>19, Zenon DEF Reverified
    <3>2. receipts[p] = << >>
      BY <3>1, <1>6, Zenon DEF SignalsCounted
    <3>3. Counted(p)' = {}
      BY <3>2, <1>2, SMT DEF Counted
    <3> QED  BY <2>1, <3>3, <1>9, Zenon DEF IsStrongest
  <2>2. CASE q # p
    <3>1. q \in DOMAIN connection /\ connection'[q] = connection[q]
      BY <2>2, <1>9, <1>19, Zenon
    <3>2. ~Reverified(q)
      BY <1>15, <1>19, Zenon DEF Reverified
    <3>3. Counted(q)' = Counted(q)
      BY <3>1, <1>2, Zenon DEF Counted
    <3>4. IsStrongest(connection[q].state, Counted(q))
      BY <3>1, <3>2, <1>6, Zenon DEF SignalsCounted
    <3>5. connection'[q].state = connection[q].state
      BY <3>1, Zenon
    <3>6. PICK s, S : s = connection[q].state /\ S = Counted(q) /\ IsStrongest(s, S)
      BY <3>4, Zenon
    <3>7. connection'[q].state = s /\ Counted(q)' = S
      BY <3>3, <3>5, <3>6, Zenon
    <3>8. IsStrongest(connection'[q].state, Counted(q)')
      BY <3>6, <3>7, Zenon
    <3> QED  BY <3>8, Zenon DEF IsStrongest
  <2> QED  BY <2>1, <2>2
<1>20. SignalsCounted'
  BY <1>2, <1>6, <1>9, <1>19, Zenon DEF SignalsCounted
<1> QED  BY <1>16, <1>17, <1>18, <1>20, Zenon DEF Inv

\* The states that count are those of webhooks.
LEMMA CountedStates ==
    ASSUME Typed, SignalsCounted, NEW p \in Projects
    PROVE  Counted(p) \subseteq States \ {"ACTIVE"}
<1>1. ASSUME NEW n \in DOMAIN receipts[p] PROVE receipts[p][n].state \in States \ {"ACTIVE"}
  <2>1. receipts[p] \in Seq(Receipts)
    BY Zenon DEF Typed
  <2>2. receipts[p][n] \in Receipts
    BY <2>1, SMT
  <2>3. receipts[p][n].state \in States
    BY <2>2, Zenon DEF Receipts
  <2> QED  BY <2>3, Zenon DEF SignalsCounted
<1> QED  BY <1>1, Zenon DEF Counted

\* The sequence u is r with one more x.
Grows(r, u, x) ==
    /\ DOMAIN r \subseteq DOMAIN u /\ \A n \in DOMAIN r : u[n] = r[n]
    /\ \A n \in DOMAIN u : n \in DOMAIN r \/ u[n] = x
    /\ \E n \in DOMAIN u : u[n] = x

\* A signal keeps the invariant: what it adds to the receipts of a connection it
\* also weighs against the state the connection has.
LEMMA SignalKeeps ==
    ASSUME Inv, NEW d \in Deliveries, NEW at \in 0..now, Signal(d, at)
    PROVE  Inv'
<1>1. PICK f, x, s : /\ f = [id |-> d.id, installation |-> d.installation,
                             repository |-> d.repository, state |-> d.state, at |-> at]
                     /\ x = [id |-> d.id, installation |-> d.installation,
                             state |-> d.state, at |-> at]
                     /\ s = d.state
  OBVIOUS
<1>2. /\ fences' = fences \cup {f}
      /\ receipts' = [p \in Projects |->
             IF p \in Touched(d) THEN Append(receipts[p], x) ELSE receipts[p]]
      /\ connection' = [p \in DOMAIN connection |->
             IF p \in Touched(d) /\ Overrides(d, at, connection[p])
             THEN [connection[p] EXCEPT !.state = s]
             ELSE connection[p]]
      /\ UNCHANGED <<intents, requests, audit, connecting, now>>
  BY <1>1, Zenon DEF Signal
<1>3. Typed /\ RestsOnProof /\ SignalsCounted
  BY Zenon DEF Inv
<1>4. d.id \in Nat /\ d.installation \in STRING /\ d.repository \in STRING /\ s \in States \ {"ACTIVE"}
  BY <1>1, GitHubConnectionAssumption, Zenon
<1>5. at \in Nat
  BY <1>3, GitHubConnectionAssumption, SMT DEF Typed
<1>6. f \in Fences /\ x \in Receipts /\ x.state = s /\ x.at = at
  <2>1. f \in Fences
    BY <1>1, <1>4, <1>5, Zenon DEF Fences
  <2>2. x \in Receipts /\ x.state = s /\ x.at = at
    BY <1>1, <1>4, <1>5, Zenon DEF Receipts
  <2> QED  BY <2>1, <2>2
<1>7. ASSUME NEW p \in DOMAIN connection
      PROVE  /\ connection'[p] \in Connections
             /\ connection'[p].identity = connection[p].identity
             /\ connection'[p].verified = connection[p].verified
             /\ connection'[p].created = connection[p].created
             /\ connection'[p].state = IF p \in Touched(d) /\ Overrides(d, at, connection[p])
                                       THEN s ELSE connection[p].state
  <2>1. connection[p] \in Connections
    BY <1>3, ConnectionFields, Zenon
  <2>2. PICK y : y = [connection[p] EXCEPT !.state = s]
    OBVIOUS
  <2>3. /\ y \in Connections /\ y.state = s /\ y.identity = connection[p].identity
        /\ y.verified = connection[p].verified /\ y.created = connection[p].created
    BY <1>4, <2>1, <2>2, Zenon DEF Connections
  <2>4. connection'[p] = IF p \in Touched(d) /\ Overrides(d, at, connection[p])
                         THEN y ELSE connection[p]
    BY <1>2, <2>2, Zenon
  <2>5. CASE p \in Touched(d) /\ Overrides(d, at, connection[p])
    BY <2>3, <2>4, <2>5, Zenon
  <2>6. CASE ~(p \in Touched(d) /\ Overrides(d, at, connection[p]))
    <3>1. connection'[p] = connection[p]
      BY <2>4, <2>6, Zenon
    <3> QED  BY <2>1, <2>6, <3>1, Zenon
  <2> QED  BY <2>5, <2>6
<1>8. ASSUME NEW p \in Projects
      PROVE  /\ receipts'[p] \in Seq(Receipts)
             /\ p \notin Touched(d) => receipts'[p] = receipts[p]
             /\ p \in Touched(d) => Grows(receipts[p], receipts'[p], x)
  <2>1. PICK r, u : r = receipts[p] /\ u = receipts'[p]
    OBVIOUS
  <2>2. r \in Seq(Receipts)
    BY <1>3, <2>1, Zenon DEF Typed
  <2>3. u = IF p \in Touched(d) THEN Append(r, x) ELSE r
    BY <1>2, <2>1, Zenon
  <2>4. CASE p \in Touched(d)
    <3>1. u = Append(r, x)
      BY <2>3, <2>4, Zenon
    <3>2. /\ u \in Seq(Receipts) /\ Len(r) + 1 \in DOMAIN u /\ u[Len(r) + 1] = x
          /\ DOMAIN r \subseteq DOMAIN u /\ \A n \in DOMAIN r : u[n] = r[n]
          /\ \A n \in DOMAIN u : n \in DOMAIN r \/ u[n] = x
      BY <2>2, <3>1, <1>6, SMT
    <3>3. Grows(r, u, x)
      BY <3>2, Zenon DEF Grows
    <3> QED  BY <2>1, <2>4, <3>2, <3>3, Zenon
  <2>5. CASE p \notin Touched(d)
    BY <2>1, <2>2, <2>3, <2>5, Zenon
  <2> QED  BY <2>4, <2>5
<1>9. Typed'
  <2>1. DOMAIN connection' \subseteq Projects /\ fences' \subseteq Fences
    BY <1>2, <1>3, <1>6, Zenon DEF Typed
  <2>2. (\A p \in DOMAIN connection : connection[p] \in Connections)'
    BY <1>2, <1>7, Zenon
  <2>3. receipts' \in [Projects -> Seq(Receipts)]
    <3>1. \A p \in Projects : receipts'[p] \in Seq(Receipts)
      BY <1>8, Zenon
    <3>2. DOMAIN receipts' = Projects /\ receipts' = [p \in Projects |-> receipts'[p]]
      BY <1>2, Zenon
    <3> QED  BY <3>1, <3>2, Zenon
  <2>4. (\A i \in DOMAIN intents : OneInstallation(intents[i].candidates))'
    BY <1>2, <1>3, SMT DEF Typed, OneInstallation
  <2> QED  BY <2>1, <2>2, <2>3, <2>4, <1>2, <1>3, Zenon DEF Typed
<1>10. \A q \in Projects : CallOK(q, connecting[q])'
  BY <1>2, Zenon DEF Inv, CallOK
<1>11. RestsOnProof'
  BY <1>2, <1>3, <1>7, ProofKept, Zenon
<1>12. \A p \in Projects \ DOMAIN connection' : receipts'[p] = << >>
  <2>1. \A p \in Projects \ DOMAIN connection : p \notin Touched(d)
    BY Zenon DEF Touched
  <2> QED  BY <2>1, <1>2, <1>3, <1>8, Zenon DEF SignalsCounted
<1>13. \A p \in Projects : \A n \in DOMAIN receipts'[p] : receipts'[p][n].state # "ACTIVE"
  <2>1. ASSUME NEW p \in Projects, NEW n \in DOMAIN receipts'[p]
        PROVE  receipts'[p][n].state # "ACTIVE"
    <3>1. PICK r, u : r = receipts[p] /\ u = receipts'[p]
      OBVIOUS
    <3>2. \A m \in DOMAIN r : r[m].state # "ACTIVE"
      BY <1>3, <3>1, Zenon DEF SignalsCounted
    <3>3. \/ u = r
          \/ /\ \A m \in DOMAIN r : u[m] = r[m]
             /\ \A m \in DOMAIN u : m \in DOMAIN r \/ u[m] = x
      BY <1>8, <3>1, Zenon DEF Grows
    <3> QED  BY <2>1, <3>1, <3>2, <3>3, <1>4, <1>6, Zenon
  <2> QED  BY <2>1, Zenon
<1>14. ASSUME NEW p \in DOMAIN connection', ~Reverified(p)'
       PROVE  IsStrongest(connection'[p].state, Counted(p)')
  <2>1. p \in DOMAIN connection /\ p \in Projects
    BY <1>2, <1>3, <1>14, Zenon DEF Typed
  <2>2. ~Reverified(p)
    BY <1>2, <1>14, Zenon DEF Reverified
  <2>3. PICK t, S, o : t = connection[p].state /\ S = Counted(p) /\ o = connection[p].created
    OBVIOUS
  <2>4. IsStrongest(t, S) /\ S \subseteq States \ {"ACTIVE"} /\ o \in Nat /\ t \in States
    BY <1>3, <2>1, <2>2, <2>3, CountedStates, ConnectionFields, Zenon DEF SignalsCounted
  <2>5. PICK r, u : r = receipts[p] /\ u = receipts'[p]
    OBVIOUS
  <2>6. S = {r[n].state : n \in {m \in DOMAIN r : r[m].at >= o}}
    BY <2>3, <2>5, Zenon DEF Counted
  <2>7. Counted(p)' = {u[n].state : n \in {m \in DOMAIN u : u[m].at >= o}}
    <3>1. connection'[p].created = o
      BY <1>7, <2>1, <2>3, Zenon
    <3> QED  BY <2>5, <3>1, Zenon DEF Counted
  <2>8. CASE p \in Touched(d) /\ at >= o
    <3>1. Counted(p)' = S \cup {s}
      <4>1. Grows(r, u, x)
        BY <1>8, <2>1, <2>5, <2>8, Zenon
      <4> QED  BY <4>1, <2>6, <2>7, <2>8, <1>6, Zenon DEF Grows
    <3>2. connection'[p].state = IF Severity[s] >= Severity[t] THEN s ELSE t
      BY <1>1, <1>7, <2>1, <2>3, <2>8, Zenon DEF Overrides
    <3>3. IsStrongest(IF Severity[s] >= Severity[t] THEN s ELSE t, S \cup {s})
      BY <1>4, <2>4, StrongestOfMore, Zenon
    <3> QED  BY <3>1, <3>2, <3>3, Zenon
  <2>9. CASE ~(p \in Touched(d) /\ at >= o)
    <3>1. Counted(p)' = S
      <4>1. CASE p \notin Touched(d)
        <5>1. u = r
          BY <1>8, <2>1, <2>5, <4>1, Zenon
        <5> QED  BY <5>1, <2>6, <2>7, Zenon
      <4>2. CASE p \in Touched(d) /\ ~(at >= o)
        <5>1. Grows(r, u, x)
          BY <1>8, <2>1, <2>5, <4>2, Zenon
        <5> QED  BY <5>1, <2>6, <2>7, <4>2, <1>6, Zenon DEF Grows
      <4> QED  BY <4>1, <4>2, <2>9
    <3>2. connection'[p].state = t
      BY <1>7, <2>1, <2>3, <2>9, Zenon DEF Overrides
    <3> QED  BY <2>4, <3>1, <3>2, Zenon
  <2> QED  BY <2>8, <2>9
<1>15. SignalsCounted'
  <2>1. ASSUME NEW p \in DOMAIN connection', ~Reverified(p)'
        PROVE  IsStrongest(connection[p].state, Counted(p))'
    BY <1>14, <2>1, Zenon DEF IsStrongest
  <2> QED  BY <2>1, <1>12, <1>13, Zenon DEF SignalsCounted
<1> QED  BY <1>9, <1>10, <1>11, <1>15, Zenon DEF Inv

-------------------------------------------------------------------------------
(* The invariant and what follows                                          *)

\* Nothing is connected and nothing was received.
LEMMA Initially == Init => Inv
<1> SUFFICES ASSUME Init PROVE Inv
  OBVIOUS
<1>1. DOMAIN connection = {} /\ DOMAIN intents = {}
  BY SMT DEF Init
<1>2. \A p \in Projects : receipts[p] = << >> /\ connecting[p] = Idle
  BY Zenon DEF Init
<1>3. Idle.pc # "checked"
  BY Zenon DEF Idle
<1>4. Typed
  <2>1. /\ receipts \in [Projects -> Seq(Receipts)] /\ intents \in Seq(Intents)
        /\ audit \in Seq(Events)
    BY SMT DEF Init
  <2>2. now \in 0..MaxTime
    BY GitHubConnectionAssumption, SMT DEF Init
  <2>3. connecting \in [Projects -> Calls \cup {Idle}]
    BY Zenon DEF Init
  <2> QED  BY <1>1, <2>1, <2>2, <2>3, Zenon DEF Init, Typed
<1>5. \A p \in Projects : DOMAIN receipts[p] = {}
  BY <1>2, SMT
<1> QED  BY <1>1, <1>2, <1>3, <1>4, <1>5, Zenon DEF Inv, CallOK, RestsOnProof, SignalsCounted

\* Every step keeps the invariant.
LEMMA Stepwise == Inv /\ [Next]_vars => Inv'
<1> SUFFICES ASSUME Inv, [Next]_vars PROVE Inv'
  OBVIOUS
<1>1. ASSUME NEW p \in Projects, Begin(p) PROVE Inv'
  BY <1>1, BeginKeeps, Zenon
<1>2. ASSUME NEW p \in Projects, ConnectCommits(p) PROVE Inv'
  BY <1>2, ConnectCommitsKeeps, Zenon
<1>3. ASSUME NEW p \in Projects, ConnectEnds(p) PROVE Inv'
  BY <1>3, ConnectEndsKeeps, Zenon
<1>4. ASSUME NEW i \in DOMAIN intents, NEW r \in Repositories, NEW verified \in 0..now,
             NEW at \in 0..now, RecordCandidate(i, r, verified, at)
      PROVE  Inv'
  BY <1>4, RecordCandidateKeeps, Zenon
<1>5. ASSUME NEW i \in DOMAIN intents, NEW key \in Keys, NEW at \in 0..now,
             NEW c \in intents[i].candidates, ConnectChecks(i, c, key, at)
      PROVE  Inv'
  BY <1>5, ConnectChecksKeeps, Zenon
<1>6. ASSUME NEW d \in Deliveries, NEW at \in 0..now, Signal(d, at) PROVE Inv'
  BY <1>6, SignalKeeps, Zenon
<1>7. CASE Tick
  BY <1>7, TickKeeps, Zenon
<1>8. CASE UNCHANGED vars
  <2>1. UNCHANGED <<connection, fences, receipts, intents, requests, audit, connecting, now>>
    BY <1>8, Zenon DEF vars
  <2>2. Typed'
    BY <2>1, Zenon DEF Inv, Typed, OneInstallation
  <2>3. \A q \in Projects : CallOK(q, connecting[q])'
    BY <2>1, Zenon DEF Inv, CallOK
  <2>4. RestsOnProof'
    BY <2>1, ProofKept, Zenon DEF Inv
  <2> QED  BY <2>1, <2>2, <2>3, <2>4, SignalsKept, Zenon DEF Inv
<1> QED  BY <1>1, <1>2, <1>3, <1>4, <1>5, <1>6, <1>7, <1>8, Zenon DEF Next

\* The invariant holds in every reachable state.
LEMMA Invariance == Spec => []Inv
<1>1. Init => Inv
  BY Initially
<1>2. Inv /\ [Next]_vars => Inv'
  BY Stepwise
<1> QED  BY <1>1, <1>2, PTL DEF Spec

\* Type correctness: the candidates of one intent belong to one installation,
\* and a newer confirmation of a repository replaces the older one.
THEOREM TypeCorrect == Spec => []TypeOK
<1>1. Inv => TypeOK
  <2> SUFFICES ASSUME Inv PROVE TypeOK
    OBVIOUS
  <2>1. \A i \in DOMAIN intents :
            /\ intents[i].project \in Projects /\ intents[i].expires \in Nat
            /\ intents[i].consumed \in BOOLEAN
            /\ \A c, d \in intents[i].candidates : c.identity[1] = d.identity[1]
            /\ \A c, d \in intents[i].candidates : c.identity = d.identity => c = d
    BY IntentFields, Zenon DEF Inv, OneInstallation
  <2>2. \A p \in Projects : connecting[p].pc \in {"idle", "checked"}
    <3>1. \A p \in Projects : connecting[p] \in Calls \cup {Idle}
      BY Zenon DEF Inv, Typed
    <3>2. \A z \in Calls \cup {Idle} : z.pc \in {"idle", "checked"}
      BY SMT DEF Calls, Idle
    <3> QED  BY <3>1, <3>2, Zenon
  <2> QED  BY <2>1, <2>2, Zenon DEF Inv, Typed, TypeOK, Receipts, Requests
<1>2. Spec => []Inv
  BY Invariance
<1> QED  BY <1>1, <1>2, PTL

\* Duplicate, late and reordered webhook deliveries never regress a connection:
\* until it is verified again, it is ACTIVE only if no signal has reached it, it says
\* what a signal said, and nothing milder than any since the last that asked for
\* verification, for any number of Projects, repositories and deliveries.
THEOREM SignalsWin == Spec => []SignalsNeverRegress
<1>1. Inv => SignalsNeverRegress
  <2> SUFFICES ASSUME Inv PROVE SignalsNeverRegress
    OBVIOUS
  <2>1. ASSUME NEW p \in DOMAIN connection, ~Reverified(p)
        PROVE  /\ connection[p].state \in
                     IF Counting(p) = {} THEN {"ACTIVE"}
                     ELSE {receipts[p][n].state : n \in Counting(p)}
               /\ \A n \in Counting(p) : Severity[connection[p].state] >= Severity[receipts[p][n].state]
    <3>1. IsStrongest(connection[p].state, Counted(p))
      BY <2>1, Zenon DEF Inv, SignalsCounted
    <3>2. Counted(p) = {receipts[p][n].state : n \in Counting(p)}
      BY Zenon DEF Counted, Counting
    <3>3. p \in Projects /\ \A n \in DOMAIN receipts[p] : receipts[p][n].state # "ACTIVE"
      BY <2>1, ConnectionFields, Zenon DEF Inv, SignalsCounted
    <3>4. CASE Counting(p) = {}
      <4>1. Counted(p) = {}
        BY <3>2, <3>4, Zenon
      <4> QED  BY <3>1, <3>4, <4>1, Zenon DEF IsStrongest
    <3>5. CASE Counting(p) # {}
      <4>1. PICK n \in Counting(p) : TRUE
        BY <3>5, Zenon
      <4>2. receipts[p][n].state \in Counted(p) /\ receipts[p][n].state # "ACTIVE"
        BY <3>2, <3>3, <4>1, Zenon DEF Counting
      <4>3. connection[p].state # "ACTIVE" /\ connection[p].state \in Counted(p)
        BY <3>1, <4>2, Zenon DEF IsStrongest
      <4> QED  BY <3>1, <3>2, <3>5, <4>3, Zenon DEF IsStrongest
    <3> QED  BY <3>4, <3>5
  <2> QED  BY <2>1, Zenon DEF SignalsNeverRegress
<1>2. Spec => []Inv
  BY Invariance
<1> QED  BY <1>1, <1>2, PTL

\* No interleaving of callbacks, candidates and connects makes a connection of
\* something the provider did not confirm for an intent of that Project.
THEOREM ProofCorrect == Spec => []RestsOnProof
<1>1. Inv => RestsOnProof
  BY Zenon DEF Inv
<1>2. Spec => []Inv
  BY Invariance
<1> QED  BY <1>1, <1>2, PTL
=============================================================================
