--------------------------- MODULE SessionsProofs ---------------------------
(***************************************************************************)
(* What revocation and rotation promise holds for any number of browsers,  *)
(* webhooks, accounts and provider sessions, whatever the lives and the    *)
(* delays are.                                                             *)
(***************************************************************************)
EXTENDS Sessions, TLAPS

-----------------------------------------------------------------------------
(* The invariant.                                                          *)

Row == [account : Subjects, provider : ProviderSessions, epoch : Nat, absolute : Nat,
        verified : Nat, origin : Nat, revoked : BOOLEAN]

CallRow == [op : {"IDLE", "CALLBACK", "RESOLVED", "RECHECK", "ANSWERED", "ALL", "EVENT", "RESET"},
            session : Nat, provider : ProviderSessions \cup {NoOne},
            mail : Emails \cup {NoOne}, intent : Nat, rows : SUBSET Nat,
            active : BOOLEAN, at : Nat]

\* A positive answer given at that time still has its effect.
Answered(p, at) ==
    /\ at <= now /\ now <= at + MaxLag
    /\ ended[p] # Never => at <= ended[p]

\* What a client relies on in the middle of a call.
CallOK(t) ==
    /\ t \in CallRow
    /\ t.op \in {"RECHECK", "ANSWERED", "ALL"} => t.session \in Ids
    /\ t.op \in {"CALLBACK", "RESOLVED"} => t.provider \in ProviderSessions /\ Answered(t.provider, t.at)
    /\ t.op = "CALLBACK" => t.intent \in 0..Len(intents)
    /\ t.op = "ANSWERED" => /\ t.at <= now /\ now <= t.at + MaxLag
                            /\ t.active => Answered(sessions[t.session].provider, t.at)

\* One session by itself: its epoch is not ahead of the account, and behind it
\* once a global logout has ended it; its last answer bounds what it may serve.
RowInv(s) ==
    /\ sessions[s].epoch <= epoch[sessions[s].account]
    /\ s \in loggedOut => sessions[s].epoch < epoch[sessions[s].account]
    /\ sessions[s].absolute <= Expiry[sessions[s].provider]
    /\ sessions[s].verified <= now + VerifyLife
    /\ ~sessions[s].revoked /\ ended[sessions[s].provider] # Never =>
          sessions[s].verified <= ended[sessions[s].provider] + VerifyLife + MaxLag

\* A session and the one it was rotated out of.
OriginInv(s) ==
    sessions[s].origin # 0 =>
        /\ sessions[s].origin \in 1..(s - 1)
        /\ sessions[sessions[s].origin].revoked
        /\ sessions[s].absolute <= sessions[sessions[s].origin].absolute
        /\ \A r \in Ids : sessions[r].origin = sessions[s].origin => r = s

Typed ==
    /\ now \in Nat /\ email \in [Subjects -> Emails \cup {NoOne}] /\ epoch \in [Subjects -> Nat]
    /\ sessions \in Seq(Row) /\ intents \in Seq([session : Nat, consumed : BOOLEAN])
    /\ ended \in [ProviderSessions -> Nat]

Inv ==
    /\ Typed
    /\ \A i \in DOMAIN intents : intents[i].session \in Ids
    /\ loggedOut \subseteq Ids
    /\ call \in [Clients -> CallRow]
    /\ \A c \in Clients : CallOK(call[c])
    /\ \A s \in Ids : RowInv(s)
    /\ \A s \in Ids : OriginInv(s)

-----------------------------------------------------------------------------
(* Facts of the operators.                                                 *)

\* The earlier of two times.
LEMMA EarliestOfTwo ==
    ASSUME NEW a \in Nat, NEW b \in Nat
    PROVE  Earliest({a, b}) \in Nat /\ Earliest({a, b}) <= a /\ Earliest({a, b}) <= b
<1>1. PICK m \in {a, b} : \A y \in {a, b} : m =< y
  BY SMT
<1>2. Earliest({a, b}) \in {a, b} /\ \A y \in {a, b} : Earliest({a, b}) =< y
  BY <1>1, Zenon DEF Earliest, Min
<1> QED  BY <1>2, SMT

\* What the constants are.
LEMMA Constants ==
    /\ VerifyLife \in Nat /\ AbsoluteLife \in Nat /\ MaxLag \in Nat
    /\ \A p \in ProviderSessions : Expiry[p] \in Nat /\ Owner[p] \in Subjects
  BY SessionsAssumption, SMT DEF SessionsAssumption

\* The sessions are rows with the ids 1 to Len.
LEMMA IdsAre ==
    ASSUME Typed
    PROVE  /\ Ids = 1..Len(sessions) /\ Len(sessions) \in Nat
           /\ \A s \in Ids : sessions[s] \in Row
  BY SMT DEF Typed, Ids

\* The fields of a row.
LEMMA RowFields ==
    ASSUME NEW r \in Row
    PROVE  /\ r.account \in Subjects /\ r.provider \in ProviderSessions /\ r.epoch \in Nat
           /\ r.absolute \in Nat /\ r.verified \in Nat /\ r.origin \in Nat /\ r.revoked \in BOOLEAN
  BY Zenon DEF Row

\* An element of a sequence.
LEMMA ElementIs ==
    ASSUME NEW T, NEW q \in Seq(T), NEW j \in 0..Len(q), j # 0
    PROVE  j \in DOMAIN q /\ q[j] \in T
  BY SMT

\* Nothing happened yet is a call of any client.
LEMMA IdleOK == CallOK(Idle)
<1>1. Idle \in CallRow
  BY Zenon DEF Idle, CallRow
<1>2. Idle.op = "IDLE"
  BY DEF Idle
<1> QED  BY <1>1, <1>2, Zenon DEF CallOK

\* A revocation leaves rows as they are but for the ones it revokes.
LEMMA RevokeIs ==
    ASSUME Typed, NEW S
    PROVE  /\ Revoke(S) \in Seq(Row) /\ Len(Revoke(S)) = Len(sessions)
           /\ \A s \in Ids : Revoke(S)[s] = IF s \in S THEN [sessions[s] EXCEPT !.revoked = TRUE]
                                            ELSE sessions[s]
<1>1. \A s \in Ids : sessions[s] \in Row /\ [sessions[s] EXCEPT !.revoked = TRUE] \in Row
  BY IdsAre, Zenon DEF Row
<1>2. Revoke(S) \in [1..Len(sessions) -> Row] /\ Len(sessions) \in Nat
  BY <1>1, IdsAre, Zenon DEF Revoke
<1>3. Revoke(S) \in Seq(Row) /\ Len(Revoke(S)) = Len(sessions)
  BY <1>2, SMT
<1> QED  BY <1>3, Zenon DEF Revoke

\* The rows that were there are still there, and a revoked one stays revoked.
Kept ==
    /\ Len(sessions) <= Len(sessions')
    /\ \A s \in Ids :
          /\ sessions'[s].account = sessions[s].account /\ sessions'[s].provider = sessions[s].provider
          /\ sessions'[s].epoch = sessions[s].epoch /\ sessions'[s].absolute = sessions[s].absolute
          /\ sessions'[s].origin = sessions[s].origin
          /\ sessions[s].revoked => sessions'[s].revoked

\* Ids only grow.
LEMMA IdsGrow ==
    ASSUME Typed, Typed', Kept
    PROVE  Ids \subseteq Ids'
<1>1. Ids = 1..Len(sessions) /\ Len(sessions) \in Nat
  BY IdsAre
<1>2. sessions' \in Seq(Row)
  BY DEF Typed
<1>3. Ids' = 1..Len(sessions') /\ Len(sessions') \in Nat
  BY <1>2, SMT DEF Ids
<1> QED  BY <1>1, <1>3, SMT DEF Kept

\* What a client relies on stays true while time and the provider stand still.
LEMMA CallKept ==
    ASSUME Typed, Typed', Kept, Len(intents) <= Len(intents'), UNCHANGED <<now, ended>>,
           NEW t, CallOK(t)
    PROVE  CallOK(t)'
<1>1. Ids \subseteq Ids'
  BY IdsGrow
<1>2. Len(intents) \in Nat /\ Len(intents') \in Nat
  BY SMT DEF Typed
<1>3. 0..Len(intents) \subseteq 0..Len(intents')
  BY <1>2, SMT
<1>4. now' = now /\ ended' = ended
  OBVIOUS
<1>5. t.session \in Ids => sessions'[t.session].provider = sessions[t.session].provider
  BY Zenon DEF Kept
<1>6. t \in CallRow
  BY DEF CallOK
<1> QED  BY <1>1, <1>3, <1>4, <1>5, <1>6, Zenon DEF CallOK, Answered

\* All calls but that of one client stay as they are.
LEMMA CallsKept ==
    ASSUME Inv, Typed', Kept, Len(intents) <= Len(intents'), UNCHANGED <<now, ended>>,
           NEW c \in Clients, NEW t, CallOK(t), call' = [call EXCEPT ![c] = t]
    PROVE  call' \in [Clients -> CallRow] /\ \A d \in Clients : CallOK(call[d])'
<1>1. call \in [Clients -> CallRow] /\ t \in CallRow /\ Typed
  BY Zenon DEF Inv, CallOK
<1>2. call' \in [Clients -> CallRow] /\ call'[c] = t /\ \A d \in Clients \ {c} : call'[d] = call[d]
  BY <1>1, Zenon
<1>3. ASSUME NEW d \in Clients PROVE CallOK(call[d])'
  <2>1. PICK u : u = call'[d]
    OBVIOUS
  <2>2. CallOK(u)
    BY <1>2, <2>1, Zenon DEF Inv
  <2>3. CallOK(u)'
    BY <1>1, <2>2, CallKept
  <2> QED  BY <2>1, <2>3 DEF CallOK, Answered
<1> QED  BY <1>2, <1>3

\* What holds of a row goes on to hold: fields stay, the epoch never falls, a
\* logout moves it, and a new answer is a fresh one.
LEMMA RowKept ==
    ASSUME Inv, Typed', Kept, UNCHANGED <<now, ended>>, NEW s \in Ids,
           epoch[sessions[s].account] <= epoch'[sessions[s].account],
           s \in loggedOut' =>
               s \in loggedOut \/ epoch[sessions[s].account] < epoch'[sessions[s].account],
           \/ sessions'[s].verified = sessions[s].verified
           \/ /\ sessions'[s].verified <= now + VerifyLife
              /\ ended[sessions[s].provider] # Never =>
                    sessions'[s].verified <= ended[sessions[s].provider] + VerifyLife + MaxLag
    PROVE  RowInv(s)'
<1>1. RowInv(s) /\ Typed
  BY Zenon DEF Inv
<1>2. /\ sessions'[s].account = sessions[s].account /\ sessions'[s].provider = sessions[s].provider
      /\ sessions'[s].epoch = sessions[s].epoch /\ sessions'[s].absolute = sessions[s].absolute
      /\ sessions[s].revoked => sessions'[s].revoked
      /\ now' = now /\ ended' = ended
  BY Zenon DEF Kept
<1>3. sessions[s] \in Row
  BY <1>1, IdsAre
<1>4. /\ sessions[s].account \in Subjects /\ sessions[s].provider \in ProviderSessions
      /\ sessions[s].epoch \in Nat /\ sessions[s].verified \in Nat
  BY <1>3, RowFields
<1>5. epoch[sessions[s].account] \in Nat /\ epoch'[sessions[s].account] \in Nat
  BY <1>4, <1>1, Zenon DEF Typed
<1>6. /\ sessions'[s].epoch <= epoch'[sessions'[s].account]
      /\ s \in loggedOut' => sessions'[s].epoch < epoch'[sessions'[s].account]
  BY <1>1, <1>2, <1>4, <1>5, SMT DEF RowInv
<1>7. /\ sessions'[s].verified <= now' + VerifyLife
      /\ ~sessions'[s].revoked /\ ended'[sessions'[s].provider] # Never =>
             sessions'[s].verified <= ended'[sessions'[s].provider] + VerifyLife + MaxLag
  BY <1>1, <1>2, Zenon DEF RowInv
<1>8. sessions'[s].absolute <= Expiry[sessions'[s].provider]
  BY <1>1, <1>2, Zenon DEF RowInv
<1> QED  BY <1>6, <1>7, <1>8, Zenon DEF RowInv

\* Nobody's origin changes when no row is added.
LEMMA OriginsKept ==
    ASSUME Inv, Typed', Kept, Ids' = Ids
    PROVE  \A s \in Ids' : OriginInv(s)'
<1> SUFFICES ASSUME NEW s \in Ids PROVE OriginInv(s)'
  OBVIOUS
<1>1. OriginInv(s) /\ Typed
  BY Zenon DEF Inv
<1>2. CASE sessions[s].origin = 0
  BY <1>2, Zenon DEF Kept, OriginInv
<1>3. CASE sessions[s].origin # 0
  <2>1. PICK o : o = sessions[s].origin
    OBVIOUS
  <2>2. o \in 1..(s - 1)
    BY <1>1, <1>3, <2>1, Zenon DEF OriginInv
  <2>3. o \in Ids
    BY <1>1, <2>2, IdsAre, SMT
  <2>4. sessions'[s].origin = o /\ sessions'[s].absolute = sessions[s].absolute
    BY <2>1, Zenon DEF Kept
  <2>5. sessions'[o].revoked /\ sessions'[o].absolute = sessions[o].absolute
    BY <1>1, <1>3, <2>1, <2>3, Zenon DEF Kept, OriginInv
  <2>6. \A r \in Ids : sessions'[r].origin = sessions[r].origin
    BY Zenon DEF Kept
  <2>7. sessions[s].absolute <= sessions[o].absolute /\ \A r \in Ids : sessions[r].origin = o => r = s
    BY <1>1, <1>3, <2>1, Zenon DEF OriginInv
  <2> QED  BY <2>2, <2>4, <2>5, <2>6, <2>7, Zenon DEF OriginInv
<1> QED  BY <1>2, <1>3

-----------------------------------------------------------------------------
(* Steps that add no session.                                              *)

\* A call goes on and no table changes.
LEMMA CallStep ==
    ASSUME Inv, NEW c \in Clients, NEW t, CallOK(t), call' = [call EXCEPT ![c] = t],
           UNCHANGED <<now, epoch, sessions, intents, ended, loggedOut>>,
           email' \in [Subjects -> Emails \cup {NoOne}]
    PROVE  Inv'
<1>1. Typed' /\ Kept
  <2>1. Typed'
    BY Zenon DEF Inv, Typed
  <2>2. Len(sessions) <= Len(sessions')
    BY SMT DEF Inv, Typed
  <2> QED  BY <2>1, <2>2, Zenon DEF Kept
<1>2. Len(intents) <= Len(intents')
  BY SMT DEF Inv, Typed
<1>3. call' \in [Clients -> CallRow] /\ \A d \in Clients : CallOK(call[d])'
  BY <1>1, <1>2, CallsKept
<1>4. (\A i \in DOMAIN intents : intents[i].session \in Ids)' /\ (loggedOut \subseteq Ids)'
  BY Zenon DEF Inv, Ids
<1>5. (\A s \in Ids : RowInv(s))' /\ (\A s \in Ids : OriginInv(s))'
  BY Zenon DEF Inv, RowInv, OriginInv, Ids
<1> QED  BY <1>1, <1>3, <1>4, <1>5, Zenon DEF Inv

\* Rows change without being added, and calls as they may.
LEMMA RowsStep ==
    ASSUME Inv, Typed', Kept, Len(sessions') = Len(sessions),
           UNCHANGED <<now, email, epoch, intents, ended, loggedOut>>,
           \A s \in Ids :
               \/ sessions'[s].verified = sessions[s].verified
               \/ /\ sessions'[s].verified <= now + VerifyLife
                  /\ ended[sessions[s].provider] # Never =>
                        sessions'[s].verified <= ended[sessions[s].provider] + VerifyLife + MaxLag,
           \/ UNCHANGED call
           \/ \E c \in Clients : \E t : CallOK(t) /\ call' = [call EXCEPT ![c] = t]
    PROVE  Inv'
<1>1. Ids' = Ids
  <2>1. sessions' \in Seq(Row) /\ sessions \in Seq(Row)
    BY Zenon DEF Typed, Inv
  <2> QED  BY <2>1, SMT DEF Ids
<1>2. \A s \in Ids : RowInv(s)'
  <2> TAKE s \in Ids
  <2>1. Typed /\ sessions[s] \in Row
    BY IdsAre, Zenon DEF Inv
  <2>2. epoch[sessions[s].account] \in Nat
    BY <2>1, RowFields, Zenon DEF Typed
  <2>3. epoch[sessions[s].account] <= epoch'[sessions[s].account]
    BY <2>2, SMT
  <2> QED  BY <2>3, RowKept
<1>3. \A s \in Ids' : OriginInv(s)'
  BY <1>1, OriginsKept
<1>4. Len(intents) <= Len(intents')
  BY SMT DEF Inv, Typed
<1>5. call' \in [Clients -> CallRow] /\ \A d \in Clients : CallOK(call[d])'
  <2>1. CASE UNCHANGED call
    <3>1. call' \in [Clients -> CallRow]
      BY <2>1, Zenon DEF Inv
    <3>2. ASSUME NEW d \in Clients PROVE CallOK(call[d])'
      <4>1. PICK u : u = call[d]
        OBVIOUS
      <4>2. CallOK(u) /\ Typed
        BY <4>1, Zenon DEF Inv
      <4>3. CallOK(u)'
        BY <1>4, <4>2, CallKept
      <4> QED  BY <2>1, <4>1, <4>3 DEF CallOK, Answered
    <3> QED  BY <3>1, <3>2
  <2>2. ASSUME NEW c \in Clients, NEW t, CallOK(t), call' = [call EXCEPT ![c] = t]
        PROVE  call' \in [Clients -> CallRow] /\ \A d \in Clients : CallOK(call[d])'
    BY <1>4, <2>2, CallsKept
  <2> QED  BY <2>1, <2>2
<1>6. (\A i \in DOMAIN intents : intents[i].session \in Ids)' /\ (loggedOut \subseteq Ids)'
  BY <1>1, Zenon DEF Inv
<1> QED  BY <1>1, <1>2, <1>3, <1>5, <1>6, Zenon DEF Inv

\* An answer of the provider that is given now.
LEMMA ProviderAnswers ==
    ASSUME Inv, NEW p \in ProviderSessions, ProviderActive(p)
    PROVE  Answered(p, now)
  BY Constants, SMT DEF Inv, Typed, ProviderActive, Answered, Never

\* Exchange keeps the invariant.
LEMMA ExchangeKeeps ==
    ASSUME Inv, NEW c \in Browsers, NEW p \in ProviderSessions, NEW m \in Emails,
           NEW i \in {0} \cup DOMAIN intents, Exchange(c, p, m, i)
    PROVE  Inv'
<1> DEFINE t == [Idle EXCEPT !.op = "CALLBACK", !.provider = p, !.mail = m, !.intent = i, !.at = now]
<1>1. i \in 0..Len(intents) /\ i \in Nat /\ now \in Nat
  BY SMT DEF Inv, Typed
<1>2. /\ t \in CallRow /\ t.op = "CALLBACK" /\ t.provider = p /\ t.intent = i /\ t.at = now
  BY <1>1, Zenon DEF Idle, CallRow
<1>3. CallOK(t)
  BY <1>1, <1>2, ProviderAnswers, Zenon DEF CallOK, Exchange
<1>4. c \in Clients /\ email' \in [Subjects -> Emails \cup {NoOne}]
  BY Zenon DEF Clients, Exchange, Inv, Typed
<1>5. call' = [call EXCEPT ![c] = t] /\ UNCHANGED <<now, epoch, sessions, intents, ended, loggedOut>>
  BY Zenon DEF Exchange
<1> QED  BY <1>3, <1>4, <1>5, CallStep

\* ResolveIdentity keeps the invariant.
LEMMA ResolveKeeps == ASSUME Inv, NEW c \in Browsers, ResolveIdentity(c) PROVE Inv'
<1> DEFINE t == [call[c] EXCEPT !.op = "RESOLVED"]
<1>1. c \in Clients /\ call \in [Clients -> CallRow] /\ CallOK(call[c]) /\ call[c] \in CallRow
  BY Zenon DEF Clients, Inv
<1>2. /\ t \in CallRow /\ t.op = "RESOLVED" /\ t.provider = call[c].provider /\ t.at = call[c].at
  BY <1>1, Zenon DEF CallRow
<1>3. CallOK(t)
  BY <1>1, <1>2, Zenon DEF CallOK, ResolveIdentity
<1>4. call' = [call EXCEPT ![c] = t] /\ UNCHANGED <<now, epoch, sessions, intents, ended, loggedOut>>
  BY <1>1, Zenon DEF ResolveIdentity
<1>5. email' \in [Subjects -> Emails \cup {NoOne}]
  <2>1. call[c].mail \in Emails \cup {NoOne}
    BY <1>1, Zenon DEF CallRow
  <2> QED  BY <2>1, Zenon DEF ResolveIdentity, Inv, Typed
<1> QED  BY <1>1, <1>3, <1>4, <1>5, CallStep

\* AskProvider keeps the invariant.
LEMMA AskKeeps == ASSUME Inv, NEW c \in Browsers, AskProvider(c) PROVE Inv'
<1> DEFINE t == [call[c] EXCEPT !.op = "ANSWERED", !.at = now,
                                !.active = ProviderActive(sessions[call[c].session].provider)]
           p == sessions[call[c].session].provider
<1>1. c \in Clients /\ call \in [Clients -> CallRow] /\ CallOK(call[c]) /\ call[c] \in CallRow /\ Typed
  BY Zenon DEF Clients, Inv
<1>2. now \in Nat /\ ProviderActive(p) \in BOOLEAN
  BY Zenon DEF Inv, Typed, ProviderActive
<1>3. /\ t \in CallRow /\ t.op = "ANSWERED" /\ t.at = now /\ t.session = call[c].session
      /\ t.active = ProviderActive(p)
  <2> HIDE DEF p
  <2>1. ProviderActive(p) \in BOOLEAN /\ now \in Nat
    BY <1>2
  <2> DEFINE active == ProviderActive(p)
  <2> HIDE DEF active
  <2>2. active \in BOOLEAN
    BY <2>1 DEF active
  <2>3. [call[c] EXCEPT !.op = "ANSWERED", !.at = now, !.active = active] \in CallRow
    BY <1>1, <2>1, <2>2, Zenon DEF CallRow
  <2> QED  BY <1>1, <2>3, Zenon DEF CallRow, active, p
<1>4. call[c].session \in Ids
  BY <1>1, Zenon DEF AskProvider, CallOK
<1>5. p \in ProviderSessions
  BY <1>1, <1>4, IdsAre, RowFields
<1>6. now <= now + MaxLag
  BY <1>2, Constants, SMT
<1>7. t.active => Answered(p, now)
  BY <1>3, <1>5, ProviderAnswers
<1>8. CallOK(t)
  <2>1. now <= now
    BY <1>2, SMT
  <2> QED  BY <1>3, <1>4, <1>6, <1>7, <2>1, Zenon DEF CallOK
<1>9. call' = [call EXCEPT ![c] = t] /\ UNCHANGED <<now, epoch, sessions, intents, ended, loggedOut>>
  BY <1>1, Zenon DEF AskProvider
<1>10. email' \in [Subjects -> Emails \cup {NoOne}]
  BY <1>1, Zenon DEF AskProvider, Typed
<1> QED  BY <1>1, <1>8, <1>9, <1>10, CallStep

\* A sweep that begins keeps the invariant.
LEMMA BeginKeeps ==
    ASSUME Inv, NEW c \in Sweepers, NEW S \in SUBSET Ids, NEW op \in {"EVENT", "RESET"}, Begin(c, op, S)
    PROVE  Inv'
<1> DEFINE t == [Idle EXCEPT !.op = op, !.rows = S]
<1>1. S \in SUBSET Nat /\ c \in Clients
  BY IdsAre, SMT DEF Inv, Clients
<1>2. t \in CallRow /\ t.op \in {"EVENT", "RESET"}
  BY <1>1, Zenon DEF Idle, CallRow
<1>3. CallOK(t)
  BY <1>2, Zenon DEF CallOK
<1>4. call' = [call EXCEPT ![c] = t] /\ UNCHANGED <<now, epoch, sessions, intents, ended, loggedOut>>
  BY Zenon DEF Begin
<1>5. email' \in [Subjects -> Emails \cup {NoOne}]
  BY Zenon DEF Begin, Inv, Typed
<1> QED  BY <1>1, <1>3, <1>4, <1>5, CallStep

\* A global logout that begins keeps the invariant.
LEMMA RevokeAllKeeps ==
    ASSUME Inv, NEW c \in Sweepers, NEW s \in Ids, RevokeAll(c, s)
    PROVE  Inv'
<1> DEFINE S == LiveOf(sessions[s].account)
           t == [Idle EXCEPT !.op = "ALL", !.session = s, !.rows = S]
<1>1. S \in SUBSET Nat /\ c \in Clients /\ s \in Nat
  BY IdsAre, SMT DEF Inv, Clients, LiveOf
<1> HIDE DEF S
<1>2. t \in CallRow /\ t.op = "ALL" /\ t.session = s
  BY <1>1, Zenon DEF Idle, CallRow
<1>3. CallOK(t)
  BY <1>2, Zenon DEF CallOK
<1>4. call' = [call EXCEPT ![c] = t] /\ UNCHANGED <<now, epoch, sessions, intents, ended, loggedOut>>
  BY Zenon DEF RevokeAll, S
<1>5. email' \in [Subjects -> Emails \cup {NoOne}]
  BY Zenon DEF RevokeAll, Inv, Typed
<1> QED  BY <1>1, <1>3, <1>4, <1>5, CallStep

\* A call that is left keeps the invariant.
LEMMA LeaveKeeps == ASSUME Inv, NEW c \in Clients, Leave(c) PROVE Inv'
<1>1. call' = [call EXCEPT ![c] = Idle] /\ UNCHANGED <<now, epoch, sessions, intents, ended, loggedOut>>
  BY Zenon DEF Leave, Return
<1>2. email' \in [Subjects -> Emails \cup {NoOne}]
  BY Zenon DEF Leave, Inv, Typed
<1> QED  BY <1>1, <1>2, IdleOK, CallStep

\* Rows are revoked, and nothing else happens to them.
LEMMA RevokedKept ==
    ASSUME Inv, NEW S, sessions' = Revoke(S)
    PROVE  /\ sessions' \in Seq(Row) /\ Len(sessions') = Len(sessions) /\ Kept
           /\ \A s \in Ids : sessions'[s].verified = sessions[s].verified
           /\ \A s \in S \cap Ids : sessions'[s].revoked
<1>1. /\ sessions' \in Seq(Row) /\ Len(sessions') = Len(sessions)
      /\ \A s \in Ids : sessions'[s] = IF s \in S THEN [sessions[s] EXCEPT !.revoked = TRUE]
                                       ELSE sessions[s]
  BY RevokeIs, Zenon DEF Inv
<1>2. \A s \in Ids : sessions[s] \in Row
  BY IdsAre DEF Inv
<1>3. \A s \in Ids :
          /\ sessions'[s].account = sessions[s].account /\ sessions'[s].provider = sessions[s].provider
          /\ sessions'[s].epoch = sessions[s].epoch /\ sessions'[s].absolute = sessions[s].absolute
          /\ sessions'[s].origin = sessions[s].origin /\ sessions'[s].verified = sessions[s].verified
          /\ sessions[s].revoked => sessions'[s].revoked
          /\ s \in S => sessions'[s].revoked
  BY <1>1, <1>2, Zenon DEF Row
<1>4. Len(sessions) <= Len(sessions')
  BY <1>1, SMT DEF Inv, Typed
<1> QED  BY <1>1, <1>3, <1>4, Zenon DEF Kept

\* Authenticate and Logout keep the invariant.
LEMMA RevokeKeeps ==
    ASSUME Inv, NEW S, sessions' = Revoke(S),
           UNCHANGED <<now, email, epoch, intents, ended, call, loggedOut>>
    PROVE  Inv'
<1>1. Typed'
  BY RevokedKept, Zenon DEF Inv, Typed
<1> QED  BY <1>1, RevokedKept, RowsStep

\* Authenticate keeps the invariant.
LEMMA AuthenticateKeeps ==
    ASSUME Inv, NEW c \in Browsers, NEW s \in Ids, Authenticate(c, s)
    PROVE  Inv'
<1>1. CASE ~Authentic(s)
  BY <1>1, RevokeKeeps, Zenon DEF Authenticate
<1>2. CASE Authentic(s) /\ now < sessions[s].verified
  <2>1. UNCHANGED vars
    BY <1>2, Zenon DEF Authenticate, vars
  <2>2. Typed' /\ Len(sessions') = Len(sessions) /\ Kept
    <3>1. Len(sessions) <= Len(sessions')
      BY <2>1, SMT DEF Inv, Typed, vars
    <3> QED  BY <2>1, <3>1, Zenon DEF Inv, Typed, vars, Kept
  <2> QED  BY <2>1, <2>2, RowsStep, Zenon DEF vars
<1>3. CASE Authentic(s) /\ ~(now < sessions[s].verified)
  <2> DEFINE t == [Idle EXCEPT !.op = "RECHECK", !.session = s]
  <2>1. s \in Nat /\ c \in Clients
    BY IdsAre, SMT DEF Inv, Clients
  <2>2. t \in CallRow /\ t.op = "RECHECK" /\ t.session = s
    BY <2>1, Zenon DEF Idle, CallRow
  <2>3. CallOK(t)
    BY <2>2, Zenon DEF CallOK
  <2>4. call' = [call EXCEPT ![c] = t] /\ UNCHANGED <<now, epoch, sessions, intents, ended, loggedOut>>
    BY <1>3, Zenon DEF Authenticate
  <2>5. email' \in [Subjects -> Emails \cup {NoOne}]
    BY Zenon DEF Authenticate, Inv, Typed
  <2> QED  BY <2>1, <2>3, <2>4, <2>5, CallStep
<1> QED  BY <1>1, <1>2, <1>3

\* The mark of what the provider answered keeps the invariant.
LEMMA MarkKeeps == ASSUME Inv, NEW c \in Browsers, MarkProviderState(c) PROVE Inv'
<1> DEFINE s == call[c].session
           p == sessions[s].provider
           v == Earliest({now + VerifyLife, Expiry[p]})
<1>1. /\ c \in Clients /\ CallOK(call[c]) /\ call[c].op = "ANSWERED" /\ Typed
      /\ call' = [call EXCEPT ![c] = Idle]
      /\ UNCHANGED <<now, email, epoch, intents, ended, loggedOut>>
  BY Zenon DEF Clients, Inv, MarkProviderState, Return
<1>2. s \in Ids /\ sessions[s] \in Row /\ p \in ProviderSessions
  <2>1. s \in Ids
    BY <1>1, Zenon DEF CallOK
  <2> QED  BY <1>1, <2>1, IdsAre, RowFields
<1>3. v \in Nat /\ v <= now + VerifyLife /\ now \in Nat
  <2>1. now \in Nat /\ now + VerifyLife \in Nat /\ Expiry[p] \in Nat
    BY <1>1, <1>2, Constants, SMT DEF Typed
  <2> QED  BY <2>1, EarliestOfTwo
<1> HIDE DEF v
<1>4. CASE sessions' = Revoke({s})
  <2>1. Typed'
    BY <1>1, <1>4, RevokedKept, Zenon DEF Typed
  <2> QED  BY <1>1, <1>4, <2>1, IdleOK, RevokedKept, RowsStep
<1>5. CASE sessions' = sessions
  <2>1. Len(sessions) <= Len(sessions')
    BY <1>1, <1>5, SMT DEF Typed
  <2>2. Typed' /\ Kept /\ Len(sessions') = Len(sessions)
    BY <1>1, <1>5, <2>1, Zenon DEF Typed, Kept
  <2>3. \A r \in Ids : sessions'[r].verified = sessions[r].verified
    BY <1>5
  <2> QED  BY <1>1, <2>2, <2>3, IdleOK, RowsStep
<1>6. CASE sessions' = [sessions EXCEPT ![s].verified = v] /\ call[c].active
  <2> DEFINE row == [sessions[s] EXCEPT !.verified = v]
  <2>1. /\ row \in Row /\ row.account = sessions[s].account /\ row.provider = p
        /\ row.epoch = sessions[s].epoch /\ row.absolute = sessions[s].absolute
        /\ row.origin = sessions[s].origin /\ row.revoked = sessions[s].revoked /\ row.verified = v
    BY <1>2, <1>3, Zenon DEF Row
  <2>2. sessions' = [sessions EXCEPT ![s] = row]
    BY <1>6
  <2> HIDE DEF row
  <2>3. /\ sessions' \in Seq(Row) /\ Len(sessions') = Len(sessions) /\ Len(sessions) <= Len(sessions')
        /\ sessions'[s] = row /\ \A r \in Ids \ {s} : sessions'[r] = sessions[r]
    BY <1>1, <1>2, <2>1, <2>2, SMT DEF Typed, Ids
  <2>4. Kept
    BY <2>1, <2>3, Zenon DEF Kept
  <2>5. Typed'
    BY <1>1, <2>3, Zenon DEF Typed
  <2>6. ended[p] # Never => v <= ended[p] + VerifyLife + MaxLag
    <3>1. Answered(p, call[c].at)
      BY <1>1, <1>6, Zenon DEF CallOK
    <3>2. call[c].at \in Nat /\ ended[p] \in Nat
      BY <1>1, <1>2, Zenon DEF CallOK, CallRow, Typed
    <3> QED  BY <1>3, <3>1, <3>2, Constants, SMT DEF Answered
  <2>7. \A r \in Ids :
            \/ sessions'[r].verified = sessions[r].verified
            \/ /\ sessions'[r].verified <= now + VerifyLife
               /\ ended[sessions[r].provider] # Never =>
                     sessions'[r].verified <= ended[sessions[r].provider] + VerifyLife + MaxLag
    BY <1>3, <2>1, <2>3, <2>6, Zenon
  <2> QED  BY <1>1, <2>3, <2>4, <2>5, <2>7, IdleOK, RowsStep
<1> QED  BY <1>4, <1>5, <1>6, Zenon DEF MarkProviderState, v

-----------------------------------------------------------------------------
(* Steps that add a session, or move more than a row.                      *)

\* A new session is a row, bounded by its provider session.
LEMMA NewSessionIs ==
    ASSUME Inv, NEW a \in Subjects, NEW p \in ProviderSessions, NEW e \in Nat,
           NEW absolute \in Nat, NEW o \in Nat,
           NEW row, row = NewSession(a, p, e, absolute, o)
    PROVE  /\ row \in Row /\ row.account = a /\ row.provider = p /\ row.epoch = e
           /\ row.absolute = absolute /\ row.origin = o /\ ~row.revoked
           /\ row.verified \in Nat /\ row.verified <= now + VerifyLife
<1> DEFINE v == Earliest({now + VerifyLife, Expiry[p]})
<1>1. v \in Nat /\ v <= now + VerifyLife
  <2>1. now + VerifyLife \in Nat /\ Expiry[p] \in Nat
    BY Constants, SMT DEF Inv, Typed
  <2> QED  BY <2>1, EarliestOfTwo
<1>2. row = [account |-> a, provider |-> p, epoch |-> e, absolute |-> absolute,
             verified |-> v, origin |-> o, revoked |-> FALSE]
  BY Zenon DEF NewSession
<1> HIDE DEF v
<1>3. row \in Row /\ row.verified = v /\ row.account = a /\ row.provider = p /\ row.epoch = e
      /\ row.absolute = absolute /\ row.origin = o /\ ~row.revoked
  <2>1. row.verified = v /\ row.account = a /\ row.provider = p /\ row.epoch = e
        /\ row.absolute = absolute /\ row.origin = o /\ ~row.revoked
    BY <1>2, SMT
  <2>2. row \in Row
    BY <1>1, <1>2, SMT DEF Row
  <2> QED  BY <2>1, <2>2
<1> QED  BY <1>1, <1>3, Zenon

\* A new session after rows that are kept: what it takes for the invariant.
LEMMA AddedStep ==
    ASSUME Inv, NEW S, NEW row \in Row, NEW c \in Clients, NEW p \in ProviderSessions, NEW at \in Nat,
           sessions' = Append(Revoke(S), row),
           call' = [call EXCEPT ![c] = Idle], UNCHANGED <<now, email, epoch, ended>>,
           intents' \in Seq([session : Nat, consumed : BOOLEAN]), Len(intents') = Len(intents),
           \A i \in DOMAIN intents : intents'[i].session = intents[i].session,
           row.provider = p, Answered(p, at), row.verified <= now + VerifyLife,
           row.absolute <= Expiry[p],
           row.epoch <= epoch[row.account],
           loggedOut' = loggedOut \/ (loggedOut' = loggedOut \cup {Len(sessions) + 1}
                                       /\ row.epoch < epoch[row.account]),
           row.origin # 0 =>
               /\ row.origin \in Ids \cap S /\ ~sessions[row.origin].revoked
               /\ row.absolute <= sessions[row.origin].absolute
    PROVE  Inv'
<1> DEFINE n == Len(sessions) + 1
<1>1. /\ Typed /\ Ids = 1..Len(sessions) /\ Len(sessions) \in Nat
      /\ \A s \in Ids : sessions[s] \in Row
  BY IdsAre DEF Inv
<1>2. /\ Revoke(S) \in Seq(Row) /\ Len(Revoke(S)) = Len(sessions)
      /\ \A s \in Ids : Revoke(S)[s] = IF s \in S THEN [sessions[s] EXCEPT !.revoked = TRUE]
                                       ELSE sessions[s]
  BY <1>1, RevokeIs
<1>3. /\ sessions' \in Seq(Row) /\ Len(sessions') = n /\ Ids' = 1..n /\ sessions'[n] = row
      /\ \A s \in Ids : sessions'[s] = Revoke(S)[s]
  <2> HIDE DEF Row
  <2>1. sessions' \in Seq(Row) /\ Len(sessions') = n /\ sessions'[n] = row
    BY <1>1, <1>2, SMT
  <2>2. \A s \in 1..Len(sessions) : sessions'[s] = Revoke(S)[s]
    BY <1>1, <1>2, SMT
  <2>3. DOMAIN sessions' = 1..n
    BY <2>1, SMT
  <2> QED  BY <1>1, <2>1, <2>2, <2>3, Zenon DEF Ids
<1>4. Ids' = Ids \cup {n} /\ n \notin Ids /\ n \in Nat
  BY <1>1, <1>3, SMT
<1>5. \A s \in Ids :
          /\ sessions'[s].account = sessions[s].account /\ sessions'[s].provider = sessions[s].provider
          /\ sessions'[s].epoch = sessions[s].epoch /\ sessions'[s].absolute = sessions[s].absolute
          /\ sessions'[s].origin = sessions[s].origin /\ sessions'[s].verified = sessions[s].verified
          /\ sessions[s].revoked => sessions'[s].revoked
          /\ s \in S => sessions'[s].revoked
  <2> TAKE s \in Ids
  <2>1. sessions[s] \in Row /\ sessions'[s] = IF s \in S THEN [sessions[s] EXCEPT !.revoked = TRUE]
                                               ELSE sessions[s]
    BY <1>1, <1>2, <1>3, Zenon
  <2> QED  BY <2>1, Zenon DEF Row
<1>6. Kept
  <2>1. Len(sessions) <= Len(sessions')
    BY <1>1, <1>3, SMT
  <2> QED  BY <1>5, <2>1, Zenon DEF Kept
<1>7. Typed'
  BY <1>1, <1>3, Zenon DEF Typed
<1>8. now' = now /\ ended' = ended /\ epoch' = epoch
  OBVIOUS
<1>9. ASSUME NEW s \in Ids' PROVE RowInv(s)'
  <2>1. CASE s \in Ids
    <3>1. epoch[sessions[s].account] \in Nat
      BY <1>1, <2>1, RowFields, Zenon DEF Typed
    <3>2. epoch[sessions[s].account] <= epoch'[sessions[s].account]
      BY <3>1, SMT
    <3>3. s \in loggedOut' => s \in loggedOut
      BY <1>4, <2>1, Zenon
    <3> QED  BY <1>5, <1>6, <1>7, <2>1, <3>2, <3>3, RowKept
  <2>2. CASE s = n
    <3>1. sessions'[s] = row
      BY <1>3, <2>2
    <3>2. s \in loggedOut' => row.epoch < epoch[row.account]
      BY <1>4, <2>2, Zenon DEF Inv
    <3>3. ended[p] # Never => row.verified <= ended[p] + VerifyLife + MaxLag
      <4>1. row.verified \in Nat /\ ended[p] \in Nat /\ now \in Nat
        BY <1>1, RowFields, Zenon DEF Typed
      <4> QED  BY <4>1, Constants, SMT DEF Answered
    <3> QED  BY <1>8, <3>1, <3>2, <3>3, Zenon DEF RowInv
  <2> QED  BY <1>4, <2>1, <2>2
<1>10. ASSUME NEW s \in Ids' PROVE OriginInv(s)'
  <2>1. \A r \in Ids : sessions[r].origin # n
    <3> TAKE r \in Ids
    <3>1. sessions[r].origin # 0 => sessions[r].origin \in 1..(r - 1)
      BY Zenon DEF Inv, OriginInv
    <3> QED  BY <1>1, <3>1, SMT
  <2>2. CASE s \in Ids
    <3>1. CASE sessions[s].origin = 0
      BY <1>5, <2>2, <3>1, Zenon DEF OriginInv
    <3>2. CASE sessions[s].origin # 0
      <4>1. PICK o : o = sessions[s].origin
        OBVIOUS
      <4>2. /\ o \in 1..(s - 1) /\ sessions[o].revoked /\ sessions[s].absolute <= sessions[o].absolute
            /\ \A r \in Ids : sessions[r].origin = o => r = s
        BY <2>2, <3>2, <4>1, Zenon DEF Inv, OriginInv
      <4>3. o \in Ids /\ o # 0
        BY <1>1, <2>2, <4>2, SMT
      <4>4. /\ sessions'[s].origin = o /\ sessions'[s].absolute = sessions[s].absolute
            /\ sessions'[o].revoked /\ sessions'[o].absolute = sessions[o].absolute
        BY <1>5, <2>2, <4>1, <4>2, <4>3, Zenon
      <4>5. row.origin # o
        BY <4>2, <4>3, Zenon
      <4>6. \A r \in Ids' : sessions'[r].origin = o => r = s
        <5> TAKE r \in Ids'
        <5>1. CASE r \in Ids
          BY <1>5, <4>2, <5>1, Zenon
        <5>2. CASE r = n
          BY <1>3, <4>5, <5>2
        <5> QED  BY <1>4, <5>1, <5>2
      <4> QED  BY <4>2, <4>4, <4>6, Zenon DEF OriginInv
    <3> QED  BY <3>1, <3>2
  <2>3. CASE s = n /\ row.origin # 0
    <3>1. PICK o : o = row.origin
      OBVIOUS
    <3>2. o \in Ids /\ o \in S /\ ~sessions[o].revoked /\ row.absolute <= sessions[o].absolute
      BY <2>3, <3>1, Zenon
    <3>3. sessions'[s] = row
      BY <1>3, <2>3
    <3>4. sessions'[o].revoked /\ sessions'[o].absolute = sessions[o].absolute
      BY <1>5, <3>2, Zenon
    <3>5. o \in 1..(s - 1)
      BY <1>1, <2>3, <3>2, SMT
    <3>6. \A r \in Ids : sessions'[r].origin # o
      <4> TAKE r \in Ids
      <4>1. sessions[r].origin # 0 => sessions[sessions[r].origin].revoked
        BY Zenon DEF Inv, OriginInv
      <4>2. o # 0
        BY <2>3, <3>1
      <4>3. sessions[r].origin # o
        BY <3>2, <4>1, <4>2
      <4> QED  BY <1>5, <4>3
    <3>7. \A r \in Ids' : sessions'[r].origin = o => r = s
      BY <1>4, <2>3, <3>6, Zenon
    <3> QED  BY <3>1, <3>2, <3>3, <3>4, <3>5, <3>7, Zenon DEF OriginInv
  <2>4. CASE s = n /\ row.origin = 0
    BY <1>3, <2>4, Zenon DEF OriginInv
  <2> QED  BY <1>4, <2>2, <2>3, <2>4
<1>11. call' \in [Clients -> CallRow] /\ \A d \in Clients : CallOK(call[d])'
  <2>1. Len(intents) <= Len(intents')
    BY SMT DEF Inv, Typed
  <2> QED  BY <1>6, <1>7, <2>1, IdleOK, CallsKept
<1>12. (\A i \in DOMAIN intents : intents[i].session \in Ids)'
  <2>1. DOMAIN intents' = DOMAIN intents
    BY SMT DEF Inv, Typed
  <2> QED  BY <1>4, <2>1, Zenon DEF Inv
<1>13. (loggedOut \subseteq Ids)'
  BY <1>4, Zenon DEF Inv
<1> QED  BY <1>7, <1>9, <1>10, <1>11, <1>12, <1>13, Zenon DEF Inv

\* CreateSession keeps the invariant.
LEMMA CreateKeeps == ASSUME Inv, NEW c \in Browsers, CreateSession(c) PROVE Inv'
<1> DEFINE p == call[c].provider
           a == Owner[p]
           absolute == Earliest({now + AbsoluteLife, Expiry[p]})
           row == NewSession(a, p, epoch[a], absolute, 0)
<1>1. /\ c \in Clients /\ CallOK(call[c]) /\ call[c].op = "RESOLVED" /\ Typed
      /\ call' = [call EXCEPT ![c] = Idle]
      /\ UNCHANGED <<now, email, epoch, intents, ended, loggedOut>>
      /\ sessions' = Append(sessions, row)
  BY Zenon DEF Clients, Inv, CreateSession, Return
<1>2. p \in ProviderSessions /\ Answered(p, call[c].at) /\ call[c].at \in Nat
  BY <1>1, Zenon DEF CallOK, CallRow
<1>3. a \in Subjects /\ epoch[a] \in Nat /\ Expiry[p] \in Nat
  BY <1>1, <1>2, Constants, Zenon DEF Typed
<1>4. absolute \in Nat /\ absolute <= Expiry[p]
  <2>1. now + AbsoluteLife \in Nat
    BY <1>1, Constants, SMT DEF Typed
  <2> QED  BY <1>3, <2>1, EarliestOfTwo
<1> HIDE DEF absolute
<1>5. PICK r : r = row
  OBVIOUS
<1>6. /\ r \in Row /\ r.account = a /\ r.provider = p /\ r.epoch = epoch[a] /\ r.absolute = absolute
      /\ r.origin = 0 /\ r.verified <= now + VerifyLife
  <2>1. 0 \in Nat
    BY SMT
  <2> QED  BY <1>2, <1>3, <1>4, <1>5, <2>1, NewSessionIs, SMTT(30)
<1>7. sessions = Revoke({})
  <2>1. \A s \in Ids : Revoke({})[s] = sessions[s]
    BY <1>1, RevokeIs
  <2>2. Revoke({}) \in Seq(Row) /\ Len(Revoke({})) = Len(sessions) /\ sessions \in Seq(Row)
    BY <1>1, RevokeIs DEF Typed
  <2>3. \A s \in 1..Len(sessions) : Revoke({})[s] = sessions[s]
    BY <1>1, <2>1, IdsAre
  <2> HIDE DEF Revoke
  <2> QED  BY <2>2, <2>3, SMT
<1>8. /\ r.epoch <= epoch[r.account] /\ r.absolute <= Expiry[p]
  BY <1>3, <1>4, <1>6, SMT
<1>9. intents' \in Seq([session : Nat, consumed : BOOLEAN]) /\ Len(intents') = Len(intents)
      /\ \A i \in DOMAIN intents : intents'[i].session = intents[i].session
  BY <1>1, Zenon DEF Typed
<1>10. sessions' = Append(Revoke({}), r) /\ loggedOut' = loggedOut /\ ~(r.origin # 0)
  BY <1>1, <1>5, <1>6, <1>7
<1> QED  BY <1>1, <1>2, <1>6, <1>8, <1>9, <1>10, AddedStep

\* CompleteStepUp keeps the invariant.
LEMMA StepUpKeeps == ASSUME Inv, NEW c \in Browsers, CompleteStepUp(c) PROVE Inv'
<1> DEFINE i == call[c].intent
           p == call[c].provider
           s == intents[i].session
           absolute == Earliest({sessions[s].absolute, Expiry[p]})
           row == NewSession(sessions[s].account, p, sessions[s].epoch, absolute, s)
<1>1. /\ c \in Clients /\ CallOK(call[c]) /\ call[c].op = "CALLBACK" /\ i # 0 /\ Typed
      /\ call' = [call EXCEPT ![c] = Idle] /\ Within(s)
      /\ UNCHANGED <<now, email, epoch, ended>>
      /\ sessions' = Append(Revoke({s}), row)
      /\ intents' = [intents EXCEPT ![i].consumed = TRUE]
      /\ loggedOut' = loggedOut \cup (IF s \in loggedOut THEN {Len(sessions) + 1} ELSE {})
  BY Zenon DEF Clients, Inv, CompleteStepUp, Return
<1>2. p \in ProviderSessions /\ Answered(p, call[c].at) /\ call[c].at \in Nat /\ i \in 0..Len(intents)
  BY <1>1, Zenon DEF CallOK, CallRow
<1>3. i \in DOMAIN intents /\ intents[i] \in [session : Nat, consumed : BOOLEAN]
  <2>1. intents \in Seq([session : Nat, consumed : BOOLEAN])
    BY <1>1 DEF Typed
  <2>2. \A j \in 0..Len(intents) : j # 0 =>
            j \in DOMAIN intents /\ intents[j] \in [session : Nat, consumed : BOOLEAN]
    BY <2>1, ElementIs
  <2> QED  BY <1>1, <1>2, <2>2, Zenon
<1>4. s \in Ids
  BY <1>3, Zenon DEF Inv
<1>5. sessions[s] \in Row /\ s \in Nat /\ s # 0
  <2>1. Ids = 1..Len(sessions) /\ Len(sessions) \in Nat /\ \A r \in Ids : sessions[r] \in Row
    BY <1>1, IdsAre
  <2>2. \A r \in 1..Len(sessions) : r \in Nat /\ r # 0
    BY <2>1, SMT
  <2> QED  BY <1>4, <2>1, <2>2, Zenon
<1>6. /\ sessions[s].account \in Subjects /\ sessions[s].epoch \in Nat /\ sessions[s].absolute \in Nat
      /\ Expiry[p] \in Nat
  BY <1>2, <1>5, RowFields, Constants
<1>7. absolute \in Nat /\ absolute <= Expiry[p] /\ absolute <= sessions[s].absolute
  BY <1>6, EarliestOfTwo
<1>8. intents' \in Seq([session : Nat, consumed : BOOLEAN]) /\ Len(intents') = Len(intents)
      /\ \A j \in DOMAIN intents : intents'[j].session = intents[j].session
  <2> DEFINE used == [intents[i] EXCEPT !.consumed = TRUE]
  <2>1. used \in [session : Nat, consumed : BOOLEAN] /\ used.session = intents[i].session
    BY <1>3, Zenon
  <2>2. intents' = [intents EXCEPT ![i] = used]
    BY <1>1
  <2> HIDE DEF used
  <2>3. intents' \in Seq([session : Nat, consumed : BOOLEAN]) /\ Len(intents') = Len(intents)
        /\ intents'[i] = used /\ \A j \in DOMAIN intents \ {i} : intents'[j] = intents[j]
    <3>1. intents \in Seq([session : Nat, consumed : BOOLEAN])
      BY <1>1 DEF Typed
    <3>2. PICK j : j = i
      OBVIOUS
    <3>3. j \in DOMAIN intents /\ intents' = [intents EXCEPT ![j] = used]
      BY <1>3, <2>2, <3>2, Zenon
    <3>4. intents' \in Seq([session : Nat, consumed : BOOLEAN]) /\ Len(intents') = Len(intents)
          /\ intents'[j] = used /\ \A k \in DOMAIN intents \ {j} : intents'[k] = intents[k]
      BY <2>1, <3>1, <3>3, SMT
    <3> QED  BY <3>2, <3>4, Zenon
  <2> QED  BY <2>1, <2>3, Zenon
<1> HIDE DEF absolute
<1>9. PICK r : r = row
  OBVIOUS
<1>10. /\ r \in Row /\ r.account = sessions[s].account /\ r.provider = p /\ r.epoch = sessions[s].epoch
       /\ r.absolute = absolute /\ r.origin = s /\ r.verified <= now + VerifyLife
  <2>1. PICK a, e, b, q, o : a = sessions[s].account /\ e = sessions[s].epoch /\ b = absolute
                              /\ q = p /\ o = s
    OBVIOUS
  <2>2. r = NewSession(a, q, e, b, o)
    BY <1>9, <2>1, Zenon
  <2>3. a \in Subjects /\ e \in Nat /\ q \in ProviderSessions /\ b \in Nat /\ o \in Nat
    BY <1>2, <1>5, <1>6, <1>7, <2>1, Zenon
  <2>4. /\ r \in Row /\ r.account = a /\ r.provider = q /\ r.epoch = e /\ r.absolute = b
        /\ r.origin = o /\ r.verified <= now + VerifyLife
    BY <2>2, <2>3, NewSessionIs
  <2> QED  BY <2>1, <2>4, Zenon
<1>11. /\ r.epoch <= epoch[r.account]
       /\ s \in loggedOut => r.epoch < epoch[r.account]
  BY <1>4, <1>10, Zenon DEF Inv, RowInv
<1>12. loggedOut' = loggedOut \/ (loggedOut' = loggedOut \cup {Len(sessions) + 1}
                                   /\ r.epoch < epoch[r.account])
  BY <1>1, <1>11
<1>13. /\ r.origin \in Ids \cap {s} /\ ~sessions[r.origin].revoked
       /\ r.absolute <= sessions[r.origin].absolute /\ r.absolute <= Expiry[p]
  BY <1>1, <1>4, <1>7, <1>10 DEF Within, Live
<1>14. sessions' = Append(Revoke({s}), r)
  BY <1>1, <1>9
<1> QED  BY <1>1, <1>2, <1>8, <1>10, <1>11, <1>12, <1>13, <1>14, AddedStep

\* CreateStepUp keeps the invariant.
LEMMA IntentKeeps == ASSUME Inv, NEW s \in Ids, CreateStepUp(s) PROVE Inv'
<1> DEFINE row == [session |-> s, consumed |-> FALSE]
<1>1. /\ intents' = Append(intents, row) /\ Typed
      /\ UNCHANGED <<now, email, epoch, sessions, ended, call, loggedOut>>
  BY Zenon DEF CreateStepUp, Inv
<1>2. s \in Nat
  BY <1>1, IdsAre, SMT
<1>3. row \in [session : Nat, consumed : BOOLEAN] /\ row.session = s
  BY <1>2, SMT
<1> HIDE DEF row
<1>4. /\ intents' \in Seq([session : Nat, consumed : BOOLEAN]) /\ Len(intents) <= Len(intents')
      /\ \A i \in DOMAIN intents' : intents'[i] = row \/ (i \in DOMAIN intents /\ intents'[i] = intents[i])
  BY <1>1, <1>3, SMT DEF Typed
<1>5. Typed' /\ Kept
  <2>1. Len(sessions) <= Len(sessions')
    BY <1>1, SMT DEF Typed
  <2> QED  BY <1>1, <1>4, <2>1, Zenon DEF Typed, Kept
<1>6. (\A i \in DOMAIN intents : intents[i].session \in Ids)'
  BY <1>1, <1>3, <1>4, Zenon DEF Inv, Ids
<1>7. call' \in [Clients -> CallRow] /\ \A d \in Clients : CallOK(call[d])'
  <2>1. ASSUME NEW d \in Clients PROVE CallOK(call[d])'
    <3>1. PICK u : u = call[d]
      OBVIOUS
    <3>2. CallOK(u)
      BY <3>1, Zenon DEF Inv
    <3>3. CallOK(u)'
      BY <1>1, <1>4, <1>5, <3>2, CallKept
    <3> QED  BY <1>1, <3>1, <3>3 DEF CallOK, Answered
  <2> QED  BY <1>1, <2>1, Zenon DEF Inv
<1>8. (loggedOut \subseteq Ids)' /\ (\A r \in Ids : RowInv(r))' /\ (\A r \in Ids : OriginInv(r))'
  BY <1>1, Zenon DEF Inv, RowInv, OriginInv, Ids
<1> QED  BY <1>5, <1>6, <1>7, <1>8, Zenon DEF Inv

\* A sweep: the epoch moves before a row of the account counts as logged out.
LEMMA SweepKeeps == ASSUME Inv, NEW c \in Sweepers, Sweep(c) PROVE Inv'
<1> DEFINE a == sessions[call[c].session].account
<1>1. /\ c \in Clients /\ CallOK(call[c]) /\ Typed /\ sessions' = Revoke(call[c].rows)
      /\ call' = [call EXCEPT ![c] = Idle] /\ UNCHANGED <<now, email, intents, ended>>
      /\ epoch' = IF call[c].op = "ALL" THEN [epoch EXCEPT ![a] = @ + 1] ELSE epoch
      /\ loggedOut' = loggedOut \cup (IF call[c].op = "ALL" THEN {s \in Ids : sessions[s].account = a}
                                      ELSE {})
  BY Zenon DEF Clients, Inv, Sweep, Return
<1>2. /\ sessions' \in Seq(Row) /\ Len(sessions') = Len(sessions) /\ Kept
      /\ \A s \in Ids : sessions'[s].verified = sessions[s].verified
  BY <1>1, RevokedKept
<1>3. call[c].op = "ALL" => a \in Subjects
  BY <1>1, IdsAre, RowFields DEF CallOK
<1>4. /\ epoch' \in [Subjects -> Nat] /\ \A b \in Subjects : epoch[b] <= epoch'[b]
      /\ call[c].op = "ALL" => epoch[a] < epoch'[a]
  <2>1. epoch \in [Subjects -> Nat]
    BY <1>1 DEF Typed
  <2> HIDE DEF a
  <2>2. CASE call[c].op = "ALL"
    BY <1>1, <1>3, <2>1, <2>2, SMT
  <2>3. CASE call[c].op # "ALL"
    BY <1>1, <2>1, <2>3, SMT
  <2> QED  BY <2>2, <2>3
<1>5. Typed'
  BY <1>1, <1>2, <1>4, Zenon DEF Typed
<1>6. Ids' = Ids
  <2>1. sessions' \in Seq(Row) /\ sessions \in Seq(Row)
    BY <1>1, <1>2, Zenon DEF Typed
  <2> QED  BY <1>2, <2>1, SMT DEF Ids
<1>7. \A s \in Ids : RowInv(s)'
  <2> TAKE s \in Ids
  <2>1. sessions[s].account \in Subjects
    BY <1>1, IdsAre, RowFields
  <2>2. epoch[sessions[s].account] <= epoch'[sessions[s].account]
    BY <1>4, <2>1, Zenon
  <2>3. s \in loggedOut' =>
            s \in loggedOut \/ epoch[sessions[s].account] < epoch'[sessions[s].account]
    BY <1>1, <1>4
  <2> QED  BY <1>1, <1>2, <1>5, <2>2, <2>3, RowKept
<1>8. \A s \in Ids' : OriginInv(s)'
  BY <1>2, <1>5, <1>6, OriginsKept
<1>9. call' \in [Clients -> CallRow] /\ \A d \in Clients : CallOK(call[d])'
  <2>1. Len(intents) <= Len(intents')
    BY <1>1, SMT DEF Typed
  <2> QED  BY <1>1, <1>2, <1>5, <2>1, IdleOK, CallsKept
<1>10. (\A i \in DOMAIN intents : intents[i].session \in Ids)' /\ (loggedOut \subseteq Ids)'
  BY <1>1, <1>6, Zenon DEF Inv
<1> QED  BY <1>5, <1>6, <1>7, <1>8, <1>9, <1>10, Zenon DEF Inv

\* The end of a provider session: whatever counts on it was answered before.
LEMMA EndKeeps == ASSUME Inv, NEW p \in ProviderSessions, EndAtProvider(p) PROVE Inv'
<1>1. /\ Typed /\ ended[p] = Never /\ ended' = [ended EXCEPT ![p] = now]
      /\ UNCHANGED <<now, email, epoch, sessions, intents, call, loggedOut>>
  BY Zenon DEF EndAtProvider, Inv
<1>2. /\ now \in Nat /\ ended' \in [ProviderSessions -> Nat] /\ ended'[p] = now
      /\ \A q \in ProviderSessions \ {p} : ended'[q] = ended[q]
  BY <1>1, Zenon DEF Typed
<1>3. \A q \in ProviderSessions, at \in Nat : Answered(q, at) => Answered(q, at)'
  BY <1>1, <1>2, SMT DEF Answered
<1>4. Typed' /\ Ids' = Ids
  BY <1>1, <1>2, Zenon DEF Typed, Ids
<1>5. \A d \in Clients : CallOK(call[d])'
  <2> TAKE d \in Clients
  <2>1. CallOK(call[d]) /\ call[d].at \in Nat /\ call' = call
    BY <1>1, Zenon DEF Inv, CallOK, CallRow
  <2>2. call[d].session \in Ids => sessions[call[d].session].provider \in ProviderSessions
    BY <1>1, IdsAre, RowFields
  <2>3. call[d].op = "ANSWERED" =>
            (call[d].active => Answered(sessions[call[d].session].provider, call[d].at)')
    BY <1>1, <1>3, <2>1, <2>2, Zenon DEF CallOK
  <2>4. call[d].op \in {"CALLBACK", "RESOLVED"} => Answered(call[d].provider, call[d].at)'
    BY <1>1, <1>3, <2>1, Zenon DEF CallOK
  <2> QED  BY <1>1, <1>4, <2>1, <2>3, <2>4, Zenon DEF CallOK
<1>6. \A s \in Ids : RowInv(s)'
  <2> TAKE s \in Ids
  <2>1. RowInv(s) /\ sessions[s].provider \in ProviderSessions /\ sessions[s].verified \in Nat
    BY <1>1, IdsAre, RowFields DEF Inv
  <2>2. CASE sessions[s].provider = p
    <3>1. sessions[s].verified <= now + VerifyLife + MaxLag
      BY <1>2, <2>1, Constants, SMT DEF RowInv
    <3>2. ended'[sessions[s].provider] = now
      BY <1>2, <2>2
    <3> QED  BY <1>1, <2>1, <3>1, <3>2, Zenon DEF RowInv
  <2>3. CASE sessions[s].provider # p
    <3>1. ended'[sessions[s].provider] = ended[sessions[s].provider]
      BY <1>2, <2>1, <2>3
    <3> QED  BY <1>1, <2>1, <3>1, Zenon DEF RowInv
  <2> QED  BY <2>2, <2>3
<1>7. (\A s \in Ids : OriginInv(s))' /\ call' \in [Clients -> CallRow]
  BY <1>1, <1>4, Zenon DEF Inv, OriginInv
<1>8. (\A i \in DOMAIN intents : intents[i].session \in Ids)' /\ (loggedOut \subseteq Ids)'
  BY <1>1, <1>4, Zenon DEF Inv
<1> QED  BY <1>4, <1>5, <1>6, <1>7, <1>8, Zenon DEF Inv

\* Time passes, but not past what a caller may take over an answer.
LEMMA TickKeeps == ASSUME Inv, Tick PROVE Inv'
<1>1. /\ Typed /\ now \in Nat /\ now' = now + 1
      /\ UNCHANGED <<email, epoch, sessions, intents, ended, call, loggedOut>>
      /\ \A c \in Clients :
            call[c].op \in {"CALLBACK", "RESOLVED", "ANSWERED"} => now - call[c].at < MaxLag
  BY Zenon DEF Tick, Inv, Typed
<1>2. Typed' /\ Ids' = Ids
  <2>1. now' \in Nat
    BY <1>1, SMT
  <2> QED  BY <1>1, <2>1, Zenon DEF Typed, Ids
<1>3. \A p : \A at \in Nat : Answered(p, at) /\ now - at < MaxLag => Answered(p, at)'
  <2> TAKE p
  <2> TAKE at \in Nat
  <2>1. at <= now /\ now - at < MaxLag => at <= now + 1 /\ now + 1 <= at + MaxLag
    BY <1>1, Constants, SMT
  <2> QED  BY <1>1, <2>1, Zenon DEF Answered
<1>4. \A d \in Clients : CallOK(call[d])'
  <2> TAKE d \in Clients
  <2>1. CallOK(call[d]) /\ call[d].at \in Nat /\ call' = call
    BY <1>1, Zenon DEF Inv, CallOK, CallRow
  <2>2. call[d].op = "ANSWERED" =>
            /\ call[d].at <= now + 1 /\ now + 1 <= call[d].at + MaxLag
            /\ call[d].active => Answered(sessions[call[d].session].provider, call[d].at)'
    <3>1. CASE call[d].op = "ANSWERED"
      <4>1. now - call[d].at < MaxLag /\ call[d].at <= now
        BY <1>1, <2>1, <3>1, Zenon DEF CallOK
      <4>2. call[d].at <= now + 1 /\ now + 1 <= call[d].at + MaxLag
        BY <1>1, <2>1, <4>1, Constants, SMT
      <4>3. call[d].active => Answered(sessions[call[d].session].provider, call[d].at)'
        BY <1>1, <1>3, <2>1, <3>1, <4>1, Zenon DEF CallOK
      <4> QED  BY <4>2, <4>3
    <3> QED  BY <3>1
  <2>3. call[d].op \in {"CALLBACK", "RESOLVED"} => Answered(call[d].provider, call[d].at)'
    <3>1. CASE call[d].op \in {"CALLBACK", "RESOLVED"}
      <4>1. call[d].op \in {"CALLBACK", "RESOLVED", "ANSWERED"}
        BY <3>1
      <4>2. now - call[d].at < MaxLag /\ Answered(call[d].provider, call[d].at)
        BY <1>1, <2>1, <3>1, <4>1, Zenon DEF CallOK
      <4> QED  BY <1>1, <1>3, <2>1, <4>2, Zenon
    <3> QED  BY <3>1
  <2> QED  BY <1>1, <1>2, <2>1, <2>2, <2>3, Zenon DEF CallOK
<1>5. \A s \in Ids : RowInv(s)'
  <2> TAKE s \in Ids
  <2>1. RowInv(s) /\ sessions[s].verified \in Nat
    BY <1>1, IdsAre, RowFields DEF Inv
  <2>2. sessions[s].verified <= now' + VerifyLife
    BY <1>1, <2>1, Constants, SMT DEF RowInv
  <2> QED  BY <1>1, <2>1, <2>2, Zenon DEF RowInv
<1>6. (\A s \in Ids : OriginInv(s))' /\ call' \in [Clients -> CallRow]
  BY <1>1, <1>2, Zenon DEF Inv, OriginInv
<1>7. (\A i \in DOMAIN intents : intents[i].session \in Ids)' /\ (loggedOut \subseteq Ids)'
  BY <1>1, <1>2, Zenon DEF Inv
<1> QED  BY <1>2, <1>4, <1>5, <1>6, <1>7, Zenon DEF Inv

-----------------------------------------------------------------------------
(* The theorems.                                                           *)

\* The invariant holds at first.
LEMMA Initially == Init => Inv
<1> SUFFICES ASSUME Init PROVE Inv
  OBVIOUS
<1>1. Typed
  <2>1. sessions \in Seq(Row) /\ intents \in Seq([session : Nat, consumed : BOOLEAN])
    BY SMT DEF Init
  <2> QED  BY <2>1, SMT DEF Init, Typed, Never
<1>2. Ids = {} /\ DOMAIN intents = {} /\ loggedOut = {}
  BY SMT DEF Init, Ids
<1>3. call \in [Clients -> CallRow] /\ \A c \in Clients : CallOK(call[c])
  <2>1. \A c \in Clients : call[c] = Idle
    BY Zenon DEF Init
  <2> QED  BY <2>1, IdleOK, Zenon DEF CallOK, Init
<1> QED  BY <1>1, <1>2, <1>3, Zenon DEF Inv

\* Every step keeps the invariant.
LEMMA Stepwise == Inv /\ [Next]_vars => Inv'
<1> SUFFICES ASSUME Inv, [Next]_vars PROVE Inv'
  OBVIOUS
<1>1. CASE UNCHANGED vars
  BY <1>1, Zenon DEF vars, Inv, Typed, RowInv, OriginInv, CallOK, Answered, Ids
<1>2. ASSUME NEW c \in Browsers, NEW p \in ProviderSessions, NEW m \in Emails,
             NEW i \in {0} \cup DOMAIN intents, Exchange(c, p, m, i) PROVE Inv'
  BY <1>2, ExchangeKeeps
<1>3. ASSUME NEW c \in Sweepers, NEW p \in ProviderSessions, SessionRevokedEvent(c, p) PROVE Inv'
  BY <1>3, BeginKeeps, Zenon DEF SessionRevokedEvent
<1>4. ASSUME NEW c \in Sweepers, NEW a \in Subjects, IdentityEvent(c, a) PROVE Inv'
  BY <1>4, BeginKeeps, Zenon DEF IdentityEvent, LiveOf
<1>5. ASSUME NEW s \in Ids, Logout(s) PROVE Inv'
  BY <1>5, RevokeKeeps DEF Logout
<1> QED
  BY <1>1, <1>2, <1>3, <1>4, <1>5, ResolveKeeps, CreateKeeps, StepUpKeeps, AuthenticateKeeps, AskKeeps,
     MarkKeeps, RevokeAllKeeps, SweepKeeps, LeaveKeeps, IntentKeeps, EndKeeps, TickKeeps, Zenon DEF Next

\* What a password reset has ended are sessions, by number.
ResetNumbers == reset \subseteq Nat

\* They stay so.
LEMMA ResetTyped == Inv /\ ResetNumbers /\ [Next]_vars => ResetNumbers'
<1> SUFFICES ASSUME Inv, reset \subseteq Nat, [Next]_vars PROVE reset' \subseteq Nat
  BY Zenon DEF ResetNumbers
<1>1. ASSUME NEW c \in Browsers, CompleteStepUp(c) PROVE reset' \subseteq Nat
  <2>1. Len(sessions) + 1 \in Nat
    BY SMT DEF Inv, Typed
  <2> QED  BY <1>1, <2>1, Zenon DEF CompleteStepUp
<1>2. ASSUME NEW c \in Sweepers, Sweep(c) PROVE reset' \subseteq Nat
  <2>1. call[c] \in CallRow
    BY Zenon DEF Inv, Clients
  <2>2. call[c].rows \in SUBSET Nat
    BY <2>1, Zenon DEF CallRow
  <2>3. Ids \subseteq Nat
    BY SMT DEF Inv, Typed, Ids
  <2> QED  BY <1>2, <2>2, <2>3, Zenon DEF Sweep
<1>3. ASSUME UNCHANGED reset PROVE reset' \subseteq Nat
  BY <1>3, Zenon
<1> QED
  BY <1>1, <1>2, <1>3, Zenon DEF Next, vars, Exchange, ResolveIdentity, CreateSession, Authenticate,
     AskProvider, MarkProviderState, SessionRevokedEvent, IdentityEvent, Begin, RevokeAll, Leave,
     CreateStepUp, Logout, EndAtProvider, Tick

\* The invariant holds throughout.
LEMMA Invariance == Spec => []Inv
  BY Initially, Stepwise, PTL DEF Spec

\* The columns keep their types and the calls what they need.
THEOREM TypeCorrect == Spec => []TypeOK
<1>1. Inv /\ ResetNumbers => TypeOK
  <2> SUFFICES ASSUME Inv, reset \subseteq Nat PROVE TypeOK
    BY DEF ResetNumbers
  <2>1. loggedOut \subseteq Nat
    BY IdsAre, SMT DEF Inv
  <2> QED  BY <2>1, Zenon DEF Inv, Typed, TypeOK, Row, CallRow
<1>2. Init => ResetNumbers
  BY Zenon DEF Init, ResetNumbers
<1> QED  BY <1>1, <1>2, ResetTyped, Invariance, PTL DEF Spec

\* A session that a global logout ended, and whatever is rotated out of it, is
\* never authentic again, although the sweep misses rows in flight.
THEOREM LogoutIsForGood == Spec => []LoggedOutForGood
<1>1. Inv => LoggedOutForGood
  <2> SUFFICES ASSUME Inv, NEW s \in Ids, s \in loggedOut PROVE ~Authentic(s)
    BY DEF LoggedOutForGood
  <2>1. sessions[s].epoch < epoch[sessions[s].account]
    BY Zenon DEF Inv, RowInv
  <2>2. sessions[s].epoch \in Nat /\ epoch[sessions[s].account] \in Nat
    <3>1. Typed /\ sessions[s] \in Row
      BY IdsAre DEF Inv
    <3> QED  BY <3>1, RowFields, Zenon DEF Typed
  <2>3. sessions[s].epoch # epoch[sessions[s].account]
    BY <2>1, <2>2, SMT
  <2> QED  BY <2>3, Zenon DEF Authentic
<1> QED  BY <1>1, Invariance, PTL

\* A session is rotated once at most, and is revoked by it.
THEOREM RotationOnce == Spec => []RotatedOnce
<1>1. Inv => RotatedOnce
  BY Zenon DEF Inv, OriginInv, RotatedOnce, Live
<1> QED  BY <1>1, Invariance, PTL

\* No chain of step-ups outlives the session it began with.
THEOREM StepUpsNeverOutlive == Spec => []NeverOutlives
<1>1. Inv => NeverOutlives
  BY Zenon DEF Inv, OriginInv, RowInv, NeverOutlives
<1> QED  BY <1>1, Invariance, PTL

\* What a lost event costs is the verification horizon and the lag of a call.
THEOREM HorizonCorrect == Spec => []HorizonBounds
<1>1. Inv => HorizonBounds
  BY Zenon DEF Inv, RowInv, HorizonBounds, Live
<1> QED  BY <1>1, Invariance, PTL
=============================================================================
