------------------------------ MODULE Sessions ------------------------------
(***************************************************************************)
(* Sessions and step-up (migration 004 and the auth routes of apps/web):   *)
(* a callback exchanges a code at the identity provider, resolves the      *)
(* account and establishes a session; requests authenticate with it and    *)
(* ask the provider again when its last answer is too old; a step-up       *)
(* rotates it; logout, provider events and a global logout revoke.         *)
(*                                                                         *)
(* Each function is one READ COMMITTED transaction.  One that changes one  *)
(* row is one step (rows are held for moments: that the clock is read      *)
(* before the row is had is ignored).  One that revokes many rows sees the *)
(* rows that were committed when its statement began and revokes, later,   *)
(* those that are still live: two steps.  Provider calls happen between    *)
(* transactions.                                                           *)
(*                                                                         *)
(* An account has one binding, the provider subject it was created for,    *)
(* and is named by it.  Nothing in the code disables a binding or an       *)
(* account, so those checks are left out.  So are the inactivity limit and *)
(* the life of an intent: a session or an intent nobody uses again in time *)
(* is one that nobody uses again.                                          *)
(***************************************************************************)
EXTENDS Integers, Sequences, FiniteSetsExt

CONSTANTS Browsers, Sweepers,  \* callers: pages, and webhooks or a global logout
          Subjects,          \* provider users, and so accounts
          Emails,
          ProviderSessions,
          NoOne,               \* no provider session, no e-mail
          Owner,             \* the subject of each provider session
          Expiry,            \* when each provider session expires
          AbsoluteLife, VerifyLife,
          MaxLag,            \* bound: how long a caller takes over an answer
          MaxTime, MaxSessions, MaxIntents, MaxLogouts, MaxEnded   \* bounds

ASSUME SessionsAssumption ==
    /\ Owner \in [ProviderSessions -> Subjects] /\ Expiry \in [ProviderSessions -> Nat]
    /\ {AbsoluteLife, VerifyLife, MaxLag} \subseteq Nat \ {0}
    /\ {MaxTime, MaxSessions, MaxIntents, MaxLogouts, MaxEnded} \subseteq Nat
    /\ NoOne \notin ProviderSessions \cup Emails

VARIABLES now,
          email,      \* account_identity_bindings: the address of each subject
          epoch,      \* account_security_states.security_epoch
          sessions,   \* auth_sessions, by id; a rotated row names its origin
          intents,    \* auth_step_up_intents, by id
          ended,      \* when each provider session was ended at the provider
          call,       \* what each client is in the middle of
          loggedOut,  \* history: sessions a global logout ended, and their rotations
          reset       \* history: sessions a password reset ended, and their rotations

vars == <<now, email, epoch, sessions, intents, ended, call, loggedOut, reset>>

Clients == Browsers \cup Sweepers

Never == 0

Idle == [op |-> "IDLE", session |-> 0, provider |-> NoOne, mail |-> NoOne, intent |-> 0,
         rows |-> {}, active |-> FALSE, at |-> 0]

Earliest(S) == Min(S)

Ids == DOMAIN sessions

Live(s) == ~sessions[s].revoked

LiveOf(a) == {s \in Ids : Live(s) /\ sessions[s].account = a}

\* The columns keep their types and the rows their check constraints.
TypeOK ==
    /\ now \in Nat /\ email \in [Subjects -> Emails \cup {NoOne}] /\ epoch \in [Subjects -> Nat]
    /\ sessions \in Seq([account : Subjects, provider : ProviderSessions, epoch : Nat, absolute : Nat,
                         verified : Nat, origin : Nat, revoked : BOOLEAN])
    /\ intents \in Seq([session : Nat, consumed : BOOLEAN])
    /\ ended \in [ProviderSessions -> Nat]
    /\ call \in [Clients -> [op : {"IDLE", "CALLBACK", "RESOLVED", "RECHECK", "ANSWERED", "ALL", "EVENT", "RESET"},
                             session : Nat, provider : ProviderSessions \cup {NoOne},
                             mail : Emails \cup {NoOne}, intent : Nat, rows : SUBSET Nat,
                             active : BOOLEAN, at : Nat]]
    /\ loggedOut \subseteq Nat /\ reset \subseteq Nat

Init ==
    /\ now = 1 /\ email = [a \in Subjects |-> NoOne] /\ epoch = [a \in Subjects |-> 1]
    /\ sessions = <<>> /\ intents = <<>>
    /\ ended = [p \in ProviderSessions |-> Never]
    /\ call = [c \in Clients |-> Idle]
    /\ loggedOut = {} /\ reset = {}

\* A global logout holds the row it was called with, and the account's epoch.
RowFree(s) == \A c \in Clients : ~(call[c].op = "ALL" /\ call[c].session = s)

EpochFree(a) ==
    \A c \in Clients : ~(call[c].op = "ALL" /\ sessions[call[c].session].account = a)

\* MUTANT: a session the provider lists counts as active, whatever its status.
ProviderLists(p) == now < Expiry[p]

ProviderActive(p) == ended[p] = Never /\ now < Expiry[p]

Return(c) == call' = [call EXCEPT ![c] = Idle]

\* MUTANT: a revoked session is taken for one within its limits.
WithinLimits(s) == now < sessions[s].absolute /\ now < Expiry[sessions[s].provider]

Within(s) ==
    /\ Live(s)
    /\ now < sessions[s].absolute
    /\ now < Expiry[sessions[s].provider]

\* MUTANT: nobody looks at the epoch.
AuthenticAnyEpoch(s) == Within(s)

Authentic(s) == Within(s) /\ sessions[s].epoch = epoch[sessions[s].account]

Revoke(S) == [s \in Ids |-> IF s \in S THEN [sessions[s] EXCEPT !.revoked = TRUE] ELSE sessions[s]]

\* MUTANT: two columns are swapped.
NewSessionSwapped(a, p, e, absolute, origin) ==
    [account |-> p, provider |-> a, epoch |-> e, absolute |-> absolute,
     verified |-> Earliest({now + VerifyLife, Expiry[p]}), origin |-> origin, revoked |-> FALSE]

NewSession(a, p, e, absolute, origin) ==
    [account |-> a, provider |-> p, epoch |-> e, absolute |-> absolute,
     verified |-> Earliest({now + VerifyLife, Expiry[p]}),
     origin |-> origin, revoked |-> FALSE]

(***************************************************************************)
(* The callback: exchange, resolve and create, or exchange and step up.    *)
(***************************************************************************)
Exchange(c, p, m, i) ==
    /\ call[c] = Idle /\ ProviderActive(p) /\ Len(sessions) < MaxSessions
    /\ call' = [call EXCEPT ![c] = [Idle EXCEPT !.op = "CALLBACK", !.provider = p, !.mail = m,
                                                !.intent = i, !.at = now]]
    /\ UNCHANGED <<now, email, epoch, sessions, intents, ended, loggedOut, reset>>

\* An address that belongs to another account is ambiguous and refused.
ResolveIdentity(c) ==
    LET a == Owner[call[c].provider] IN
    /\ call[c].op = "CALLBACK" /\ call[c].intent = 0
    /\ \A b \in Subjects \ {a} : email[b] # call[c].mail
    /\ email' = [email EXCEPT ![a] = call[c].mail]
    /\ call' = [call EXCEPT ![c].op = "RESOLVED"]
    /\ UNCHANGED <<now, epoch, sessions, intents, ended, loggedOut, reset>>

CreateSession(c) ==
    LET p == call[c].provider
        a == Owner[p]
    IN
    /\ call[c].op = "RESOLVED" /\ EpochFree(a) /\ Len(sessions) < MaxSessions
    /\ now < Expiry[p] /\ \A s \in Ids : Live(s) => sessions[s].provider # p
    /\ sessions' = Append(sessions, NewSession(a, p, epoch[a],
                                               Earliest({now + AbsoluteLife, Expiry[p]}), 0))
    /\ Return(c)
    /\ UNCHANGED <<now, email, epoch, intents, ended, loggedOut, reset>>

CreateStepUp(s) ==
    /\ Len(intents) < MaxIntents /\ RowFree(s) /\ Within(s)
    /\ intents' = Append(intents, [session |-> s, consumed |-> FALSE])
    /\ UNCHANGED <<now, email, epoch, sessions, ended, call, loggedOut, reset>>

\* The old row ends and the new one begins in one transaction.  The new one
\* keeps the epoch and at most the absolute end of the old one.
CompleteStepUp(c) ==
    LET i == call[c].intent
        p == call[c].provider
        s == intents[i].session
        absolute == Earliest({sessions[s].absolute, Expiry[p]})
    IN
    /\ call[c].op = "CALLBACK" /\ i # 0 /\ RowFree(s) /\ Len(sessions) < MaxSessions
    /\ Within(s) /\ Owner[p] = sessions[s].account
    /\ ~intents[i].consumed /\ now < absolute
    /\ \A r \in Ids \ {s} : Live(r) => sessions[r].provider # p
    /\ sessions' = Append(Revoke({s}), NewSession(sessions[s].account, p, sessions[s].epoch,
                                                  absolute, s))
    /\ intents' = [intents EXCEPT ![i].consumed = TRUE]
    /\ loggedOut' = loggedOut \cup (IF s \in loggedOut THEN {Len(sessions) + 1} ELSE {})
    /\ reset' = reset \cup (IF s \in reset THEN {Len(sessions) + 1} ELSE {})
    /\ Return(c)
    /\ UNCHANGED <<now, email, epoch, ended>>

(***************************************************************************)
(* A protected page: authenticate and serve, or ask the provider again     *)
(* when its answer is too old; what the mark found is not looked at.       *)
(***************************************************************************)
Authenticate(c, s) ==
    /\ call[c] = Idle /\ RowFree(s)
    /\ IF Authentic(s)
       THEN /\ UNCHANGED sessions
            /\ call' = IF now < sessions[s].verified THEN call
                       ELSE [call EXCEPT ![c] = [Idle EXCEPT !.op = "RECHECK", !.session = s]]
       ELSE sessions' = Revoke({s}) /\ UNCHANGED call
    /\ UNCHANGED <<now, email, epoch, intents, ended, loggedOut, reset>>

AskProvider(c) ==
    /\ call[c].op = "RECHECK"
    /\ call' = [call EXCEPT ![c].op = "ANSWERED", ![c].at = now,
                            ![c].active = ProviderActive(sessions[call[c].session].provider)]
    /\ UNCHANGED <<now, email, epoch, sessions, intents, ended, loggedOut, reset>>

MarkProviderState(c) ==
    LET s == call[c].session
        expiry == Expiry[sessions[s].provider]
    IN
    /\ call[c].op = "ANSWERED" /\ RowFree(s)
    /\ sessions' = IF ~call[c].active \/ expiry <= now THEN Revoke({s})
                   ELSE IF Live(s)
                   THEN [sessions EXCEPT ![s].verified = Earliest({now + VerifyLife, expiry})]
                   ELSE sessions
    /\ Return(c)
    /\ UNCHANGED <<now, email, epoch, intents, ended, loggedOut, reset>>

\* An error, a refusal or a crash; an uncommitted sweep leaves nothing.
Leave(c) ==
    /\ call[c] # Idle /\ Return(c)
    /\ UNCHANGED <<now, email, epoch, sessions, intents, ended, loggedOut, reset>>

(***************************************************************************)
(* Revocation.                                                             *)
(***************************************************************************)
\* Logout: the local row, then the provider's session.
Logout(s) ==
    /\ RowFree(s)
    /\ sessions' = Revoke({s})
    /\ UNCHANGED <<now, email, epoch, intents, ended, call, loggedOut, reset>>

EndAtProvider(p) ==
    /\ ended[p] = Never /\ Cardinality({q \in ProviderSessions : ended[q] # Never}) < MaxEnded
    /\ ended' = [ended EXCEPT ![p] = now]
    /\ UNCHANGED <<now, email, epoch, sessions, intents, call, loggedOut, reset>>

\* An update of many rows begins: it has seen the live ones of S.
Begin(c, op, S) ==
    /\ call[c] = Idle /\ S # {}
    /\ call' = [call EXCEPT ![c] = [Idle EXCEPT !.op = op, !.rows = S]]
    /\ UNCHANGED <<now, email, epoch, sessions, intents, ended, loggedOut, reset>>

SessionRevokedEvent(c, p) ==
    ended[p] # Never /\ Begin(c, "EVENT", {s \in Ids : Live(s) /\ sessions[s].provider = p})

\* A password reset or a deleted user: all rows of the account.
IdentityEvent(c, a) == Begin(c, "RESET", LiveOf(a))

\* A global logout.  The function is reserved: no role of the product may execute
\* it and nothing calls it (004:639, stage 10C).
RevokeAll(c, s) ==
    LET a == sessions[s].account IN
    /\ call[c] = Idle /\ RowFree(s) /\ Live(s) /\ EpochFree(a) /\ epoch[a] <= MaxLogouts
    /\ call' = [call EXCEPT ![c] = [Idle EXCEPT !.op = "ALL", !.session = s, !.rows = LiveOf(a)]]
    /\ UNCHANGED <<now, email, epoch, sessions, intents, ended, loggedOut, reset>>

\* The rows seen are revoked and, for a global logout, the epoch moves.
Sweep(c) ==
    LET a == sessions[call[c].session].account IN
    /\ call[c].op \in {"EVENT", "RESET", "ALL"}
    /\ \A s \in call[c].rows : RowFree(s) \/ s = call[c].session
    /\ sessions' = Revoke(call[c].rows)
    /\ epoch' = IF call[c].op = "ALL" THEN [epoch EXCEPT ![a] = @ + 1] ELSE epoch
    /\ loggedOut' = loggedOut \cup (IF call[c].op = "ALL" THEN {s \in Ids : sessions[s].account = a}
                                    ELSE {})
    /\ reset' = reset \cup (IF call[c].op = "RESET"
                            THEN call[c].rows \cup {s \in Ids : sessions[s].origin \in call[c].rows}
                            ELSE {})
    /\ Return(c)
    /\ UNCHANGED <<now, email, intents, ended>>

\* No caller sits on an answer of the provider for longer than MaxLag.
Tick ==
    /\ now < MaxTime
    /\ \A c \in Clients :
          call[c].op \in {"CALLBACK", "RESOLVED", "ANSWERED"} => now - call[c].at < MaxLag
    /\ now' = now + 1
    /\ UNCHANGED <<email, epoch, sessions, intents, ended, call, loggedOut, reset>>

Next ==
    \/ \E c \in Browsers :
          \/ \E p \in ProviderSessions, m \in Emails, i \in {0} \cup DOMAIN intents :
                Exchange(c, p, m, i)
          \/ ResolveIdentity(c) \/ CreateSession(c) \/ CompleteStepUp(c)
          \/ \E s \in Ids : Authenticate(c, s)
          \/ AskProvider(c) \/ MarkProviderState(c)
    \/ \E c \in Sweepers :
          \/ \E p \in ProviderSessions : SessionRevokedEvent(c, p)
          \/ \E a \in Subjects : IdentityEvent(c, a)
          \/ \E s \in Ids : RevokeAll(c, s)
          \/ Sweep(c)
    \/ \E c \in Clients : Leave(c)
    \/ \E s \in Ids : CreateStepUp(s) \/ Logout(s)
    \/ \E p \in ProviderSessions : EndAtProvider(p)
    \/ Tick

Spec == Init /\ [][Next]_vars

(***************************************************************************)
(* Properties.                                                             *)
(***************************************************************************)

\* Global logout ends every session of the account, and every session that is
\* rotated out of one of them, for good: the sweep may miss the row of a
\* rotation in flight, which is fenced by the epoch it inherits.
LoggedOutForGood == \A s \in Ids : s \in loggedOut => ~Authentic(s)

\* Challenge of stage 10C: "Global logout/recovery increments Account security epoch
\* and revokes every row."  A password reset ends the sessions that its sweep sees
\* and every session rotated out of one of them while the sweep waits.
ResetForGood == \A s \in Ids : s \in reset => ~Authentic(s)

\* Rotation hands a session over: what was rotated out of is revoked, and no
\* two step-ups, however they race, rotate the same session.
RotatedOnce ==
    \A s \in Ids : sessions[s].origin # 0 =>
        /\ ~Live(sessions[s].origin)
        /\ \A r \in Ids \ {s} : sessions[r].origin # sessions[s].origin

\* A chain of step-ups, each with a new provider session, never outlives the
\* session it began with, nor any session its provider session.
NeverOutlives ==
    \A s \in Ids :
        /\ sessions[s].absolute <= Expiry[sessions[s].provider]
        /\ sessions[s].origin # 0 => sessions[s].absolute <= sessions[sessions[s].origin].absolute

\* A page is served without asking for a provider session that has ended only
\* while its last positive answer counts: the verification horizon after the end
\* and the time the call took that asked.  A lost event costs no more than that.
HorizonBounds ==
    \A s \in Ids :
        LET end == ended[sessions[s].provider]
        IN Live(s) /\ end # Never => sessions[s].verified <= end + VerifyLife + MaxLag
=============================================================================
