------------------------------ MODULE Idempotency ------------------------------
(***************************************************************************)
(* One idempotency key: the row of memoid.idempotency_records that         *)
(* claim_idempotency and finish_idempotency (migration 005) work on, and   *)
(* the clients that send requests under the key.                           *)
(*                                                                         *)
(* The mutations of the product (create_project, connect_github_repository,*)
(* set_source_authority, ...) claim, apply their effect and finish in ONE  *)
(* transaction: inline.  The two functions can also be called in           *)
(* transactions of their own around an effect that is not in the database, *)
(* as the Stage 10B tests do: not inline.                                  *)
(*                                                                         *)
(* A transaction that inserted or changed the row owns it until it commits *)
(* or rolls back; others wait, at the insert or at "for update", and look  *)
(* at the committed row afterwards.  The clock of claim and finish is read *)
(* on entry, before that wait.  A function that raises rolls back.         *)
(***************************************************************************)
EXTENDS Integers, Sequences

CONSTANTS Callers,
          Fingerprints,  \* request fingerprints sent under the key
          MaxClaim,      \* longest claim, in ticks
          MaxAttempts,   \* bound: claims granted on the row
          MaxTime        \* bound: the clock stops there

ASSUME IdempotencyAssumption ==
    /\ Fingerprints \subseteq Nat \ {0}
    /\ MaxClaim \in Nat \ {0} /\ MaxAttempts \in Nat \ {0} /\ MaxTime \in Nat

Null == -1

VARIABLES inline,        \* the effect is part of the claiming transaction
          row,           \* the row as last committed
          owner,         \* the client whose open transaction changed it, at most one
          draft,         \* the row as that transaction sees it
          caller,        \* the local variables of each client
          effects,       \* the effects that took place, by request fingerprint
          answers,       \* results told to clients: <<fingerprint, result>>
          now            \* clock_timestamp()

keyVars == <<inline, row, owner, draft, caller, effects, answers, now>>

States == {"ABSENT", "IN_PROGRESS", "COMPLETED", "FAILED_RETRYABLE", "FAILED_TERMINAL"}

\* A claim token is a fresh UUID: its model value is the number of the attempt.
Rows == [state : States, fingerprint : Nat, token : Nat \cup {Null},
         expires : Nat \cup {Null}, retryAt : Nat \cup {Null},
         attempts : Nat, result : Nat \cup {Null}]

Absent == [state |-> "ABSENT", fingerprint |-> 0, token |-> Null, expires |-> Null,
           retryAt |-> Null, attempts |-> 0, result |-> Null]

IdleCaller == [pc |-> "idle", fingerprint |-> 0, at |-> 0, token |-> Null, until |-> 0, effect |-> 0]

\* The check constraints idempotency_records_claim_shape, _retry_shape and
\* _result_shape.
Shaped(r) ==
    /\ r.state = "IN_PROGRESS" <=> r.token # Null /\ r.expires # Null
    /\ r.state = "FAILED_RETRYABLE" <=> r.retryAt # Null
    /\ r.state = "COMPLETED" <=> r.result # Null

\* The columns keep their types and the row the shape its state calls for.
KeyTypeOK ==
    /\ inline \in BOOLEAN
    /\ row \in Rows /\ draft \in Rows /\ Shaped(row) /\ Shaped(draft)
    /\ owner \subseteq Callers /\ (\A c, d \in owner : c = d)
    /\ caller \in [Callers -> [pc : {"idle", "claiming", "claimed", "finishing"},
                               fingerprint : Nat, at : Nat, token : Nat \cup {Null},
                               until : Nat, effect : Nat]]
    /\ effects \in Seq(Fingerprints)
    /\ answers \subseteq Fingerprints \X Nat
    /\ now \in 0..MaxTime

KeyInit ==
    /\ inline \in BOOLEAN
    /\ row = Absent /\ owner = {} /\ draft = Absent
    /\ caller = [c \in Callers |-> IdleCaller]
    /\ effects = << >> /\ answers = {}
    /\ now = 0

Goes(c, local) == caller' = [caller EXCEPT ![c] = local] /\ UNCHANGED inline

-------------------------------------------------------------------------------
(* claim_idempotency                                                       *)

\* A client sends a request, perhaps again because it never heard the answer.
Request(c) ==
    /\ caller[c].pc = "idle"
    /\ \E f \in Fingerprints :
          Goes(c, [IdleCaller EXCEPT !.pc = "claiming", !.fingerprint = f, !.at = now])
    /\ UNCHANGED <<row, owner, draft, effects, answers, now>>

\* The row after the claim: inserted, or taken again by RETRY_CLAIMED.
Claimed(c, until) ==
    [Absent EXCEPT !.state = "IN_PROGRESS", !.fingerprint = caller[c].fingerprint,
                   !.attempts = row.attempts + 1, !.token = row.attempts + 1,
                   !.expires = until]

\* MUTANT: the key alone identifies the request.
SameKeySuffices(c) == TRUE

SameRequest(c) == row.fingerprint = caller[c].fingerprint

\* MUTANT: a request that was answered may be claimed again.
ClaimableAgain(c) ==
    \/ row.state = "ABSENT"
    \/ /\ SameRequest(c)
       /\ \/ row.state = "IN_PROGRESS" /\ row.expires <= caller[c].at
          \/ row.state \in {"COMPLETED", "FAILED_RETRYABLE"} /\ row.retryAt <= caller[c].at

Claimable(c) ==
    \/ row.state = "ABSENT"
    \/ /\ SameRequest(c)
       /\ \/ row.state = "IN_PROGRESS" /\ row.expires <= caller[c].at
          \/ row.state = "FAILED_RETRYABLE" /\ row.retryAt <= caller[c].at

\* CLAIMED or RETRY_CLAIMED: the transaction goes on, or commits at once.
Claim(c) ==
    /\ caller[c].pc = "claiming" /\ owner = {}
    /\ Claimable(c) /\ row.attempts < MaxAttempts
    /\ \E d \in 1..MaxClaim :
          LET until == caller[c].at + d IN
          /\ IF inline
             THEN owner' = {c} /\ draft' = Claimed(c, until) /\ UNCHANGED row
             ELSE row' = Claimed(c, until) /\ UNCHANGED <<owner, draft>>
          /\ Goes(c, [caller[c] EXCEPT !.pc = "claimed", !.token = row.attempts + 1,
                                       !.until = until])
    /\ UNCHANGED <<effects, answers, now>>

\* REPLAY: the stable result is returned for the same request only.
Replay(c) ==
    /\ caller[c].pc = "claiming" /\ owner = {}
    /\ row.state = "COMPLETED" /\ SameRequest(c)
    /\ answers' = answers \cup {<<caller[c].fingerprint, row.result>>}
    /\ Goes(c, IdleCaller)
    /\ UNCHANGED <<row, owner, draft, effects, now>>

\* CONFLICT, TERMINAL_FAILURE, IN_PROGRESS: the mutation raises.
Refuse(c) ==
    /\ caller[c].pc = "claiming" /\ owner = {}
    /\ ~Claimable(c)
    /\ row.state = "COMPLETED" => ~SameRequest(c)
    /\ Goes(c, IdleCaller)
    /\ UNCHANGED <<row, owner, draft, effects, answers, now>>

-------------------------------------------------------------------------------
(* finish_idempotency                                                      *)

\* The effect is applied and the claim is to be finished.  An effect outside
\* the database has happened then; one inside it waits for the commit.
Apply(c) ==
    /\ caller[c].pc = "claimed"
    /\ effects' = IF inline THEN effects ELSE Append(effects, caller[c].fingerprint)
    /\ Goes(c, [caller[c] EXCEPT !.pc = "finishing", !.at = now, !.effect = Len(effects) + 1])
    /\ UNCHANGED <<row, owner, draft, answers, now>>

\* The row a call sees once it has the lock.
Seen(c) == IF c \in owner THEN draft ELSE row

\* MUTANT: neither the token nor the end of the claim is looked at.
StillClaimsByState(c) == Seen(c).state = "IN_PROGRESS"

StillClaims(c) ==
    /\ Seen(c).state = "IN_PROGRESS"
    /\ Seen(c).token = caller[c].token
    /\ Seen(c).expires > caller[c].at

\* MUTANT: the claim is not cleared when the record is resolved.
ResolvedStillClaimed(r, state, retryAt, result) ==
    [r EXCEPT !.state = state, !.retryAt = retryAt, !.result = result]

Resolved(r, state, retryAt, result) ==
    [r EXCEPT !.state = state, !.token = Null, !.expires = Null,
              !.retryAt = retryAt, !.result = result]

\* The client may be gone before the answer reaches it.
Told(c) == answers' \in {answers, answers \cup {<<caller[c].fingerprint, caller[c].effect>>}}

Complete(c) ==
    /\ caller[c].pc = "finishing" /\ owner \subseteq {c}
    /\ StillClaims(c)
    /\ row' = Resolved(Seen(c), "COMPLETED", Null, caller[c].effect)
    /\ owner' = {} /\ draft' = Absent
    /\ effects' = IF inline THEN Append(effects, caller[c].fingerprint) ELSE effects
    /\ Told(c)
    /\ Goes(c, IdleCaller)
    /\ UNCHANGED now

\* The product's mutations never record a failure, they roll back instead.
Fail(c) ==
    /\ ~inline
    /\ caller[c].pc = "finishing"
    /\ StillClaims(c)
    /\ \/ row' = Resolved(row, "FAILED_TERMINAL", Null, Null)
       \/ \E t \in caller[c].at..MaxTime : row' = Resolved(row, "FAILED_RETRYABLE", t, Null)
    /\ Goes(c, IdleCaller)
    /\ UNCHANGED <<owner, draft, effects, answers, now>>

\* MUTANT: the transaction of the stale claim is left open.
FinishStaleKeepsLock(c) ==
    /\ caller[c].pc = "finishing" /\ owner \subseteq {c}
    /\ ~StillClaims(c)
    /\ Goes(c, IdleCaller)
    /\ UNCHANGED <<row, owner, draft, effects, answers, now>>

\* "stale idempotency claim": raises, the transaction rolls back.
FinishStale(c) ==
    /\ caller[c].pc = "finishing" /\ owner \subseteq {c}
    /\ ~StillClaims(c)
    /\ owner' = {} /\ draft' = Absent
    /\ Goes(c, IdleCaller)
    /\ UNCHANGED <<row, effects, answers, now>>

\* The mutation raises, the connection drops or the process dies: an open
\* transaction is rolled back, a committed claim stays.
Abort(c) ==
    /\ caller[c].pc # "idle"
    /\ IF c \in owner THEN owner' = {} /\ draft' = Absent ELSE UNCHANGED <<owner, draft>>
    /\ Goes(c, IdleCaller)
    /\ UNCHANGED <<row, effects, answers, now>>

Tick ==
    /\ now < MaxTime
    /\ now' = now + 1
    /\ UNCHANGED <<inline, row, owner, draft, caller, effects, answers>>

Claiming(c) == Claim(c) \/ Replay(c) \/ Refuse(c)
Finishing(c) == Complete(c) \/ Fail(c) \/ FinishStale(c)

KeyNext ==
    \/ \E c \in Callers : Request(c) \/ Claiming(c) \/ Apply(c) \/ Finishing(c) \/ Abort(c)
    \/ Tick

KeySpec == KeyInit /\ [][KeyNext]_keyVars

\* An open transaction ends, and waiters for a row lock are served in turn.
KeyFairness == \A c \in Callers :
    SF_keyVars(Claiming(c)) /\ WF_keyVars(Apply(c)) /\ WF_keyVars(Finishing(c))

KeyFairSpec == KeySpec /\ KeyFairness

-------------------------------------------------------------------------------
(* Properties                                                              *)

\* In one transaction, a request under one key is carried out at most once and
\* answered with that one result, however many clients send it, retry it, wait
\* for each other or die: effects exist exactly when the committed row says so.
\* Nobody is told a result but the recorded one, and nobody but senders of the
\* recorded request: a second request under the key never gets the first's.
ExactlyOnce ==
    /\ inline => /\ Len(effects) = IF row.state = "COMPLETED" THEN 1 ELSE 0
                 /\ row.state = "COMPLETED" => row.result = 1 /\ effects[1] = row.fingerprint
    /\ \A a \in answers : /\ row.state = "COMPLETED"
                          /\ a = <<row.fingerprint, row.result>>
                          /\ effects[a[2]] = a[1]

\* A key that has failed terminally or completed keeps that answer, and only
\* the latest claim can give it one.
LatestClaimDecides ==
    [][row'.state \in {"COMPLETED", "FAILED_TERMINAL", "FAILED_RETRYABLE"} /\ row' # row =>
         \E c \in Callers : /\ caller[c].pc = "finishing" /\ caller'[c].pc = "idle"
                            /\ caller[c].fingerprint = row'.fingerprint
                            /\ \A d \in Callers : caller[d].token <= caller[c].token]_keyVars

\* Nobody waits for ever behind somebody else's open transaction.
Answered == \A c \in Callers : inline /\ caller[c].pc = "claiming" ~> caller[c].pc # "claiming"
===============================================================================
