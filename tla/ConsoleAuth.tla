----------------------------- MODULE ConsoleAuth -----------------------------
(***************************************************************************)
(* Console sign-in and account changes of the administrator: the handlers  *)
(* of web/src/auth.rs run concurrently, and every store call and every     *)
(* lock of a limiter is a step of its own.  A request runs one handler;    *)
(* its name is also the name of the session it opens and of its slots.     *)
(***************************************************************************)
EXTENDS LoginLimiter

CONSTANTS
    Requests,       \* the requests of a behaviour, a bound
    Admin,          \* BOOTSTRAP_PRINCIPAL_NAME, the one principal
    MaxNow          \* bound: steps of the clock, one TOTP period each

ASSUME RequestsAssumption == IsFiniteSet(Requests)
ASSUME AdminAssumption == Admin \in Names
ASSUME MaxNowAssumption == MaxNow \in Nat

VARIABLES
    now,            \* the clock
    codeUsed,       \* the one-time code is consumed
    password,       \* the version of the stored credential, 0 for none
    enabled,        \* the principal's state
    totp,           \* an authenticator is enrolled
    lastStep,       \* its last_used_step
    session,        \* of each request: "none", "active", "expired", "revoked"
    kind,           \* the handler a request runs
    pc,             \* where it is
    local,          \* what it knows: see NoLocal
    opened,         \* history: the password and the TOTP step of each session
    claims,         \* history: the claims that succeeded
    settled,        \* history: the newest password whose change succeeded
    ended,          \* history: sessions that a successful handler has ended
    raced,          \* history: sign-ins in flight while sessions were revoked
    charged         \* history: granted reservations that were not given back

storeVars == <<codeUsed, password, enabled, totp, lastStep, session>>
historyVars == <<opened, claims, settled, ended, raced, charged>>
vars == <<limiterVars, now, storeVars, kind, pc, local, historyVars>>

\* The handlers behind the session middleware that take a change budget;
\* "password" is a change of one's own and one by an administrator.
Administering == {"password", "role", "disable", "enable"}
Kinds == {"login", "claim", "logout", "read"} \cup Administering

Limiter(r) == IF kind[r] \in {"login", "claim"} THEN kind[r] ELSE "change"

\* at: the time taken at the start; with: the presenting session; seen: its
\* row; pw: the password verified or saved; step: the TOTP step, -1 for
\* none; before: the sessions there at the start.
NoLocal == [name |-> Admin, ip |-> CHOOSE i \in Addresses : TRUE, at |-> 0,
            with |-> 0, seen |-> "none", pw |-> 0, step |-> -1, before |-> {}]

Mine(r) == Entry(r, local[r].ip, local[r].at)

\* Sign-ins whose password is verified and whose session is not yet there.
Verified(r) == kind[r] = "login" /\ pc[r] \in {"totp", "step", "refund", "refundIp", "create"}

Init ==
    /\ LimiterInit
    /\ now = 1 /\ codeUsed = FALSE /\ password = 0 /\ enabled = TRUE
    /\ totp = FALSE /\ lastStep = -1
    /\ session = [r \in Requests |-> "none"]
    /\ kind = [r \in Requests |-> "none"] /\ pc = [r \in Requests |-> "idle"]
    /\ local = [r \in Requests |-> NoLocal]
    /\ opened = [r \in Requests |-> [pw |-> 0, step |-> -1]]
    /\ claims = 0 /\ settled = 0 /\ ended = {} /\ raced = {} /\ charged = {}

\* The request is over; what it held is forgotten.
Finish(r) ==
    /\ pc' = [pc EXCEPT ![r] = "done"]
    /\ kind' = [kind EXCEPT ![r] = "none"]
    /\ local' = [local EXCEPT ![r] = NoLocal]

Go(r, to) ==
    /\ pc' = [pc EXCEPT ![r] = to]
    /\ UNCHANGED <<kind, local>>

\* A refusal, a failed store call or a client that goes away: the handler
\* stops, and keeps the slots it has reserved.
Fails(r) ==
    /\ pc[r] \notin {"idle", "done", "user", "ip", "release", "refundIp"}
    /\ Finish(r)
    /\ UNCHANGED <<limiterVars, now, storeVars, historyVars>>

Tick ==
    /\ now < MaxNow /\ now' = now + 1
    /\ UNCHANGED <<limiterVars, storeVars, kind, pc, local, historyVars>>

\* is_active: the deadline of a session passes.
Expire(s) ==
    /\ session[s] = "active"
    /\ session' = [session EXCEPT ![s] = "expired"]
    /\ UNCHANGED <<limiterVars, now, codeUsed, password, enabled, totp, lastStep,
                   kind, pc, local, historyVars>>

\* A handler starts: the public ones at the limiter, the others at the
\* session middleware with the session they present.
Start(r, k) ==
    /\ pc[r] = "idle"
    /\ kind' = [kind EXCEPT ![r] = k]
    /\ \E n \in IF k = "login" THEN Names ELSE {Admin}, i \in Addresses :
       \E s \in IF k \in {"login", "claim"} THEN {0}
                ELSE {q \in Requests : session[q] # "none"} :
          local' = [local EXCEPT ![r] =
                       [NoLocal EXCEPT !.name = n, !.ip = i, !.at = now, !.with = s,
                                       !.before = {q \in Requests : session[q] # "none"}]]
    /\ pc' = [pc EXCEPT ![r] = IF k \in {"login", "claim"} THEN "user" ELSE "session"]
    /\ UNCHANGED <<limiterVars, now, storeVars, historyVars>>

-----------------------------------------------------------------------------
(* The session middleware: resolve_session.                                *)

ResolveSession(r) ==
    /\ pc[r] = "session"
    /\ session[local[r].with] = "active"
    /\ local' = [local EXCEPT ![r].seen = session[local[r].with]]
    /\ pc' = [pc EXCEPT ![r] = "principal"]
    /\ UNCHANGED <<limiterVars, now, storeVars, kind, historyVars>>

ResolvePrincipal(r) ==
    /\ pc[r] = "principal" /\ enabled
    /\ Go(r, "touch")
    /\ UNCHANGED <<limiterVars, now, storeVars, historyVars>>

\* Mutant: the row found by the middleware is written back.
TouchedStale(row, seen) == seen

\* touch_session writes every column of the row it reads in its own
\* transaction.
Touched(row, seen) == row

\* At most once a minute, and a failure is ignored; then the handler runs.
touch_session(r) ==
    /\ pc[r] = "touch"
    /\ LET s == local[r].with
       IN \/ session' = [session EXCEPT ![s] = Touched(@, local[r].seen)]
          \/ UNCHANGED session
    /\ IF kind[r] = "read" THEN Finish(r)
       ELSE Go(r, IF kind[r] = "logout" THEN "logout" ELSE "user")
    /\ UNCHANGED <<limiterVars, now, codeUsed, password, enabled, totp, lastStep,
                   historyVars>>

-----------------------------------------------------------------------------
(* The limiter, as every handler uses it.                                  *)

ReserveUser(r) ==
    /\ pc[r] = "user"
    /\ LET n == local[r].name
       IN /\ reserve_username_key(Limiter(r), n, Mine(r))
          /\ IF r \in Tokens(byUser'[Limiter(r)][n]) THEN Go(r, "ip") ELSE Finish(r)
    /\ UNCHANGED <<byIp, now, storeVars, historyVars>>

ReserveIp(r) ==
    /\ pc[r] = "ip"
    /\ reserve_ip_key(Limiter(r), Mine(r))
    /\ IF r \in Tokens(byIp'[Limiter(r)][local[r].ip])
       THEN /\ charged' = charged \cup {[lim |-> Limiter(r), name |-> local[r].name,
                                         entry |-> Mine(r)]}
            /\ Go(r, "find")
       ELSE Go(r, "release") /\ UNCHANGED charged
    /\ UNCHANGED <<byUser, now, storeVars, opened, claims, settled, ended, raced>>

\* The address has no slot left: the one of the name is given back.
Release(r) ==
    /\ pc[r] = "release"
    /\ RefundUser(Limiter(r), local[r].name, r)
    /\ Finish(r)
    /\ UNCHANGED <<byIp, now, storeVars, historyVars>>

\* refund, after a sign-in is verified and after a claim.
RefundName(r) ==
    /\ pc[r] = "refund"
    /\ RefundUser(Limiter(r), local[r].name, r)
    /\ charged' = {c \in charged : c.entry.token # r}
    /\ Go(r, "refundIp")
    /\ UNCHANGED <<byIp, now, storeVars, opened, claims, settled, ended, raced>>

RefundAddress(r) ==
    /\ pc[r] = "refundIp"
    /\ RefundIp(Limiter(r), local[r].ip, r)
    /\ IF kind[r] = "login" THEN Go(r, "create") ELSE Finish(r)
    /\ UNCHANGED <<byUser, now, storeVars, historyVars>>

-----------------------------------------------------------------------------
(* login                                                                   *)

\* The principal is known and enabled.
LoginPrincipal(r) ==
    /\ kind[r] = "login" /\ pc[r] = "find"
    /\ local[r].name = Admin /\ enabled
    /\ Go(r, "credential")
    /\ UNCHANGED <<limiterVars, now, storeVars, historyVars>>

\* The presented password is verified against the credential that is read.
LoginPassword(r) ==
    /\ kind[r] = "login" /\ pc[r] = "credential"
    /\ password # 0
    /\ local' = [local EXCEPT ![r].pw = password]
    /\ pc' = [pc EXCEPT ![r] = "totp"]
    /\ UNCHANGED <<limiterVars, now, storeVars, kind, historyVars>>

\* verify_totp_code: one step around the time of the request, after the
\* last one used.
Steps(at) == {s \in at - 1 .. at + 1 : s >= 0}

LoginTotp(r) ==
    /\ pc[r] = "totp"
    /\ IF totp
       THEN \E s \in Steps(local[r].at) :
               /\ s > lastStep
               /\ local' = [local EXCEPT ![r].step = s]
               /\ pc' = [pc EXCEPT ![r] = "step"]
               /\ UNCHANGED kind
       ELSE Go(r, "refund")
    /\ UNCHANGED <<limiterVars, now, storeVars, historyVars>>

\* Mutant: the step is written whatever was recorded meanwhile.
record_totp_stepAlways(r) ==
    /\ pc[r] = "step"
    /\ lastStep' = local[r].step
    /\ Go(r, "refund")
    /\ UNCHANGED <<limiterVars, now, codeUsed, password, enabled, totp, session,
                   historyVars>>

\* The conditional update; a step that is not newer refuses the sign-in.
record_totp_step(r) ==
    /\ pc[r] = "step"
    /\ IF lastStep < local[r].step
       THEN lastStep' = local[r].step /\ Go(r, "refund")
       ELSE Finish(r) /\ UNCHANGED lastStep
    /\ UNCHANGED <<limiterVars, now, codeUsed, password, enabled, totp, session,
                   historyVars>>

OpenSession(r, pw, step) ==
    /\ session' = [session EXCEPT ![r] = "active"]
    /\ opened' = [opened EXCEPT ![r] = [pw |-> pw, step |-> step]]

create_session(r) ==
    /\ pc[r] = "create"
    /\ OpenSession(r, local[r].pw, local[r].step)
    /\ Finish(r)
    /\ UNCHANGED <<limiterVars, now, codeUsed, password, enabled, totp, lastStep,
                   claims, settled, ended, raced, charged>>

-----------------------------------------------------------------------------
(* bootstrap_complete                                                      *)

\* The code is looked up and unused; the optional enrolment is verified.
ClaimCode(r) ==
    /\ kind[r] = "claim" /\ pc[r] = "find"
    /\ ~codeUsed
    /\ \E s \in Steps(local[r].at) \cup {-1} : local' = [local EXCEPT ![r].step = s]
    /\ pc' = [pc EXCEPT ![r] = "consume"]
    /\ UNCHANGED <<limiterVars, now, storeVars, kind, historyVars>>

Claim(r) ==
    /\ codeUsed' = TRUE
    /\ password' = password + 1
    /\ totp' = (local[r].step # -1) /\ lastStep' = local[r].step
    /\ OpenSession(r, password + 1, local[r].step)
    /\ claims' = claims + 1

\* Mutant: the earlier look at the code is trusted, and the credential is
\* replaced if there is one.
consume_bootstrap_codeTrusting(r) ==
    /\ pc[r] = "consume"
    /\ Claim(r)
    /\ Go(r, "refund")
    /\ UNCHANGED <<limiterVars, now, enabled, settled, ended, raced, charged>>

\* One transaction: the code is read again, and the credential is inserted.
consume_bootstrap_code(r) ==
    /\ pc[r] = "consume"
    /\ IF ~codeUsed /\ password = 0
       THEN Claim(r) /\ Go(r, "refund")
       ELSE Finish(r) /\ UNCHANGED <<codeUsed, password, totp, lastStep, session,
                                     opened, claims>>
    /\ UNCHANGED <<limiterVars, now, enabled, settled, ended, raced, charged>>

-----------------------------------------------------------------------------
(* change_password, set_user_password, assign_user_role, set_user_state,   *)
(* logout and revoke_session.                                              *)

\* The target exists; a change of one's own verifies the current password.
FindTarget(r) ==
    /\ kind[r] \in Administering /\ pc[r] = "find"
    /\ Go(r, "save")
    /\ UNCHANGED <<limiterVars, now, storeVars, historyVars>>

Save(r) ==
    /\ pc[r] = "save"
    /\ IF kind[r] = "password"
       THEN /\ password' = password + 1
            /\ local' = [local EXCEPT ![r].pw = password + 1]
            /\ UNCHANGED enabled
       ELSE /\ enabled' = CASE kind[r] = "disable" -> FALSE
                            [] kind[r] = "enable" -> TRUE
                            [] OTHER -> enabled
            /\ UNCHANGED <<password, local>>
    /\ pc' = [pc EXCEPT ![r] = IF kind[r] = "enable" THEN "answer" ELSE "revoke"]
    /\ UNCHANGED <<limiterVars, now, codeUsed, totp, lastStep, session, kind, historyVars>>

\* Mutant: only the sessions listed when the request began are revoked.
RevokeListed(r) ==
    /\ pc[r] = "revoke"
    /\ session' = [s \in Requests |->
                     IF s \in local[r].before THEN "revoked" ELSE session[s]]
    /\ raced' = raced \cup {q \in Requests : Verified(q)}
    /\ Go(r, "answer")
    /\ UNCHANGED <<limiterVars, now, codeUsed, password, enabled, totp, lastStep,
                   opened, claims, settled, ended, charged>>

\* Every session of the principal that is not yet revoked.  If this call
\* fails, a password change reports an error; a change of role or state
\* ignores it.  Both leave the store as it is (Fails).
revoke_sessions_for_principal(r) ==
    /\ pc[r] = "revoke"
    /\ session' = [s \in Requests |-> IF session[s] = "none" THEN "none" ELSE "revoked"]
    /\ raced' = raced \cup {q \in Requests : Verified(q)}
    /\ Go(r, "answer")
    /\ UNCHANGED <<limiterVars, now, codeUsed, password, enabled, totp, lastStep,
                   opened, claims, settled, ended, charged>>

\* The handler answers after the revocation has succeeded.
Answer(r) ==
    /\ pc[r] = "answer"
    /\ ended' = IF kind[r] = "enable" THEN ended ELSE ended \cup local[r].before
    /\ settled' = IF local[r].pw > settled THEN local[r].pw ELSE settled
    /\ Finish(r)
    /\ UNCHANGED <<limiterVars, now, storeVars, opened, claims, raced, charged>>

\* revoke_session: one's own session at logout, or any by its id.
RevokeOne(r) ==
    /\ pc[r] = "logout"
    /\ \E s \in local[r].before :
          /\ session' = [session EXCEPT ![s] = "revoked"]
          /\ ended' = ended \cup {s}
    /\ Finish(r)
    /\ UNCHANGED <<limiterVars, now, codeUsed, password, enabled, totp, lastStep,
                   opened, claims, settled, raced, charged>>

-----------------------------------------------------------------------------
Step(r) ==
    \/ \E k \in Kinds : Start(r, k)
    \/ ResolveSession(r) \/ ResolvePrincipal(r) \/ touch_session(r)
    \/ ReserveUser(r) \/ ReserveIp(r) \/ Release(r) \/ RefundName(r) \/ RefundAddress(r)
    \/ LoginPrincipal(r) \/ LoginPassword(r) \/ LoginTotp(r) \/ record_totp_step(r)
    \/ create_session(r)
    \/ ClaimCode(r) \/ consume_bootstrap_code(r)
    \/ FindTarget(r) \/ Save(r) \/ revoke_sessions_for_principal(r) \/ Answer(r)
    \/ RevokeOne(r)
    \/ Fails(r)
    \/ Expire(r)

Next == Tick \/ \E r \in Requests : Step(r)

Spec == Init /\ [][Next]_vars

-----------------------------------------------------------------------------
(* Properties.                                                             *)

\* The types; no budget is exceeded and the recorded step is one that a
\* clock has reached or is about to reach.
TypeOK ==
    /\ \A l \in Limiters, i \in Addresses : Len(byIp[l][i]) <= IpLimit
    /\ \A l \in Limiters, n \in Names, i \in Addresses :
          Cardinality({j \in DOMAIN byUser[l][n] : byUser[l][n][j].ip = i}) <= UserLimit
    /\ now \in 1 .. MaxNow \cup {1} /\ lastStep \in -1 .. now + 1
    /\ {codeUsed, enabled, totp} \subseteq BOOLEAN
    /\ password \in 0 .. Cardinality(Requests) /\ settled \in 0 .. password
    /\ session \in [Requests -> {"none", "active", "expired", "revoked"}]
    /\ kind \in [Requests -> Kinds \cup {"none"}]
    /\ claims \in 0 .. Cardinality(Requests)
    /\ ended \subseteq Requests /\ raced \subseteq Requests

\* The one-time code is consumed by one claim, and the administrator's first
\* credential exists exactly from then on (consume_bootstrap_code), however
\* many claims have seen the code unused.
ClaimedOnce == claims <= 1 /\ (codeUsed <=> password # 0) /\ (codeUsed <=> claims = 1)

\* No TOTP step opens two sessions, although sign-ins verify the code on a
\* row that others write before they record the step (login).
StepUsedOnce ==
    \A r, s \in Requests :
        r # s /\ opened[r].step # -1 => opened[r].step # opened[s].step

Charged(l) == {c \in charged : c.lim = l}

\* The budget maps hold the failed attempts and those in flight, each under
\* its own identity: a slot that was given back or refused is gone, and one
\* that still counts is there, in both maps (reserve, refund).
BudgetIsFailures ==
    \A l \in Limiters :
        /\ \A n \in Names :
              LET mine == {c \in Charged(l) : c.name = n}
              IN /\ Tokens(byUser[l][n]) \subseteq
                       {c.entry.token : c \in mine} \cup {r \in Requests : pc[r] \in {"ip", "release"}}
                 /\ \A c \in mine : now - c.entry.at < Window =>
                       c.entry.token \in Tokens(byUser[l][n])
        /\ \A i \in Addresses :
              LET mine == {c \in Charged(l) : c.entry.ip = i}
              IN /\ Tokens(byIp[l][i]) \subseteq
                       {c.entry.token : c \in mine} \cup {r \in Requests : pc[r] = "refundIp"}
                 /\ \A c \in mine : now - c.entry.at < Window =>
                       c.entry.token \in Tokens(byIp[l][i])

\* What a change of password, role or state, a logout or a revocation has
\* ended stays ended: of the sessions that existed when the request began,
\* none is in force again once its revocation has succeeded and it has
\* answered, although requests in flight write session rows too
\* (touch_session).
RevocationIsFinal == \A s \in ended : session[s] = "revoked"

\* Once a password change has succeeded, a session in force that was opened
\* with an older password comes from a sign-in that was already verified
\* when sessions were revoked (change_password, set_user_password).
OldPasswordNeedsARace ==
    \A s \in Requests :
        session[s] = "active" /\ opened[s].pw < settled => s \in raced
=============================================================================
