---------------------------- MODULE ConsoleProofs ----------------------------
(***************************************************************************)
(* Proofs about the console's accounts, sessions and attempt budgets, for  *)
(* any number of requests, names and addresses, any limits and any window. *)
(*                                                                         *)
(* Three inductive invariants.  Control: the types, and what the program   *)
(* counter of a request says of its handler and of what it holds.          *)
(* Accounts: which passwords, TOTP steps and sessions are there.  Budget:  *)
(* whose slots the limiter's queues hold.  The last two rest on the first. *)
(***************************************************************************)
EXTENDS ConsoleAuth, NumberLemmas, TLAPS, FiniteSetTheorems, SequenceTheorems

-----------------------------------------------------------------------------
(* The control invariant.                                                  *)

Slot == [token : Requests, ip : Addresses, at : Nat]
SessionStates == {"none", "active", "expired", "revoked"}
StepNumbers == Nat \cup {-1}
Locals == [name : Names, ip : Addresses, at : Nat, with : Requests \cup {0},
           seen : SessionStates, pw : Nat, step : StepNumbers, before : SUBSET Requests]

MiddlewarePcs == {"session", "principal", "touch"}
ReservePcs == {"user", "ip", "release", "find"}
LoginPcs == {"credential", "totp", "step", "create"}
RefundPcs == {"refund", "refundIp"}
AdminPcs == {"save", "revoke", "answer"}
Pcs == {"idle", "done", "consume", "logout"} \cup MiddlewarePcs \cup ReservePcs
       \cup LoginPcs \cup RefundPcs \cup AdminPcs

\* The parts of the state that are not the limiter's.
StoreTypes ==
    /\ now \in Nat \ {0} /\ (now <= MaxNow \/ now = 1)
    /\ codeUsed \in BOOLEAN /\ enabled \in BOOLEAN /\ totp \in BOOLEAN
    /\ password \in Nat /\ settled \in Nat /\ claims \in Nat
    /\ lastStep \in StepNumbers /\ lastStep <= now + 1
    /\ session \in [Requests -> SessionStates]
    /\ ended \subseteq Requests /\ raced \subseteq Requests

RequestTypes ==
    /\ kind \in [Requests -> Kinds \cup {"none"}]
    /\ pc \in [Requests -> Pcs]
    /\ local \in [Requests -> Locals]
    /\ opened \in [Requests -> [pw : Nat, step : StepNumbers]]

\* Which handler is at which point, and what it has learnt there.
RequestOK(r) ==
    /\ kind[r] = "none" <=> pc[r] \in {"idle", "done"}
    /\ pc[r] \in LoginPcs => kind[r] = "login"
    /\ pc[r] \in RefundPcs => kind[r] \in {"login", "claim"}
    /\ pc[r] = "consume" => kind[r] = "claim"
    /\ pc[r] \in MiddlewarePcs \cup {"logout"} => kind[r] \notin {"login", "claim"}
    /\ pc[r] \in AdminPcs => kind[r] \in Administering
    /\ local[r].at <= now /\ local[r].step <= now + 1
    /\ kind[r] = "login" /\ pc[r] \notin {"step", "refund", "refundIp", "create"}
       => local[r].step = -1
    /\ ~Verified(r) /\ pc[r] \notin {"revoke", "answer"} => local[r].pw = 0

Control == StoreTypes /\ RequestTypes /\ \A r \in Requests : RequestOK(r)

-----------------------------------------------------------------------------
(* The accounts.                                                           *)

\* Before the claim there is no credential, so no session and no verified
\* sign-in; a handler behind the middleware had a session to present.
NothingBeforeClaim ==
    ~codeUsed =>
        /\ password = 0 /\ claims = 0 /\ settled = 0 /\ lastStep = -1
        /\ \A r \in Requests :
              /\ session[r] = "none" /\ opened[r].step = -1
              /\ ~Verified(r) /\ kind[r] \in {"none", "login", "claim"}

ClaimedIsOne == codeUsed => password # 0 /\ claims = 1

\* The requests that can have written a password, each at most one.
Spent == {r \in Requests : pc[r] \in {"revoke", "answer", "refund", "refundIp", "create", "done"}}

\* A request's session is opened in its last store call.
NotYetOpen ==
    \A r \in Requests :
        /\ kind[r] = "login" \/ pc[r] = "idle" => session[r] = "none"
        /\ session[r] = "none" => opened[r].step = -1

\* What an answered handler has ended, and one that is about to answer.
Final ==
    /\ \A s \in ended : session[s] = "revoked"
    /\ \A r \in Requests :
          /\ \A s \in local[r].before : session[s] # "none"
          /\ pc[r] = "answer" /\ kind[r] # "enable" =>
                \A s \in local[r].before : session[s] = "revoked"

\* The sign-ins that have recorded their step and have no session yet.
Recorded(r) == kind[r] = "login" /\ pc[r] \in {"refund", "refundIp", "create"}

StepsApart ==
    /\ \A r \in Requests :
          /\ opened[r].step <= lastStep
          /\ Recorded(r) => local[r].step <= lastStep
          /\ pc[r] = "step" => local[r].step # -1
    /\ \A r, s \in Requests : r # s =>
          /\ Recorded(r) /\ Recorded(s) /\ local[r].step # -1 => local[r].step # local[s].step
          /\ Recorded(r) /\ local[r].step # -1 => local[r].step # opened[s].step
          /\ opened[r].step # -1 => opened[r].step # opened[s].step

\* Whatever password p the sessions were revoked for: what is in force, or
\* is about to be, with an older one was verified before that.
Covered(p) ==
    \A s \in Requests :
        /\ session[s] = "active" /\ opened[s].pw < p => s \in raced
        /\ Verified(s) /\ local[s].pw < p => s \in raced

PasswordsCovered ==
    /\ settled <= password /\ Covered(settled)
    /\ \A r \in Requests :
          /\ local[r].pw <= password
          /\ pc[r] = "answer" => Covered(local[r].pw)

Accounts ==
    /\ NothingBeforeClaim /\ ClaimedIsOne /\ password <= Cardinality(Spent)
    /\ NotYetOpen /\ Final /\ StepsApart /\ PasswordsCovered

-----------------------------------------------------------------------------
(* The budgets.                                                            *)

BudgetTypes ==
    /\ byUser \in [Limiters -> [Names -> Seq(Slot)]]
    /\ byIp \in [Limiters -> [Addresses -> Seq(Slot)]]
    /\ charged \subseteq [lim : Limiters, name : Names, entry : Slot]

Charge(l, n, e) == [lim |-> l, name |-> n, entry |-> e]

Distinct(q) == \A i, j \in DOMAIN q : q[i].token = q[j].token => i = j
Slots(q) == {q[i] : i \in DOMAIN q}
From(q, ip) == {i \in DOMAIN q : q[i].ip = ip}

\* A slot of a name is one that was charged, or one of a request that is
\* about to reserve its address or to give the slot back.
UserSlots ==
    \A l \in Limiters, n \in Names :
        /\ Distinct(byUser[l][n])
        /\ \A e \in Slots(byUser[l][n]) :
              \/ Charge(l, n, e) \in charged
              \/ /\ pc[e.token] \in {"ip", "release"} /\ e = Mine(e.token)
                 /\ Limiter(e.token) = l /\ local[e.token].name = n

IpSlots ==
    \A l \in Limiters, a \in Addresses :
        /\ Distinct(byIp[l][a])
        /\ \A e \in Slots(byIp[l][a]) :
              \/ e.ip = a /\ \E n \in Names : Charge(l, n, e) \in charged
              \/ /\ pc[e.token] = "refundIp"
                 /\ Limiter(e.token) = l /\ local[e.token].ip = a

\* A charge is the one its request made, and is there until the refund.
Uncharged == {"idle", "user", "ip", "release", "refundIp", "create"} \cup MiddlewarePcs
ChargesAreOwn ==
    \A c \in charged :
        LET r == c.entry.token
        IN /\ pc[r] \notin Uncharged
           /\ pc[r] # "done" => c.lim = Limiter(r) /\ c.name = local[r].name /\ c.entry = Mine(r)

ChargesCount ==
    /\ \A c \in charged : now - c.entry.at < Window =>
          /\ c.entry \in Slots(byUser[c.lim][c.name])
          /\ c.entry \in Slots(byIp[c.lim][c.entry.ip])
    /\ \A r \in Requests : pc[r] = "ip" /\ now - local[r].at < Window =>
          Mine(r) \in Slots(byUser[Limiter(r)][local[r].name])

WithinLimits ==
    /\ \A l \in Limiters, a \in Addresses : Len(byIp[l][a]) <= IpLimit
    /\ \A l \in Limiters, n \in Names, a \in Addresses :
          Cardinality(From(byUser[l][n], a)) <= UserLimit

Budget == BudgetTypes /\ UserSlots /\ IpSlots /\ ChargesAreOwn /\ ChargesCount /\ WithinLimits

-----------------------------------------------------------------------------
(* The control invariant is inductive.                                     *)

\* What a request holds before it starts and after it ends.
LEMMA NothingHeld ==
    /\ NoLocal \in Locals /\ NoLocal.name = Admin
    /\ NoLocal.at = 0 /\ NoLocal.pw = 0 /\ NoLocal.step = -1 /\ NoLocal.before = {}
<1> DEFINE i == CHOOSE i \in Addresses : TRUE
<1>1. i \in Addresses
  BY AddressesAssumption
<1> HIDE DEF i
<1>2. NoLocal = [name |-> Admin, ip |-> i, at |-> 0, with |-> 0, seen |-> "none",
                 pw |-> 0, step |-> -1, before |-> {}]
  BY DEF NoLocal, i
<1> QED
  BY <1>1, <1>2, AdminAssumption DEF Locals, SessionStates, StepNumbers

\* A request that ends leaves the rest of the requests as they were.
LEMMA FinishControl ==
    ASSUME Control, NEW r \in Requests, Finish(r), now' = now, UNCHANGED opened
    PROVE  RequestTypes' /\ \A q \in Requests : RequestOK(q)'
<1> USE DEF Control, StoreTypes
<1>1. RequestTypes'
  BY NothingHeld DEF RequestTypes, Finish, Kinds, Pcs
<1>2. \A q \in Requests : kind'[q] = IF q = r THEN "none" ELSE kind[q]
  BY DEF RequestTypes, Finish
<1>3. \A q \in Requests : pc'[q] = IF q = r THEN "done" ELSE pc[q]
  BY DEF RequestTypes, Finish
<1>4. \A q \in Requests : local'[q] = IF q = r THEN NoLocal ELSE local[q]
  BY DEF RequestTypes, Finish
<1>5. \A q \in Requests : q # r => RequestOK(q)'
  BY <1>2, <1>3, <1>4 DEF RequestOK, Verified
<1>6. RequestOK(r)'
  BY <1>2, <1>3, <1>4, NothingHeld
     DEF RequestOK, Verified, LoginPcs, RefundPcs, MiddlewarePcs, AdminPcs
<1> QED
  BY <1>1, <1>5, <1>6

\* A request that moves on without learning anything.
LEMMA GoControl ==
    ASSUME Control, NEW r \in Requests, NEW to \in Pcs \ {"idle", "done"}, Go(r, to),
           now' = now, UNCHANGED opened,
           pc[r] \notin {"idle", "done"},
           to \in LoginPcs => kind[r] = "login",
           to \in RefundPcs => kind[r] \in {"login", "claim"},
           to = "consume" => kind[r] = "claim",
           to \in MiddlewarePcs \cup {"logout"} => kind[r] \notin {"login", "claim"},
           to \in AdminPcs => kind[r] \in Administering,
           Verified(r) => to \in {"totp", "step", "refund", "refundIp", "create"},
           pc[r] \in {"revoke", "answer"} => to \in {"revoke", "answer"},
           pc[r] \in {"step", "refund", "refundIp", "create"}
              => to \in {"step", "refund", "refundIp", "create"}
    PROVE  RequestTypes' /\ \A q \in Requests : RequestOK(q)'
<1> USE DEF Control, StoreTypes
<1>1. RequestTypes'
  BY DEF RequestTypes, Go
<1>2. kind' = kind /\ local' = local
  BY DEF Go
<1>3. \A q \in Requests : pc'[q] = IF q = r THEN to ELSE pc[q]
  BY DEF RequestTypes, Go
<1>4. \A q \in Requests : q # r => RequestOK(q)'
  BY <1>2, <1>3 DEF RequestOK, Verified
<1>5. RequestOK(r)'
  BY <1>2, <1>3 DEF RequestOK, Verified
<1> QED
  BY <1>1, <1>4, <1>5

\* A request that moves on with what it has learnt.
LEMMA LearnControl ==
    ASSUME Control, NEW r \in Requests, NEW to \in Pcs, NEW known \in Locals, NEW k \in Kinds,
           pc' = [pc EXCEPT ![r] = to], local' = [local EXCEPT ![r] = known],
           kind' = [kind EXCEPT ![r] = k], now' = now, UNCHANGED opened, RequestOK(r)'
    PROVE  RequestTypes' /\ \A q \in Requests : RequestOK(q)'
<1> USE DEF Control, StoreTypes
<1>1. RequestTypes'
  BY DEF RequestTypes
<1>2. \A q \in Requests :
         q # r => pc'[q] = pc[q] /\ kind'[q] = kind[q] /\ local'[q] = local[q]
  BY DEF RequestTypes
<1>3. \A q \in Requests : q # r => RequestOK(q)'
  BY <1>2 DEF RequestOK, Verified
<1> QED
  BY <1>1, <1>3

\* The types and the relation between the program counter of a request, its
\* handler and what it knows hold from the start.
LEMMA ControlInit == Init => Control
<1> SUFFICES ASSUME Init PROVE Control
  OBVIOUS
<1>1. StoreTypes
  <2>1. codeUsed \in BOOLEAN /\ enabled \in BOOLEAN /\ totp \in BOOLEAN
    BY Zenon DEF Init
  <2>2. now = 1 /\ lastStep = -1 /\ password = 0 /\ settled = 0 /\ claims = 0
        /\ session = [r \in Requests |-> "none"] /\ ended = {} /\ raced = {}
    BY DEF Init
  <2> QED
    BY <2>1, <2>2 DEF StoreTypes, SessionStates, StepNumbers
<1>2. RequestTypes
  BY NothingHeld DEF Init, RequestTypes, Pcs, StepNumbers
<1>3. ASSUME NEW r \in Requests PROVE RequestOK(r)
  BY NothingHeld DEF Init, RequestOK, Verified, LoginPcs, RefundPcs, MiddlewarePcs, AdminPcs
<1> QED
  BY <1>1, <1>2, <1>3 DEF Control

\* Every step of every handler preserves them.
LEMMA ControlStep == Control /\ [Next]_vars => Control'
<1> SUFFICES ASSUME Control, [Next]_vars PROVE Control'
  OBVIOUS
<1> USE DEF Control
<1>1. ASSUME UNCHANGED vars PROVE Control'
  BY <1>1 DEF vars, limiterVars, storeVars, historyVars, StoreTypes, RequestTypes,
              RequestOK, Verified
<1>2. CASE Tick
  <2>1. UNCHANGED <<storeVars, kind, pc, local, historyVars>> /\ now' = now + 1 /\ now < MaxNow
    BY <1>2 DEF Tick
  <2>2. StoreTypes' /\ RequestTypes'
    BY <2>1, MaxNowAssumption DEF storeVars, historyVars, StoreTypes, RequestTypes, StepNumbers
  <2>3. ASSUME NEW q \in Requests PROVE RequestOK(q)'
    <3>1. RequestOK(q) /\ local[q] \in Locals /\ now \in Nat
      BY DEF RequestTypes, StoreTypes
    <3> QED
      BY <3>1, <2>1 DEF RequestOK, Verified, Locals, StepNumbers
  <2> QED
    BY <2>2, <2>3
<1>3. ASSUME NEW r \in Requests, Step(r) PROVE Control'
  <2> DEFINE Requesting == RequestTypes' /\ \A q \in Requests : RequestOK(q)'
  <2>0. /\ RequestOK(r) /\ local[r] \in Locals /\ kind[r] \in Kinds \cup {"none"}
        /\ pc[r] \in Pcs
    BY DEF RequestTypes
  <2> USE DEF storeVars, historyVars
  <2>1. ASSUME NEW k \in Kinds, Start(r, k) PROVE Control'
    <3>1. PICK n \in Names, i \in Addresses, s \in Requests \cup {0} :
             local' = [local EXCEPT ![r] =
                         [NoLocal EXCEPT !.name = n, !.ip = i, !.at = now, !.with = s,
                            !.before = {q \in Requests : session[q] # "none"}]]
      BY <2>1, AdminAssumption DEF Start
    <3> DEFINE known == [NoLocal EXCEPT !.name = n, !.ip = i, !.at = now, !.with = s,
                            !.before = {q \in Requests : session[q] # "none"}]
    <3> DEFINE to == IF k \in {"login", "claim"} THEN "user" ELSE "session"
    <3>2. known \in Locals /\ known.at = now /\ known.pw = 0 /\ known.step = -1
      BY NothingHeld DEF Locals, StoreTypes
    <3>3. /\ local' = [local EXCEPT ![r] = known] /\ pc' = [pc EXCEPT ![r] = to]
          /\ kind' = [kind EXCEPT ![r] = k] /\ now' = now /\ UNCHANGED opened
          /\ UNCHANGED storeVars /\ UNCHANGED historyVars
      BY <3>1, <2>1 DEF Start
    <3>4. local'[r] = known /\ pc'[r] = to /\ kind'[r] = k
      BY <3>3 DEF RequestTypes
    <3> HIDE DEF known
    <3>5. RequestOK(r)'
      BY <3>2, <3>3, <3>4 DEF RequestOK, Verified, LoginPcs, RefundPcs, MiddlewarePcs, AdminPcs,
           Kinds, Administering, StoreTypes
    <3>6. Requesting
      BY <3>2, <3>3, <3>5, LearnControl DEF Pcs, MiddlewarePcs, ReservePcs
    <3>7. StoreTypes'
      BY <3>3 DEF StoreTypes
    <3> QED
      BY <3>6, <3>7
  <2>2. CASE ResolveSession(r)
    <3> DEFINE known == [local[r] EXCEPT !.seen = session[local[r].with]]
    <3>1. /\ known \in Locals /\ known.at = local[r].at /\ known.pw = local[r].pw
          /\ known.step = local[r].step
      BY <2>2, <2>0 DEF ResolveSession, Locals, SessionStates
    <3>2. /\ local' = [local EXCEPT ![r] = known] /\ pc' = [pc EXCEPT ![r] = "principal"]
          /\ kind' = [kind EXCEPT ![r] = kind[r]] /\ now' = now /\ UNCHANGED opened
      BY <2>2, <2>0 DEF ResolveSession, RequestTypes
    <3>3. local'[r] = known /\ pc'[r] = "principal" /\ kind'[r] = kind[r] /\ pc[r] = "session"
      BY <3>2, <2>2 DEF RequestTypes, ResolveSession
    <3> HIDE DEF known
    <3>4. RequestOK(r)' /\ kind[r] \in Kinds
      BY <2>0, <3>1, <3>2, <3>3
         DEF RequestOK, Verified, LoginPcs, RefundPcs, MiddlewarePcs, AdminPcs
    <3>5. Requesting
      BY <3>1, <3>2, <3>4, LearnControl DEF Pcs, MiddlewarePcs
    <3>6. StoreTypes'
      BY <2>2 DEF StoreTypes, ResolveSession
    <3> QED
      BY <3>5, <3>6
  <2>3. CASE ResolvePrincipal(r)
    <3>1. Requesting
      BY <2>3, <2>0, GoControl DEF ResolvePrincipal, RequestOK, Verified, Pcs, LoginPcs,
           RefundPcs, MiddlewarePcs, AdminPcs
    <3> QED
      BY <3>1, <2>3 DEF ResolvePrincipal, StoreTypes
  <2>4. CASE touch_session(r)
    <3>1. session' \in [Requests -> SessionStates]
      BY <2>4 DEF touch_session, Touched, StoreTypes
    <3>2. CASE kind[r] = "read"
      <4>1. Requesting
        BY <2>4, <3>2, FinishControl DEF touch_session
      <4> QED
        BY <4>1, <3>1, <2>4 DEF touch_session, StoreTypes
    <3>3. CASE kind[r] # "read"
      <4>1. Requesting
        BY <2>4, <3>3, <2>0, GoControl DEF touch_session, RequestOK, Verified, Pcs, LoginPcs,
             RefundPcs, MiddlewarePcs, AdminPcs, ReservePcs
      <4> QED
        BY <4>1, <3>1, <2>4 DEF touch_session, StoreTypes
    <3> QED
      BY <3>2, <3>3
  <2>5. CASE ReserveUser(r)
    <3>1. Go(r, "ip") \/ Finish(r)
      BY <2>5 DEF ReserveUser
    <3>2. ASSUME Go(r, "ip") PROVE Requesting
      BY <2>5, <3>2, <2>0, GoControl DEF ReserveUser, RequestOK, Verified, Pcs, LoginPcs,
           RefundPcs, MiddlewarePcs, AdminPcs, ReservePcs
    <3>3. ASSUME Finish(r) PROVE Requesting
      BY <2>5, <3>3, FinishControl DEF ReserveUser
    <3> QED
      BY <3>1, <3>2, <3>3, <2>5 DEF ReserveUser, StoreTypes
  <2>6. CASE ReserveIp(r)
    <3>1. PICK to \in {"find", "release"} : Go(r, to)
      BY <2>6 DEF ReserveIp
    <3>2. Requesting
      BY <2>6, <3>1, <2>0, GoControl DEF ReserveIp, RequestOK, Verified, Pcs, LoginPcs,
           RefundPcs, MiddlewarePcs, AdminPcs, ReservePcs
    <3> QED
      BY <3>2, <2>6 DEF ReserveIp, StoreTypes
  <2>7. CASE Release(r)
    <3>1. Requesting
      BY <2>7, FinishControl DEF Release
    <3> QED
      BY <3>1, <2>7 DEF Release, StoreTypes
  <2>8. CASE RefundName(r)
    <3>1. Requesting
      BY <2>8, <2>0, GoControl DEF RefundName, RequestOK, Verified, Pcs, LoginPcs,
           RefundPcs, MiddlewarePcs, AdminPcs
    <3> QED
      BY <3>1, <2>8 DEF RefundName, StoreTypes
  <2>9. CASE RefundAddress(r)
    <3>1. CASE kind[r] = "login"
      <4>1. Requesting
        BY <2>9, <3>1, <2>0, GoControl DEF RefundAddress, RequestOK, Verified, Pcs, LoginPcs,
             RefundPcs, MiddlewarePcs, AdminPcs
      <4> QED
        BY <4>1, <2>9 DEF RefundAddress, StoreTypes
    <3>2. CASE kind[r] # "login"
      <4>1. Requesting
        BY <2>9, <3>2, FinishControl DEF RefundAddress
      <4> QED
        BY <4>1, <2>9 DEF RefundAddress, StoreTypes
    <3> QED
      BY <3>1, <3>2
  <2>10. CASE LoginPrincipal(r)
    <3>1. Requesting
      BY <2>10, <2>0, GoControl DEF LoginPrincipal, RequestOK, Verified, Pcs, LoginPcs,
           RefundPcs, MiddlewarePcs, AdminPcs
    <3> QED
      BY <3>1, <2>10 DEF LoginPrincipal, StoreTypes
  <2>11. CASE LoginPassword(r)
    <3> DEFINE known == [local[r] EXCEPT !.pw = password]
    <3>1. known \in Locals /\ known.at = local[r].at /\ known.step = local[r].step
      BY <2>0 DEF Locals, StoreTypes
    <3>2. /\ local' = [local EXCEPT ![r] = known] /\ pc' = [pc EXCEPT ![r] = "totp"]
          /\ kind' = [kind EXCEPT ![r] = kind[r]] /\ now' = now /\ UNCHANGED opened
      BY <2>11, <2>0 DEF LoginPassword, RequestTypes
    <3>3. local'[r] = known /\ pc'[r] = "totp" /\ kind'[r] = "login" /\ pc[r] = "credential"
          /\ kind[r] = "login"
      BY <3>2, <2>11 DEF RequestTypes, LoginPassword
    <3> HIDE DEF known
    <3>4. RequestOK(r)' /\ kind[r] \in Kinds
      BY <2>0, <3>1, <3>2, <3>3
         DEF RequestOK, Verified, LoginPcs, RefundPcs, MiddlewarePcs, AdminPcs, Kinds
    <3>5. Requesting
      BY <3>1, <3>2, <3>4, LearnControl DEF Pcs, LoginPcs
    <3>6. StoreTypes'
      BY <2>11 DEF StoreTypes, LoginPassword
    <3> QED
      BY <3>5, <3>6
  <2>12. CASE LoginTotp(r)
    <3>0. StoreTypes' /\ now' = now /\ UNCHANGED opened /\ pc[r] = "totp" /\ kind[r] = "login"
      BY <2>0, <2>12 DEF StoreTypes, LoginTotp, RequestOK, LoginPcs
    <3>1. CASE totp
      <4>1. PICK s \in Steps(local[r].at) :
               local' = [local EXCEPT ![r].step = s] /\ pc' = [pc EXCEPT ![r] = "step"]
               /\ UNCHANGED kind
        BY <2>12, <3>1 DEF LoginTotp
      <4> DEFINE known == [local[r] EXCEPT !.step = s]
      <4>2. s \in Nat /\ s <= local[r].at + 1
        BY <2>0 DEF Locals, Steps
      <4>3. known \in Locals /\ known.at = local[r].at /\ known.pw = local[r].pw /\ known.step = s
        BY <2>0, <4>2 DEF Locals, StepNumbers
      <4>4. local' = [local EXCEPT ![r] = known] /\ kind' = [kind EXCEPT ![r] = kind[r]]
        BY <4>1, <2>0 DEF RequestTypes
      <4>5. local'[r] = known /\ pc'[r] = "step" /\ kind'[r] = "login"
        BY <4>1, <4>4, <3>0 DEF RequestTypes
      <4> HIDE DEF known
      <4>6. RequestOK(r)' /\ kind[r] \in Kinds
        BY <2>0, <3>0, <4>2, <4>3, <4>5
           DEF RequestOK, Verified, LoginPcs, RefundPcs, MiddlewarePcs, AdminPcs, Kinds,
               Locals, StoreTypes
      <4>7. Requesting
        BY <3>0, <4>1, <4>3, <4>4, <4>6, LearnControl DEF Pcs, LoginPcs
      <4> QED
        BY <4>7, <3>0
    <3>2. CASE ~totp
      <4>1. Requesting
        BY <2>12, <3>0, <3>2, <2>0, GoControl DEF LoginTotp, RequestOK, Verified, Pcs, LoginPcs,
             RefundPcs, MiddlewarePcs, AdminPcs
      <4> QED
        BY <4>1, <3>0
    <3> QED
      BY <3>1, <3>2
  <2>13. CASE record_totp_step(r)
    <3>1. CASE lastStep < local[r].step
      <4>1. Requesting
        BY <2>13, <3>1, <2>0, GoControl DEF record_totp_step, RequestOK, Verified, Pcs, LoginPcs,
             RefundPcs, MiddlewarePcs, AdminPcs
      <4>2. StoreTypes'
        BY <2>13, <3>1, <2>0 DEF record_totp_step, StoreTypes, RequestOK, Locals
      <4> QED
        BY <4>1, <4>2
    <3>2. CASE ~(lastStep < local[r].step)
      <4>1. Requesting
        BY <2>13, <3>2, FinishControl DEF record_totp_step
      <4> QED
        BY <4>1, <3>2, <2>13 DEF record_totp_step, StoreTypes
    <3> QED
      BY <3>1, <3>2
  <2>14. CASE create_session(r)
    <3>1. opened' = [opened EXCEPT ![r] = [pw |-> local[r].pw, step |-> local[r].step]]
          /\ session' = [session EXCEPT ![r] = "active"] /\ Finish(r) /\ now' = now
          /\ UNCHANGED <<codeUsed, password, enabled, totp, lastStep, claims, settled, ended,
                         raced>>
      BY <2>14 DEF create_session, OpenSession
    <3>2. RequestTypes'
      BY <3>1, <2>0, NothingHeld DEF RequestTypes, Finish, Kinds, Pcs, Locals
    <3>3. /\ pc' = [pc EXCEPT ![r] = "done"] /\ kind' = [kind EXCEPT ![r] = "none"]
          /\ local' = [local EXCEPT ![r] = NoLocal]
      BY <3>1 DEF Finish
    <3>4. RequestOK(r)'
      BY <3>1, <3>3, NothingHeld DEF RequestTypes, RequestOK, Verified, LoginPcs, RefundPcs,
           MiddlewarePcs, AdminPcs, StoreTypes
    <3>5. \A q \in Requests : q # r => RequestOK(q)'
      BY <3>1, <3>3 DEF RequestTypes, RequestOK, Verified
    <3>6. StoreTypes'
      BY <3>1 DEF StoreTypes, SessionStates
    <3> QED
      BY <3>2, <3>4, <3>5, <3>6
  <2>15. CASE ClaimCode(r)
    <3>0. StoreTypes' /\ now' = now /\ UNCHANGED opened /\ kind[r] = "claim" /\ pc[r] = "find"
      BY <2>15 DEF StoreTypes, ClaimCode
    <3>1. PICK s \in Steps(local[r].at) \cup {-1} : local' = [local EXCEPT ![r].step = s]
      BY <2>15 DEF ClaimCode
    <3> DEFINE known == [local[r] EXCEPT !.step = s]
    <3>2. s \in StepNumbers /\ s <= local[r].at + 1
      BY <2>0 DEF Locals, Steps, StepNumbers
    <3>3. known \in Locals /\ known.at = local[r].at /\ known.pw = local[r].pw /\ known.step = s
      BY <2>0, <3>2 DEF Locals
    <3>4. /\ local' = [local EXCEPT ![r] = known] /\ kind' = [kind EXCEPT ![r] = kind[r]]
          /\ pc' = [pc EXCEPT ![r] = "consume"]
      BY <3>1, <2>15, <2>0 DEF RequestTypes, ClaimCode
    <3>5. local'[r] = known /\ pc'[r] = "consume" /\ kind'[r] = "claim"
      BY <3>4, <3>0 DEF RequestTypes
    <3> HIDE DEF known
    <3>6. RequestOK(r)' /\ kind[r] \in Kinds
      BY <2>0, <3>0, <3>2, <3>3, <3>5
         DEF RequestOK, Verified, LoginPcs, RefundPcs, MiddlewarePcs, AdminPcs, Kinds,
             Locals, StoreTypes, StepNumbers
    <3>7. Requesting
      BY <3>0, <3>3, <3>4, <3>6, LearnControl DEF Pcs
    <3> QED
      BY <3>7, <3>0
  <2>16. CASE consume_bootstrap_code(r)
    <3>1. CASE ~codeUsed /\ password = 0
      <4>1. Claim(r) /\ Go(r, "refund") /\ now' = now
            /\ UNCHANGED <<enabled, settled, ended, raced>> /\ pc[r] = "consume"
        BY <2>16, <3>1 DEF consume_bootstrap_code
      <4>2. /\ pc' = [pc EXCEPT ![r] = "refund"] /\ kind' = kind /\ local' = local
            /\ opened' = [opened EXCEPT ![r] = [pw |-> password + 1, step |-> local[r].step]]
        BY <4>1 DEF Go, Claim, OpenSession
      <4>3. RequestTypes'
        BY <4>2, <2>0 DEF RequestTypes, Pcs, RefundPcs, Locals, StoreTypes
      <4>4. \A q \in Requests : RequestOK(q)'
        BY <4>1, <4>2 DEF RequestTypes, RequestOK, Verified, LoginPcs, RefundPcs,
             MiddlewarePcs, AdminPcs
      <4>5. StoreTypes'
        BY <4>1, <2>0 DEF StoreTypes, Claim, OpenSession, SessionStates, RequestOK, Locals
      <4> QED
        BY <4>3, <4>4, <4>5
    <3>2. CASE ~(~codeUsed /\ password = 0)
      <4>1. Finish(r) /\ now' = now /\ UNCHANGED <<storeVars, historyVars>>
        BY <2>16, <3>2 DEF consume_bootstrap_code
      <4>2. Requesting
        BY <4>1, FinishControl
      <4> QED
        BY <4>1, <4>2 DEF StoreTypes
    <3> QED
      BY <3>1, <3>2
  <2>17. CASE FindTarget(r)
    <3>1. Requesting
      BY <2>17, <2>0, GoControl DEF FindTarget, RequestOK, Verified, Pcs, LoginPcs,
           RefundPcs, MiddlewarePcs, AdminPcs, Administering
    <3> QED
      BY <3>1, <2>17 DEF FindTarget, StoreTypes
  <2>18. CASE Save(r)
    <3> DEFINE known == IF kind[r] = "password" THEN [local[r] EXCEPT !.pw = password + 1]
                        ELSE local[r]
    <3> DEFINE to == IF kind[r] = "enable" THEN "answer" ELSE "revoke"
    <3>1. known \in Locals /\ known.at = local[r].at /\ known.step = local[r].step
      BY <2>0 DEF Locals, StoreTypes
    <3>2. /\ local' = [local EXCEPT ![r] = known] /\ kind' = [kind EXCEPT ![r] = kind[r]]
          /\ pc' = [pc EXCEPT ![r] = to] /\ now' = now /\ UNCHANGED opened
      BY <2>18, <2>0 DEF RequestTypes, Save
    <3>3. local'[r] = known /\ pc'[r] = to /\ kind'[r] = kind[r]
      BY <3>2, <2>0 DEF RequestTypes
    <3> HIDE DEF known
    <3>4. RequestOK(r)' /\ kind[r] \in Kinds
      BY <2>0, <2>18, <3>1, <3>2, <3>3
         DEF Save, RequestOK, Verified, LoginPcs, RefundPcs, MiddlewarePcs, AdminPcs, Kinds,
             Administering
    <3>5. Requesting
      BY <3>1, <3>2, <3>4, LearnControl DEF Pcs, AdminPcs
    <3>6. StoreTypes'
      <4>0. password' = password + 1 \/ password' = password
        BY <2>18, Zenon DEF Save
      <4>1. password' \in Nat
        BY <4>0 DEF StoreTypes
      <4>2. enabled' \in BOOLEAN
        <5>1. CASE kind[r] = "password"
          BY <5>1, <2>18 DEF Save, StoreTypes
        <5>2. CASE kind[r] = "disable"
          BY <5>2, <2>18, Zenon DEF Save
        <5>3. CASE kind[r] = "enable"
          BY <5>3, <2>18, Zenon DEF Save
        <5>4. CASE kind[r] = "role"
          BY <5>4, <2>18 DEF Save, StoreTypes
        <5> QED
          BY <5>1, <5>2, <5>3, <5>4, <2>0, <2>18 DEF Save, RequestOK, AdminPcs, Administering
      <4> QED
        BY <2>18, <4>1, <4>2 DEF Save, StoreTypes
    <3> QED
      BY <3>5, <3>6
  <2>19. CASE revoke_sessions_for_principal(r)
    <3>1. Requesting
      BY <2>19, <2>0, GoControl DEF revoke_sessions_for_principal, RequestOK, Verified, Pcs,
           LoginPcs, RefundPcs, MiddlewarePcs, AdminPcs, Administering
    <3> QED
      BY <3>1, <2>19 DEF revoke_sessions_for_principal, StoreTypes, SessionStates
  <2>20. CASE Answer(r)
    <3>1. Requesting
      BY <2>20, FinishControl DEF Answer
    <3> QED
      BY <3>1, <2>20, <2>0 DEF Answer, StoreTypes, Locals
  <2>21. CASE RevokeOne(r)
    <3>1. Requesting
      BY <2>21, FinishControl DEF RevokeOne
    <3> QED
      BY <3>1, <2>21, <2>0 DEF RevokeOne, StoreTypes, SessionStates, Locals
  <2>22. CASE Fails(r)
    <3>1. Requesting
      BY <2>22, FinishControl DEF Fails
    <3> QED
      BY <3>1, <2>22 DEF Fails, StoreTypes
  <2>23. CASE Expire(r)
    <3>1. StoreTypes'
      BY <2>23 DEF Expire, StoreTypes, SessionStates
    <3>2. Requesting
      BY <2>23 DEF Expire, RequestTypes, RequestOK, Verified
    <3> QED
      BY <3>1, <3>2
  <2> QED
    BY <1>3, <2>1, <2>2, <2>3, <2>4, <2>5, <2>6, <2>7, <2>8, <2>9, <2>10, <2>11, <2>12, <2>13,
       <2>14, <2>15, <2>16, <2>17, <2>18, <2>19, <2>20, <2>21, <2>22, <2>23 DEF Step
<1> QED
  BY <1>1, <1>2, <1>3 DEF Next

-----------------------------------------------------------------------------
(* Steps that write no account: most of them.                              *)

SpentPcs == {"revoke", "answer", "refund", "refundIp", "create", "done"}
accountVars == <<codeUsed, password, lastStep, session, opened, claims, settled, ended, raced>>

OthersStay(r) ==
    \A q \in Requests : q # r =>
        kind'[q] = kind[q] /\ pc'[q] = pc[q] /\ local'[q] = local[q]

\* What a handler can have learnt in such a step.
Advances(r) ==
    /\ kind'[r] \in {"none", "login", "claim"} \/ codeUsed
    /\ kind'[r] = "login" \/ pc'[r] = "idle" => session[r] = "none"
    /\ \A s \in local'[r].before : session[s] # "none"
    /\ pc'[r] # "answer"
    /\ pc'[r] = "step" => local'[r].step # -1
    /\ Recorded(r)' => \/ Recorded(r) /\ local'[r].step = local[r].step
                       \/ local'[r].step = -1
    /\ local'[r].pw <= password
    /\ Verified(r)' => \/ Verified(r) /\ local'[r].pw = local[r].pw
                       \/ codeUsed /\ local'[r].pw = password
    /\ pc[r] \in SpentPcs => pc'[r] \in SpentPcs

\* A request that ends forgets what it held.
LEMMA FinishAdvances ==
    ASSUME Control, NEW r \in Requests, Finish(r) PROVE OthersStay(r) /\ Advances(r)
<1>1. OthersStay(r)
  BY DEF Control, RequestTypes, Finish, OthersStay
<1>2. pc'[r] = "done" /\ kind'[r] = "none" /\ local'[r] = NoLocal
  BY DEF Control, RequestTypes, Finish
<1> QED
  BY <1>1, <1>2, NothingHeld DEF Advances, Recorded, Verified, SpentPcs, Control, StoreTypes

\* A request that only moves on keeps what it holds.
LEMMA GoAdvances ==
    ASSUME Control, Accounts, NEW r \in Requests, NEW to \in Pcs, Go(r, to),
           to \notin {"idle", "answer", "step"}, pc[r] # "idle",
           pc[r] \in SpentPcs => to \in SpentPcs,
           kind[r] = "login" /\ to \in {"refund", "refundIp", "create"} =>
              pc[r] \in {"refund", "refundIp", "create"} \/ local[r].step = -1,
           kind[r] = "login" /\ to \in {"totp", "refund", "refundIp", "create"} => Verified(r)
    PROVE  OthersStay(r) /\ Advances(r)
<1>1. OthersStay(r)
  BY DEF Control, RequestTypes, Go, OthersStay
<1>2. pc'[r] = to /\ kind'[r] = kind[r] /\ local'[r] = local[r]
  BY DEF Control, RequestTypes, Go
<1>3. RequestOK(r)
  BY DEF Control
<1> QED
  BY <1>1, <1>2, <1>3
     DEF Advances, Recorded, Verified, Accounts, NothingBeforeClaim, NotYetOpen, Final,
         StepsApart, PasswordsCovered, RequestOK, Control, StoreTypes

\* Such a step preserves what is known of the accounts.
LEMMA QuietAccounts ==
    ASSUME Control, Control', Accounts, NEW r \in Requests, UNCHANGED accountVars,
           OthersStay(r), Advances(r)
    PROVE  Accounts'
<1> USE DEF accountVars
<1>0. /\ \A q \in Requests : local[q] \in Locals /\ local'[q] \in Locals
      /\ password \in Nat /\ lastStep \in StepNumbers /\ settled \in Nat
      /\ \A q \in Requests : opened[q] \in [pw : Nat, step : StepNumbers]
  BY DEF Control, RequestTypes, StoreTypes
<1>1. NothingBeforeClaim' /\ ClaimedIsOne'
  <2>1. ClaimedIsOne'
    BY DEF Accounts, ClaimedIsOne
  <2>2. NothingBeforeClaim'
    BY DEF Accounts, NothingBeforeClaim, OthersStay, Advances, Verified
  <2> QED
    BY <2>1, <2>2
<1>2. password' <= Cardinality(Spent')
  <2>1. Spent \subseteq Spent' /\ Spent' \subseteq Requests
    BY DEF Spent, OthersStay, Advances, SpentPcs
  <2>2. IsFiniteSet(Spent') /\ Cardinality(Spent) <= Cardinality(Spent')
    BY <2>1, RequestsAssumption, FS_Subset
  <2>3. Cardinality(Spent) \in Nat /\ Cardinality(Spent') \in Nat
    BY <2>1, <2>2, FS_Subset, FS_CardinalityType
  <2> QED
    BY <2>2, <2>3, <1>0 DEF Accounts
<1>3. NotYetOpen'
  BY DEF Accounts, NotYetOpen, OthersStay, Advances
<1>4. Final'
  BY DEF Accounts, Final, OthersStay, Advances
<1>5. StepsApart'
  <2>1. \A q \in Requests :
           Recorded(q)' => \/ Recorded(q) /\ local'[q].step = local[q].step
                           \/ local'[q].step = -1
    BY DEF OthersStay, Advances, Recorded
  <2>2. \A q \in Requests : pc'[q] = "step" => local'[q].step # -1
    BY DEF OthersStay, Advances, Accounts, StepsApart
  <2>3. \A q \in Requests : Recorded(q)' => local'[q].step <= lastStep
    BY <2>1, <1>0 DEF Accounts, StepsApart, StepNumbers
  <2>4. ASSUME NEW q \in Requests, NEW s \in Requests, q # s
        PROVE  /\ Recorded(q)' /\ Recorded(s)' /\ local'[q].step # -1
                     => local'[q].step # local'[s].step
               /\ Recorded(q)' /\ local'[q].step # -1 => local'[q].step # opened[s].step
    BY <2>1, <2>4 DEF Accounts, StepsApart
  <2> QED
    BY <2>2, <2>3, <2>4 DEF Accounts, StepsApart
<1>6. PasswordsCovered'
  <2>1. \A q \in Requests :
           Verified(q)' => \/ Verified(q) /\ local'[q].pw = local[q].pw
                           \/ local'[q].pw = password
    BY DEF OthersStay, Advances, Verified
  <2>2. ASSUME NEW p \in Nat, p <= password, Covered(p)
        PROVE  \A s \in Requests :
                  /\ session[s] = "active" /\ opened[s].pw < p => s \in raced
                  /\ Verified(s)' /\ local'[s].pw < p => s \in raced
    BY <2>1, <2>2, <1>0 DEF Covered
  <2>3. \A q \in Requests : pc'[q] = "answer" => pc[q] = "answer" /\ local'[q] = local[q]
    BY DEF OthersStay, Advances
  <2>4. \A q \in Requests : local'[q].pw <= password
    BY DEF OthersStay, Advances, Accounts, PasswordsCovered
  <2>5. Covered(settled)'
    BY <2>2, <1>0 DEF Accounts, PasswordsCovered, Covered
  <2>6. ASSUME NEW q \in Requests, pc'[q] = "answer" PROVE Covered(local[q].pw)'
    <3>1. local'[q] = local[q] /\ local[q].pw \in Nat /\ local[q].pw <= password
          /\ Covered(local[q].pw)
      BY <2>3, <2>6, <1>0 DEF Accounts, PasswordsCovered, Locals
    <3> DEFINE p == local[q].pw
    <3>2. \A s \in Requests :
             /\ session[s] = "active" /\ opened[s].pw < p => s \in raced
             /\ Verified(s)' /\ local'[s].pw < p => s \in raced
      BY <3>1, <2>2
    <3> QED
      BY <3>1, <3>2 DEF Covered
  <2> QED
    BY <2>4, <2>5, <2>6 DEF Accounts, PasswordsCovered
<1> QED
  BY <1>1, <1>2, <1>3, <1>4, <1>5, <1>6 DEF Accounts

\* The steps that write no account.
QuietStep(r) ==
    \/ \E k \in Kinds : Start(r, k)
    \/ ResolveSession(r) \/ ResolvePrincipal(r) \/ touch_session(r)
    \/ ReserveUser(r) \/ ReserveIp(r) \/ Release(r) \/ RefundName(r) \/ RefundAddress(r)
    \/ LoginPrincipal(r) \/ LoginPassword(r) \/ LoginTotp(r) \/ ClaimCode(r)
    \/ FindTarget(r) \/ Fails(r)

LEMMA QuietStepsAdvance ==
    ASSUME Control, Accounts, NEW r \in Requests, QuietStep(r)
    PROVE  UNCHANGED accountVars /\ OthersStay(r) /\ Advances(r)
<1> USE DEF accountVars, storeVars, historyVars
<1>0. /\ RequestOK(r) /\ local[r] \in Locals /\ pc[r] \in Pcs
      /\ kind \in [Requests -> Kinds \cup {"none"}] /\ pc \in [Requests -> Pcs]
      /\ local \in [Requests -> Locals] /\ password \in Nat
  BY DEF Control, RequestTypes, StoreTypes
<1>1. ASSUME NEW k \in Kinds, Start(r, k) PROVE UNCHANGED accountVars /\ OthersStay(r) /\ Advances(r)
  <2>1. PICK n \in Names, i \in Addresses,
             s \in IF k \in {"login", "claim"} THEN {0}
                   ELSE {q \in Requests : session[q] # "none"} :
           local' = [local EXCEPT ![r] =
                       [NoLocal EXCEPT !.name = n, !.ip = i, !.at = now, !.with = s,
                          !.before = {q \in Requests : session[q] # "none"}]]
    BY <1>1, AdminAssumption DEF Start
  <2> DEFINE known == [NoLocal EXCEPT !.name = n, !.ip = i, !.at = now, !.with = s,
                         !.before = {q \in Requests : session[q] # "none"}]
  <2>2. known.pw = 0 /\ known.step = -1 /\ known.before = {q \in Requests : session[q] # "none"}
    BY NothingHeld DEF Locals
  <2>3. local'[r] = known /\ kind'[r] = k
        /\ pc'[r] = (IF k \in {"login", "claim"} THEN "user" ELSE "session") /\ OthersStay(r)
        /\ pc[r] = "idle"
    BY <1>0, <1>1, <2>1 DEF Start, OthersStay
  <2>4. k \notin {"login", "claim"} => codeUsed
    BY <2>1 DEF Accounts, NothingBeforeClaim
  <2> HIDE DEF known
  <2>5. Advances(r)
    BY <1>0, <2>2, <2>3, <2>4 DEF Advances, Recorded, Verified, SpentPcs, Accounts, NotYetOpen
  <2> QED
    BY <1>1, <2>3, <2>5 DEF Start
<1>2. CASE ResolveSession(r)
  <2>1. /\ local'[r].pw = local[r].pw /\ local'[r].step = local[r].step
        /\ local'[r].before = local[r].before /\ kind'[r] = kind[r] /\ pc'[r] = "principal"
        /\ pc[r] = "session" /\ OthersStay(r)
    BY <1>0, <1>2 DEF ResolveSession, OthersStay, Locals
  <2>2. Advances(r)
    BY <1>0, <2>1 DEF Advances, Recorded, Verified, SpentPcs, Accounts, NotYetOpen, Final,
         NothingBeforeClaim, PasswordsCovered
  <2> QED
    BY <1>2, <2>1, <2>2 DEF ResolveSession
<1>3. CASE ResolvePrincipal(r)
  <2>1. Go(r, "touch") /\ pc[r] = "principal"
    BY <1>3 DEF ResolvePrincipal
  <2>2. OthersStay(r) /\ Advances(r)
    BY <2>1, GoAdvances DEF SpentPcs, Pcs, MiddlewarePcs
  <2> QED
    BY <1>3, <2>2 DEF ResolvePrincipal
<1>4. CASE touch_session(r)
  <2>1. session' = session
    BY <1>4 DEF touch_session, Touched, Control, StoreTypes
  <2>2. CASE kind[r] = "read"
    BY <1>4, <2>1, <2>2, FinishAdvances DEF touch_session
  <2>3. CASE kind[r] # "read"
    <3>1. PICK to \in {"logout", "user"} : Go(r, to) /\ pc[r] = "touch"
      BY <1>4, <2>3 DEF touch_session
    <3>2. OthersStay(r) /\ Advances(r)
      BY <3>1, GoAdvances DEF SpentPcs, Pcs, ReservePcs
    <3> QED
      BY <1>4, <2>1, <3>2 DEF touch_session
  <2> QED
    BY <2>2, <2>3
<1>5. CASE ReserveUser(r)
  <2>1. Go(r, "ip") \/ Finish(r)
    BY <1>5 DEF ReserveUser
  <2>2. ASSUME Go(r, "ip") PROVE OthersStay(r) /\ Advances(r)
    BY <1>5, <2>2, GoAdvances DEF ReserveUser, SpentPcs, Pcs, ReservePcs
  <2> QED
    BY <1>5, <2>1, <2>2, FinishAdvances DEF ReserveUser
<1>6. CASE ReserveIp(r)
  <2>1. PICK to \in {"find", "release"} : Go(r, to) /\ pc[r] = "ip"
    BY <1>6 DEF ReserveIp
  <2>2. OthersStay(r) /\ Advances(r)
    BY <2>1, GoAdvances DEF SpentPcs, Pcs, ReservePcs
  <2> QED
    BY <1>6, <2>2 DEF ReserveIp
<1>7. CASE Release(r)
  BY <1>7, FinishAdvances DEF Release
<1>8. CASE RefundName(r)
  <2>1. Go(r, "refundIp") /\ pc[r] = "refund"
    BY <1>8 DEF RefundName
  <2>2. OthersStay(r) /\ Advances(r)
    BY <2>1, GoAdvances DEF SpentPcs, Pcs, RefundPcs, Verified
  <2> QED
    BY <1>8, <2>2 DEF RefundName
<1>9. CASE RefundAddress(r)
  <2>1. CASE kind[r] = "login"
    <3>1. Go(r, "create") /\ pc[r] = "refundIp"
      BY <1>9, <2>1 DEF RefundAddress
    <3>2. OthersStay(r) /\ Advances(r)
      BY <3>1, GoAdvances DEF SpentPcs, Pcs, LoginPcs, Verified
    <3> QED
      BY <1>9, <3>2 DEF RefundAddress
  <2>2. CASE kind[r] # "login"
    BY <1>9, <2>2, FinishAdvances DEF RefundAddress
  <2> QED
    BY <2>1, <2>2
<1>10. CASE LoginPrincipal(r)
  <2>1. Go(r, "credential") /\ pc[r] = "find"
    BY <1>10 DEF LoginPrincipal
  <2>2. OthersStay(r) /\ Advances(r)
    BY <2>1, GoAdvances DEF SpentPcs, Pcs, LoginPcs
  <2> QED
    BY <1>10, <2>2 DEF LoginPrincipal
<1>11. CASE LoginPassword(r)
  <2>1. /\ local'[r].pw = password /\ local'[r].step = local[r].step
        /\ local'[r].before = local[r].before /\ kind'[r] = "login" /\ pc'[r] = "totp"
        /\ pc[r] = "credential" /\ kind[r] = "login" /\ password # 0 /\ OthersStay(r)
    BY <1>0, <1>11 DEF LoginPassword, OthersStay, Locals
  <2>2. codeUsed
    BY <2>1 DEF Accounts, NothingBeforeClaim
  <2>3. Advances(r)
    BY <1>0, <2>1, <2>2 DEF Advances, Recorded, Verified, SpentPcs, Accounts, NotYetOpen, Final
  <2> QED
    BY <1>11, <2>1, <2>3 DEF LoginPassword
<1>12. CASE LoginTotp(r)
  <2>0. pc[r] = "totp" /\ kind[r] = "login" /\ local[r].step = -1 /\ Verified(r)
    BY <1>0, <1>12 DEF LoginTotp, RequestOK, LoginPcs, Verified
  <2>1. CASE totp
    <3>1. PICK s \in Steps(local[r].at) :
             local' = [local EXCEPT ![r].step = s] /\ pc' = [pc EXCEPT ![r] = "step"]
             /\ UNCHANGED kind
      BY <1>12, <2>1 DEF LoginTotp
    <3>2. s # -1
      BY <1>0 DEF Steps, Locals
    <3>3. /\ local'[r].pw = local[r].pw /\ local'[r].step = s
          /\ local'[r].before = local[r].before /\ kind'[r] = "login" /\ pc'[r] = "step"
          /\ OthersStay(r)
      BY <1>0, <2>0, <3>1 DEF OthersStay, Locals
    <3>4. Advances(r)
      BY <1>0, <2>0, <3>2, <3>3 DEF Advances, Recorded, Verified, SpentPcs, Accounts, NotYetOpen,
           Final, PasswordsCovered
    <3> QED
      BY <1>12, <3>3, <3>4 DEF LoginTotp
  <2>2. CASE ~totp
    <3>1. Go(r, "refund")
      BY <1>12, <2>2 DEF LoginTotp
    <3>2. OthersStay(r) /\ Advances(r)
      BY <3>1, <2>0, GoAdvances DEF SpentPcs, Pcs, RefundPcs
    <3> QED
      BY <1>12, <3>2 DEF LoginTotp
  <2> QED
    BY <2>1, <2>2
<1>13. CASE ClaimCode(r)
  <2>1. PICK s \in Steps(local[r].at) \cup {-1} : local' = [local EXCEPT ![r].step = s]
    BY <1>13 DEF ClaimCode
  <2>2. /\ local'[r].pw = local[r].pw /\ local'[r].before = local[r].before
        /\ kind'[r] = "claim" /\ pc'[r] = "consume" /\ kind[r] = "claim" /\ pc[r] = "find"
        /\ OthersStay(r)
    BY <1>0, <1>13, <2>1 DEF ClaimCode, OthersStay, Locals
  <2>3. Advances(r)
    BY <1>0, <2>2 DEF Advances, Recorded, Verified, SpentPcs, Accounts, NotYetOpen, Final,
         PasswordsCovered
  <2> QED
    BY <1>13, <2>2, <2>3 DEF ClaimCode
<1>14. CASE FindTarget(r)
  <2>1. Go(r, "save") /\ pc[r] = "find"
    BY <1>14 DEF FindTarget
  <2>2. OthersStay(r) /\ Advances(r)
    BY <2>1, GoAdvances DEF SpentPcs, Pcs, AdminPcs
  <2> QED
    BY <1>14, <2>2 DEF FindTarget
<1>15. CASE Fails(r)
  BY <1>15, FinishAdvances DEF Fails
<1> QED
  BY <1>1, <1>2, <1>3, <1>4, <1>5, <1>6, <1>7, <1>8, <1>9, <1>10, <1>11, <1>12, <1>13, <1>14,
     <1>15 DEF QuietStep

-----------------------------------------------------------------------------
(* Steps that write accounts.                                              *)

\* The requests that can have written a password only grow.
LEMMA SpentGrows ==
    ASSUME Control, NEW r \in Requests, OthersStay(r), pc[r] \in SpentPcs => pc'[r] \in SpentPcs
    PROVE  /\ Cardinality(Spent) \in Nat /\ Cardinality(Spent') \in Nat
           /\ Cardinality(Spent) <= Cardinality(Spent')
           /\ pc[r] \notin SpentPcs /\ pc'[r] \in SpentPcs
                 => Cardinality(Spent') = Cardinality(Spent) + 1
<1>1. Spent \subseteq Spent' /\ Spent' \subseteq Requests
  BY DEF Spent, OthersStay, SpentPcs
<1>2. IsFiniteSet(Spent') /\ IsFiniteSet(Spent) /\ Cardinality(Spent) <= Cardinality(Spent')
  BY <1>1, RequestsAssumption, FS_Subset
<1>3. Cardinality(Spent) \in Nat /\ Cardinality(Spent') \in Nat
  BY <1>2, FS_CardinalityType
<1>4. ASSUME pc[r] \notin SpentPcs, pc'[r] \in SpentPcs
      PROVE  Cardinality(Spent') = Cardinality(Spent) + 1
  <2>1. Spent' = Spent \cup {r} /\ r \notin Spent
    BY <1>4 DEF Spent, OthersStay, SpentPcs
  <2> QED
    BY <2>1, <1>2, FS_AddElement
<1> QED
  BY <1>2, <1>3, <1>4

\* The accounts before the claim.
LEMMA AccountsInit == Init => Accounts
<1> SUFFICES ASSUME Init PROVE Accounts
  OBVIOUS
<1>0. /\ password = 0 /\ claims = 0 /\ settled = 0 /\ lastStep = -1 /\ ended = {} /\ ~codeUsed
      /\ \A r \in Requests : /\ session[r] = "none" /\ kind[r] = "none" /\ pc[r] = "idle"
                             /\ local[r] = NoLocal /\ opened[r] = [pw |-> 0, step |-> -1]
  BY DEF Init
<1>1. NothingBeforeClaim /\ ClaimedIsOne /\ NotYetOpen
  BY <1>0 DEF NothingBeforeClaim, ClaimedIsOne, NotYetOpen, Verified
<1>2. Spent \subseteq Requests
  BY DEF Spent
<1>3. password <= Cardinality(Spent)
  BY <1>0, <1>2, RequestsAssumption, FS_Subset, FS_CardinalityType
<1>4. Final /\ StepsApart /\ PasswordsCovered
  BY <1>0, NothingHeld DEF Final, StepsApart, PasswordsCovered, Covered, Recorded, Verified
<1> QED
  BY <1>1, <1>3, <1>4 DEF Accounts

\* A session's deadline passes.
LEMMA ExpireAccounts ==
    ASSUME Control, Accounts, NEW r \in Requests, Expire(r) PROVE Accounts'
<1>1. /\ UNCHANGED <<codeUsed, password, lastStep, opened, claims, settled, ended, raced,
                     kind, pc, local>>
      /\ session' = [session EXCEPT ![r] = "expired"] /\ session[r] = "active"
  BY DEF Expire, historyVars
<1>2. /\ \A s \in Requests : session'[s] = IF s = r THEN "expired" ELSE session[s]
      /\ ended \subseteq Requests /\ \A q \in Requests : local[q].before \subseteq Requests
  BY <1>1 DEF Control, StoreTypes, RequestTypes, Locals
<1>3. NothingBeforeClaim' /\ ClaimedIsOne' /\ NotYetOpen'
  BY <1>1, <1>2 DEF Accounts, NothingBeforeClaim, ClaimedIsOne, NotYetOpen, Verified
<1>4. Final'
  BY <1>1, <1>2 DEF Accounts, Final
<1>5. StepsApart' /\ PasswordsCovered'
  BY <1>1, <1>2 DEF Accounts, StepsApart, PasswordsCovered, Covered, Recorded, Verified
<1>6. password' <= Cardinality(Spent')
  BY <1>1 DEF Accounts, Spent
<1> QED
  BY <1>3, <1>4, <1>5, <1>6 DEF Accounts

\* A sign-in records its step, which is newer than every step recorded.
LEMMA RecordAccounts ==
    ASSUME Control, Accounts, NEW r \in Requests, record_totp_step(r), lastStep < local[r].step
    PROVE  Accounts'
<1>1. /\ UNCHANGED <<codeUsed, password, session, opened, claims, settled, ended, raced,
                     kind, local>>
      /\ pc[r] = "step" /\ kind[r] = "login" /\ lastStep' = local[r].step
      /\ \A q \in Requests : pc'[q] = IF q = r THEN "refund" ELSE pc[q]
  BY DEF record_totp_step, Go, historyVars, Control, RequestTypes, RequestOK, LoginPcs
<1>2. /\ \A q \in Requests : local[q] \in Locals /\ opened[q].step \in StepNumbers
      /\ \A q \in Requests : local[q].step \in Int
      /\ lastStep \in StepNumbers
  BY DEF Control, StoreTypes, RequestTypes, Locals, StepNumbers
<1>3. Verified(r) /\ codeUsed
  BY <1>1 DEF Verified, Accounts, NothingBeforeClaim
<1>4. NothingBeforeClaim' /\ ClaimedIsOne' /\ NotYetOpen'
  BY <1>1, <1>3 DEF Accounts, NothingBeforeClaim, ClaimedIsOne, NotYetOpen
<1>5. Final'
  BY <1>1 DEF Accounts, Final
<1>6. StepsApart'
  <2>1. \A q \in Requests : Recorded(q)' => q = r \/ Recorded(q)
    BY <1>1 DEF Recorded
  <2>2. \A q \in Requests : opened[q].step < local[r].step /\ opened[q].step <= lastStep'
    BY <1>1, <1>2 DEF Accounts, StepsApart, StepNumbers
  <2>3. \A q \in Requests : Recorded(q) => local[q].step < local[r].step
    BY <1>1, <1>2 DEF Accounts, StepsApart, StepNumbers
  <2>4. \A q \in Requests : Recorded(q)' => local[q].step <= lastStep'
    BY <1>1, <1>2, <2>1, <2>3 DEF StepNumbers
  <2>5. ASSUME NEW q \in Requests, NEW s \in Requests, q # s, local[q].step # -1
        PROVE  /\ Recorded(q)' /\ Recorded(s)' => local[q].step # local[s].step
               /\ Recorded(q)' => local[q].step # opened[s].step
    BY <1>2, <2>1, <2>2, <2>3, <2>5 DEF Accounts, StepsApart, StepNumbers
  <2>6. \A q \in Requests : pc'[q] = "step" => local[q].step # -1
    BY <1>1 DEF Accounts, StepsApart
  <2> QED
    BY <1>1, <2>2, <2>4, <2>5, <2>6 DEF Accounts, StepsApart
<1>7. PasswordsCovered'
  <2>1. \A q \in Requests : Verified(q)' = Verified(q)
    BY <1>1 DEF Verified
  <2> QED
    BY <1>1, <2>1 DEF Accounts, PasswordsCovered, Covered
<1>8. password' <= Cardinality(Spent')
  <2>1. OthersStay(r) /\ pc[r] \notin SpentPcs
    BY <1>1 DEF OthersStay, SpentPcs
  <2> QED
    BY <1>1, <2>1, SpentGrows DEF Accounts, Control, StoreTypes
<1> QED
  BY <1>4, <1>5, <1>6, <1>7, <1>8 DEF Accounts

\* A sign-in opens its session.
LEMMA CreateAccounts ==
    ASSUME Control, Accounts, NEW r \in Requests, create_session(r) PROVE Accounts'
<1>1. /\ UNCHANGED <<codeUsed, password, lastStep, claims, settled, ended, raced>>
      /\ pc[r] = "create" /\ kind[r] = "login"
      /\ \A q \in Requests :
            /\ pc'[q] = IF q = r THEN "done" ELSE pc[q]
            /\ kind'[q] = IF q = r THEN "none" ELSE kind[q]
            /\ local'[q] = IF q = r THEN NoLocal ELSE local[q]
            /\ session'[q] = IF q = r THEN "active" ELSE session[q]
            /\ opened'[q] = IF q = r THEN [pw |-> local[r].pw, step |-> local[r].step]
                            ELSE opened[q]
  BY DEF create_session, OpenSession, Finish, Control, StoreTypes, RequestTypes, RequestOK, LoginPcs
<1>2. /\ \A q \in Requests : local[q] \in Locals /\ local[q].before \subseteq Requests
      /\ ended \subseteq Requests
  BY DEF Control, StoreTypes, RequestTypes, Locals
<1>3. Verified(r) /\ codeUsed /\ Recorded(r) /\ session[r] = "none"
  BY <1>1 DEF Verified, Recorded, Accounts, NothingBeforeClaim, NotYetOpen
<1>4. NothingBeforeClaim' /\ ClaimedIsOne' /\ NotYetOpen'
  BY <1>1, <1>3 DEF Accounts, NothingBeforeClaim, ClaimedIsOne, NotYetOpen
<1>5. Final'
  BY <1>1, <1>2, <1>3, NothingHeld DEF Accounts, Final
<1>6. StepsApart'
  <2>1. \A q \in Requests : Recorded(q)' <=> q # r /\ Recorded(q)
    BY <1>1 DEF Recorded
  <2>2. opened'[r].step = local[r].step
    BY <1>1
  <2>3. \A q \in Requests : /\ opened'[q].step <= lastStep
                            /\ Recorded(q)' => local'[q].step <= lastStep
                            /\ pc'[q] = "step" => local'[q].step # -1
    BY <1>1, <1>3, <2>1, <2>2 DEF Accounts, StepsApart
  <2>4. ASSUME NEW q \in Requests, NEW s \in Requests, q # s
        PROVE  /\ Recorded(q)' /\ Recorded(s)' /\ local'[q].step # -1
                     => local'[q].step # local'[s].step
               /\ Recorded(q)' /\ local'[q].step # -1 => local'[q].step # opened'[s].step
               /\ opened'[q].step # -1 => opened'[q].step # opened'[s].step
    BY <1>1, <1>3, <2>1, <2>2, <2>4 DEF Accounts, StepsApart
  <2> QED
    BY <1>1, <2>3, <2>4 DEF StepsApart
<1>7. PasswordsCovered'
  <2>1. \A q \in Requests : Verified(q)' <=> q # r /\ Verified(q)
    BY <1>1 DEF Verified
  <2>2. opened'[r].pw = local[r].pw
    BY <1>1
  <2>4. Covered(settled)'
    BY <1>1, <1>3, <2>1, <2>2 DEF Accounts, PasswordsCovered, Covered
  <2>5. ASSUME NEW q \in Requests, pc'[q] = "answer" PROVE Covered(local[q].pw)'
    <3>1. local'[q] = local[q] /\ Covered(local[q].pw)
      BY <1>1, <2>5 DEF Accounts, PasswordsCovered
    <3> QED
      BY <1>1, <1>3, <2>1, <2>2, <3>1 DEF Covered
  <2> QED
    BY <1>1, <2>4, <2>5, NothingHeld DEF Accounts, PasswordsCovered, Control, StoreTypes
<1>8. password' <= Cardinality(Spent')
  <2>1. OthersStay(r) /\ pc'[r] \in SpentPcs
    BY <1>1 DEF OthersStay, SpentPcs
  <2> QED
    BY <1>1, <2>1, SpentGrows DEF Accounts, Control, StoreTypes
<1> QED
  BY <1>4, <1>5, <1>6, <1>7, <1>8 DEF Accounts

\* The claim writes the first credential and opens the first session.
LEMMA ClaimAccounts ==
    ASSUME Control, Accounts, NEW r \in Requests, consume_bootstrap_code(r), ~codeUsed, password = 0
    PROVE  Accounts'
<1>1. /\ UNCHANGED <<kind, local, settled, ended, raced>>
      /\ pc[r] = "consume" /\ kind[r] = "claim"
      /\ codeUsed' /\ password' = 1 /\ claims' = claims + 1 /\ lastStep' = local[r].step
      /\ \A q \in Requests :
            /\ pc'[q] = IF q = r THEN "refund" ELSE pc[q]
            /\ session'[q] = IF q = r THEN "active" ELSE session[q]
            /\ opened'[q] = IF q = r THEN [pw |-> 1, step |-> local[r].step] ELSE opened[q]
  BY DEF consume_bootstrap_code, Claim, OpenSession, Go, Control, StoreTypes, RequestTypes, RequestOK
<1>2. /\ \A q \in Requests : local[q] \in Locals /\ local[q].before \subseteq Requests
      /\ ended \subseteq Requests
  BY DEF Control, StoreTypes, RequestTypes, Locals
<1>3. /\ claims = 0 /\ settled = 0 /\ lastStep = -1
      /\ \A q \in Requests :
            /\ session[q] = "none" /\ opened[q].step = -1
            /\ ~Verified(q) /\ kind[q] \in {"none", "login", "claim"}
  BY DEF Accounts, NothingBeforeClaim
<1>4. \A q \in Requests : ~Verified(q)' /\ ~Recorded(q)' /\ pc'[q] # "answer" /\ pc'[q] # "step"
  BY <1>1, <1>3 DEF Verified, Recorded, Control, RequestOK, AdminPcs, Administering, LoginPcs
<1>5. NothingBeforeClaim' /\ ClaimedIsOne' /\ NotYetOpen'
  BY <1>1, <1>3 DEF Accounts, NothingBeforeClaim, ClaimedIsOne, NotYetOpen
<1>6. Final'
  BY <1>1, <1>2, <1>3, <1>4 DEF Accounts, Final
<1>7. StepsApart'
  <2>1. opened'[r].step = local[r].step /\ local[r].step \in StepNumbers
    BY <1>1, <1>2 DEF Locals
  <2> QED
    BY <1>1, <1>3, <1>4, <2>1 DEF StepsApart, StepNumbers
<1>8. PasswordsCovered'
  <2>1. \A q \in Requests : opened'[q].pw \in Nat /\ local[q].pw \in Nat
    BY <1>1, <1>2 DEF Locals, Control, RequestTypes
  <2>2. Covered(settled)'
    BY <1>1, <1>3, <1>4, <2>1 DEF Covered
  <2>3. \A q \in Requests : local[q].pw <= 1
    BY <2>1 DEF Accounts, PasswordsCovered
  <2> QED
    BY <1>1, <1>3, <1>4, <2>2, <2>3 DEF PasswordsCovered
<1>9. password' <= Cardinality(Spent')
  <2>1. OthersStay(r) /\ pc[r] \notin SpentPcs /\ pc'[r] \in SpentPcs
    BY <1>1 DEF OthersStay, SpentPcs
  <2> QED
    BY <1>1, <2>1, SpentGrows DEF Accounts
<1> QED
  BY <1>5, <1>6, <1>7, <1>8, <1>9 DEF Accounts

\* An account is written: a new password is newer than all before it.
LEMMA SaveAccounts ==
    ASSUME Control, Accounts, NEW r \in Requests, Save(r) PROVE Accounts'
<1> DEFINE to == IF kind[r] = "enable" THEN "answer" ELSE "revoke"
<1>1. /\ UNCHANGED <<codeUsed, lastStep, session, opened, claims, settled, ended, raced, kind>>
      /\ pc[r] = "save" /\ \A q \in Requests : pc'[q] = IF q = r THEN to ELSE pc[q]
  <2>1. /\ UNCHANGED <<codeUsed, lastStep, session, opened, claims, settled, ended, raced, kind>>
        /\ pc[r] = "save" /\ pc' = [pc EXCEPT ![r] = to]
    BY Zenon DEF Save, historyVars
  <2> QED
    BY <2>1 DEF Control, RequestTypes
<1>2. kind[r] \in Administering /\ local[r].pw = 0 /\ local[r] \in Locals /\ password \in Nat
      /\ \A q \in Requests : opened[q].pw \in Nat /\ local[q].pw \in Nat
  BY <1>1 DEF Control, RequestOK, AdminPcs, RequestTypes, StoreTypes, Verified, Locals,
              Administering
<1>3. codeUsed
  BY <1>2 DEF Accounts, NothingBeforeClaim, Administering
<1>4. \/ kind[r] = "password" /\ password' = password + 1
         /\ local' = [local EXCEPT ![r].pw = password + 1]
      \/ password' = password /\ local' = local
  BY Zenon DEF Save
<1>5. \A q \in Requests :
         /\ q # r => local'[q] = local[q]
         /\ local'[q].before = local[q].before /\ local'[q].step = local[q].step
  BY <1>2, <1>4 DEF Control, RequestTypes, Locals
<1>6. /\ password' >= password /\ password' \in Nat /\ local'[r].pw <= password'
      /\ pc'[r] = "answer" => local'[r].pw = 0
  BY <1>1, <1>2, <1>4 DEF Control, RequestTypes, Locals
<1>7. \A q \in Requests : (Verified(q)' <=> Verified(q)) /\ (Recorded(q)' <=> Recorded(q))
                          /\ (Verified(q) => q # r)
  BY <1>1, <1>2 DEF Verified, Recorded, Administering
<1>8. NothingBeforeClaim' /\ ClaimedIsOne' /\ NotYetOpen'
  BY <1>1, <1>2, <1>3, <1>6
     DEF Accounts, NothingBeforeClaim, ClaimedIsOne, NotYetOpen, Administering
<1>9. Final'
  BY <1>1, <1>5 DEF Accounts, Final
<1>10. StepsApart'
  BY <1>1, <1>5, <1>7 DEF Accounts, StepsApart
<1>11. PasswordsCovered'
  <2>1. settled' <= password' /\ \A q \in Requests : local'[q].pw <= password'
    BY <1>1, <1>2, <1>5, <1>6 DEF Accounts, PasswordsCovered, Control, StoreTypes
  <2>2. Covered(settled)'
    BY <1>1, <1>5, <1>7 DEF Accounts, PasswordsCovered, Covered
  <2>3. ASSUME NEW q \in Requests, pc'[q] = "answer" PROVE Covered(local[q].pw)'
    <3>1. CASE q = r
      <4>1. local'[q].pw = 0
        BY <1>6, <2>3, <3>1
      <4> QED
        BY <4>1, <1>1, <1>2, <1>5, <1>7 DEF Covered
    <3>2. CASE q # r
      <4>1. local'[q] = local[q] /\ Covered(local[q].pw)
        BY <1>1, <1>5, <2>3, <3>2 DEF Accounts, PasswordsCovered
      <4> QED
        BY <4>1, <1>1, <1>5, <1>7 DEF Covered
    <3> QED
      BY <3>1, <3>2
  <2> QED
    BY <2>1, <2>2, <2>3 DEF PasswordsCovered
<1>12. password' <= Cardinality(Spent')
  <2>1. OthersStay(r) /\ pc[r] \notin SpentPcs /\ pc'[r] \in SpentPcs
    BY <1>1, <1>5 DEF OthersStay, SpentPcs
  <2>2. password' <= password + 1
    BY <1>2, <1>4
  <2> QED
    BY <1>2, <1>6, <2>1, <2>2, SpentGrows DEF Accounts
<1> QED
  BY <1>8, <1>9, <1>10, <1>11, <1>12 DEF Accounts

\* Every session is revoked, and every sign-in that is verified is noted.
LEMMA RevokeAccounts ==
    ASSUME Control, Accounts, NEW r \in Requests, revoke_sessions_for_principal(r) PROVE Accounts'
<1>1. /\ UNCHANGED <<codeUsed, password, lastStep, opened, claims, settled, ended, kind, local>>
      /\ pc[r] = "revoke" /\ raced' = raced \cup {q \in Requests : Verified(q)}
      /\ \A q \in Requests :
            /\ pc'[q] = IF q = r THEN "answer" ELSE pc[q]
            /\ session'[q] = IF session[q] = "none" THEN "none" ELSE "revoked"
  BY DEF revoke_sessions_for_principal, Go, Control, RequestTypes
<1>2. /\ \A q \in Requests : local[q].before \subseteq Requests
      /\ ended \subseteq Requests
  BY DEF Control, StoreTypes, RequestTypes, Locals
<1>3. \A q \in Requests : (Verified(q)' <=> Verified(q)) /\ (Recorded(q)' <=> Recorded(q))
  BY <1>1 DEF Verified, Recorded
<1>4. NothingBeforeClaim' /\ ClaimedIsOne' /\ NotYetOpen'
  BY <1>1, <1>3 DEF Accounts, NothingBeforeClaim, ClaimedIsOne, NotYetOpen
<1>5. Final'
  BY <1>1, <1>2 DEF Accounts, Final
<1>6. StepsApart'
  BY <1>1, <1>3 DEF Accounts, StepsApart
<1>7. PasswordsCovered'
  BY <1>1, <1>3 DEF Accounts, PasswordsCovered, Covered
<1>8. password' <= Cardinality(Spent')
  <2>1. OthersStay(r) /\ pc'[r] \in SpentPcs
    BY <1>1 DEF OthersStay, SpentPcs
  <2> QED
    BY <1>1, <2>1, SpentGrows DEF Accounts, Control, StoreTypes
<1> QED
  BY <1>4, <1>5, <1>6, <1>7, <1>8 DEF Accounts

\* A handler answers, or a session is revoked by its id.
LEMMA EndAccounts ==
    ASSUME Control, Accounts, NEW r \in Requests, Answer(r) \/ RevokeOne(r) PROVE Accounts'
<1>0. Finish(r) /\ UNCHANGED <<codeUsed, password, lastStep, opened, claims, raced>>
  BY DEF Answer, RevokeOne, storeVars
<1>1. \A q \in Requests :
         /\ pc'[q] = IF q = r THEN "done" ELSE pc[q]
         /\ kind'[q] = IF q = r THEN "none" ELSE kind[q]
         /\ local'[q] = IF q = r THEN NoLocal ELSE local[q]
  BY <1>0 DEF Finish, Control, RequestTypes
<1>2. /\ \A q \in Requests : local[q] \in Locals /\ local[q].before \subseteq Requests
      /\ ended \subseteq Requests /\ settled \in Nat /\ password \in Nat
      /\ session \in [Requests -> SessionStates]
  BY DEF Control, StoreTypes, RequestTypes, Locals
<1>3. /\ \A s \in Requests : \/ session'[s] = session[s]
                             \/ session[s] # "none" /\ session'[s] = "revoked"
      /\ \A s \in ended' : session'[s] = "revoked"
  <2>1. CASE Answer(r)
    <3>1. session' = session /\ pc[r] = "answer"
          /\ ended' = IF kind[r] = "enable" THEN ended ELSE ended \cup local[r].before
      BY <2>1 DEF Answer, storeVars
    <3> QED
      BY <3>1 DEF Accounts, Final
  <2>2. CASE RevokeOne(r)
    <3>1. PICK s \in local[r].before :
             session' = [session EXCEPT ![s] = "revoked"] /\ ended' = ended \cup {s}
      BY <2>2 DEF RevokeOne
    <3>2. s \in Requests /\ session[s] # "none"
      BY <1>2 DEF Accounts, Final
    <3> QED
      BY <1>2, <3>1, <3>2 DEF Accounts, Final
  <2> QED
    BY <2>1, <2>2
<1>4. /\ settled' <= password /\ Covered(settled')
  <2>1. CASE Answer(r)
    <3>1. settled' = settled \/ settled' = local[r].pw
      BY <2>1 DEF Answer
    <3> QED
      BY <2>1, <3>1 DEF Answer, Accounts, PasswordsCovered
  <2>2. CASE RevokeOne(r)
    BY <2>2 DEF RevokeOne, Accounts, PasswordsCovered
  <2> QED
    BY <2>1, <2>2
<1>5. \A q \in Requests : (Verified(q)' => Verified(q) /\ q # r) /\ (Recorded(q)' => Recorded(q) /\ q # r)
  BY <1>1 DEF Verified, Recorded
<1>6. NothingBeforeClaim' /\ ClaimedIsOne' /\ NotYetOpen'
  <2>1. settled' = settled \/ codeUsed
    <3>1. pc[r] \in {"answer", "logout"}
      BY DEF Answer, RevokeOne
    <3> QED
      BY <3>1 DEF Accounts, NothingBeforeClaim, Control, RequestOK, AdminPcs, Administering
  <2> QED
    BY <1>0, <1>1, <1>3, <1>5, <2>1 DEF Accounts, NothingBeforeClaim, ClaimedIsOne, NotYetOpen
<1>7. Final'
  BY <1>1, <1>2, <1>3, NothingHeld DEF Accounts, Final
<1>8. StepsApart'
  BY <1>0, <1>1, <1>5 DEF Accounts, StepsApart
<1>9. PasswordsCovered'
  <2>1. \A q \in Requests : local'[q].pw <= password
    BY <1>1, <1>2, NothingHeld DEF Accounts, PasswordsCovered
  <2>2. Covered(settled)'
    BY <1>0, <1>1, <1>3, <1>4, <1>5 DEF Covered
  <2>3. ASSUME NEW q \in Requests, pc'[q] = "answer" PROVE Covered(local[q].pw)'
    <3>1. local'[q] = local[q] /\ Covered(local[q].pw)
      BY <1>1, <2>3 DEF Accounts, PasswordsCovered
    <3> QED
      BY <1>0, <1>1, <1>3, <1>5, <3>1 DEF Covered
  <2> QED
    BY <1>0, <1>4, <2>1, <2>2, <2>3 DEF PasswordsCovered
<1>10. password' <= Cardinality(Spent')
  <2>1. OthersStay(r) /\ pc'[r] \in SpentPcs
    BY <1>1 DEF OthersStay, SpentPcs
  <2> QED
    BY <1>0, <1>2, <2>1, SpentGrows DEF Accounts
<1> QED
  BY <1>6, <1>7, <1>8, <1>9, <1>10 DEF Accounts

\* Every step preserves what is known of the accounts.
LEMMA AccountsStep == Control /\ Accounts /\ [Next]_vars => Accounts'
<1> SUFFICES ASSUME Control, Accounts, [Next]_vars PROVE Accounts'
  OBVIOUS
<1>1. ASSUME UNCHANGED <<accountVars, kind, pc, local>> PROVE Accounts'
  BY <1>1 DEF accountVars, Accounts, NothingBeforeClaim, ClaimedIsOne, Spent, NotYetOpen, Final,
              StepsApart, PasswordsCovered, Covered, Recorded, Verified
<1>2. CASE UNCHANGED vars
  BY <1>1, <1>2 DEF vars, storeVars, historyVars, accountVars
<1>3. CASE Tick
  BY <1>1, <1>3 DEF Tick, storeVars, historyVars, accountVars
<1>4. ASSUME NEW r \in Requests, Step(r) PROVE Accounts'
  <2>0. Control'
    BY ControlStep
  <2>1. ASSUME UNCHANGED accountVars, OthersStay(r), Advances(r) PROVE Accounts'
    BY <2>0, <2>1, QuietAccounts
  <2>2. CASE QuietStep(r)
    BY <2>1, <2>2, QuietStepsAdvance
  <2>3. CASE record_totp_step(r)
    <3>1. ASSUME ~(lastStep < local[r].step) PROVE Accounts'
      BY <2>1, <2>3, <3>1, FinishAdvances DEF record_totp_step, accountVars, historyVars
    <3> QED
      BY <2>3, <3>1, RecordAccounts
  <2>4. CASE consume_bootstrap_code(r)
    <3>1. ASSUME ~(~codeUsed /\ password = 0) PROVE Accounts'
      BY <2>1, <2>4, <3>1, FinishAdvances DEF consume_bootstrap_code, accountVars
    <3> QED
      BY <2>4, <3>1, ClaimAccounts
  <2> QED
    BY <1>4, <2>2, <2>3, <2>4, CreateAccounts, SaveAccounts, RevokeAccounts, EndAccounts,
       ExpireAccounts DEF Step, QuietStep
<1> QED
  BY <1>2, <1>3, <1>4 DEF Next

-----------------------------------------------------------------------------
(* The queues of the limiter.                                              *)

\* Pruning drops a prefix, and every slot it drops has left the window.
LEMMA PruneDrops ==
    ASSUME NEW q \in Seq(Slot), NEW t \in Nat
    PROVE  /\ prune_front(q, t) \in Seq(Slot)
           /\ \E k \in 0 .. Len(q) :
                 /\ Len(prune_front(q, t)) = Len(q) - k
                 /\ \A i \in 1 .. Len(q) - k : prune_front(q, t)[i] = q[i + k]
                 /\ \A i \in 1 .. k : ~(t - q[i].at < Window)
<1> DEFINE live == {i \in DOMAIN q : t - q[i].at < Window}
<1>1. CASE live = {}
  <2>1. prune_front(q, t) = <<>>
    BY <1>1 DEF prune_front
  <2>2. \A i \in 1 .. Len(q) : ~(t - q[i].at < Window)
    BY <1>1
  <2>3. Len(prune_front(q, t)) = Len(q) - Len(q)
    BY <2>1
  <2> QED
    BY <2>1, <2>2, <2>3
<1>2. CASE live # {}
  <2> DEFINE m == Min(live)
  <2>1. live \subseteq Nat /\ live \subseteq 1 .. Len(q)
    OBVIOUS
  <2>2. m \in live /\ \A y \in live : m <= y
    BY <1>2, <2>1, MinProperties
  <2>3. prune_front(q, t) = SubSeq(q, m, Len(q))
    BY <1>2 DEF prune_front
  <2>4. m \in 1 .. Len(q) /\ \A i \in 1 .. m - 1 : i \in DOMAIN q /\ i \notin live
    <3> HIDE DEF live, m
    <3>1. m \in 1 .. Len(q)
      BY <2>1, <2>2
    <3> QED
      BY <2>2, <3>1
  <2>5. \A i \in 1 .. m - 1 : ~(t - q[i].at < Window)
    BY <2>4
  <2> HIDE DEF m, live
  <2>6. /\ SubSeq(q, m, Len(q)) \in Seq(Slot) /\ Len(SubSeq(q, m, Len(q))) = Len(q) - (m - 1)
        /\ \A i \in 1 .. Len(q) - (m - 1) : SubSeq(q, m, Len(q))[i] = q[i + (m - 1)]
    BY <2>4
  <2>7. m - 1 \in 0 .. Len(q)
    BY <2>4
  <2> QED
    BY <2>3, <2>5, <2>6, <2>7
<1> QED
  BY <1>1, <1>2

\* A refund takes one slot with the token out, and keeps the others in order.
LEMMA RefundTakes ==
    ASSUME NEW q \in Seq(Slot), NEW token
    PROVE  /\ WithoutToken(q, token) \in Seq(Slot)
           /\ \/ WithoutToken(q, token) = q /\ \A i \in 1 .. Len(q) : q[i].token # token
              \/ \E k \in 1 .. Len(q) :
                   /\ q[k].token = token
                   /\ Len(WithoutToken(q, token)) = Len(q) - 1
                   /\ \A i \in 1 .. Len(q) - 1 :
                         WithoutToken(q, token)[i] = q[IF i < k THEN i ELSE i + 1]
<1> DEFINE at == {i \in DOMAIN q : q[i].token = token}
<1>1. CASE at = {}
  <2>1. WithoutToken(q, token) = q
    BY <1>1 DEF WithoutToken
  <2> QED
    BY <1>1, <2>1
<1>2. CASE at # {}
  <2> DEFINE m == Min(at)
  <2>1. at \subseteq Nat /\ at \subseteq 1 .. Len(q)
    OBVIOUS
  <2>2. m \in at
    BY <1>2, <2>1, MinProperties
  <2>3. WithoutToken(q, token) = SubSeq(q, 1, m - 1) \o SubSeq(q, m + 1, Len(q))
    BY <1>2 DEF WithoutToken
  <2>4. m \in 1 .. Len(q) /\ q[m].token = token
    BY <2>2
  <2> HIDE DEF m, at
  <2>5. /\ SubSeq(q, 1, m - 1) \in Seq(Slot) /\ Len(SubSeq(q, 1, m - 1)) = m - 1
        /\ \A i \in 1 .. m - 1 : SubSeq(q, 1, m - 1)[i] = q[i]
    BY <2>4
  <2>6. /\ SubSeq(q, m + 1, Len(q)) \in Seq(Slot) /\ Len(SubSeq(q, m + 1, Len(q))) = Len(q) - m
        /\ \A i \in 1 .. Len(q) - m : SubSeq(q, m + 1, Len(q))[i] = q[i + m]
    BY <2>4
  <2> DEFINE a == SubSeq(q, 1, m - 1)
             b == SubSeq(q, m + 1, Len(q))
  <2>7. /\ a \in Seq(Slot) /\ b \in Seq(Slot) /\ Len(a) = m - 1 /\ Len(b) = Len(q) - m
        /\ \A i \in 1 .. m - 1 : a[i] = q[i]
        /\ \A i \in 1 .. Len(q) - m : b[i] = q[i + m]
    BY <2>5, <2>6
  <2>8. WithoutToken(q, token) = a \o b
    BY <2>3
  <2> HIDE DEF a, b
  <2>9. /\ a \o b \in Seq(Slot) /\ Len(a \o b) = Len(q) - 1
        /\ \A i \in 1 .. Len(q) - 1 : (a \o b)[i] = IF i <= m - 1 THEN a[i] ELSE b[i - (m - 1)]
    <3>1. /\ a \o b \in Seq(Slot) /\ Len(a \o b) = Len(a) + Len(b)
          /\ \A i \in 1 .. Len(a) + Len(b) :
                (a \o b)[i] = IF i <= Len(a) THEN a[i] ELSE b[i - Len(a)]
      BY <2>7, ConcatProperties
    <3>2. Len(a) + Len(b) = Len(q) - 1
      BY <2>4, <2>7
    <3> QED
      BY <2>7, <3>1, <3>2
  <2>10. ASSUME NEW i \in 1 .. Len(q) - 1
         PROVE  (a \o b)[i] = q[IF i < m THEN i ELSE i + 1]
    <3>1. CASE i < m
      BY <2>4, <2>7, <2>9, <3>1
    <3>2. CASE ~(i < m)
      <4>1. i - (m - 1) \in 1 .. Len(q) - m /\ (i - (m - 1)) + m = i + 1
        BY <2>4, <3>2
      <4>2. b[i - (m - 1)] = q[i + 1]
        BY <2>7, <4>1
      <4> QED
        BY <2>4, <2>9, <3>2, <4>2
    <3> QED
      BY <3>1, <3>2
  <2> QED
    BY <2>4, <2>8, <2>9, <2>10
<1> QED
  BY <1>1, <1>2

\* p is what is left of q when slots were taken out: no slot is there twice
\* that was there once, and no address has more than it had.
LeftOf(p, q) ==
    /\ p \in Seq(Slot) /\ Len(p) <= Len(q) /\ Slots(p) \subseteq Slots(q)
    /\ Distinct(q) => Distinct(p)
    /\ \A a \in Addresses : Cardinality(From(p, a)) <= Cardinality(From(q, a))

LEMMA LeftOfShift ==
    ASSUME NEW q \in Seq(Slot), NEW p \in Seq(Slot), NEW f \in [1 .. Len(p) -> 1 .. Len(q)],
           Len(p) <= Len(q), \A i, j \in 1 .. Len(p) : f[i] = f[j] => i = j,
           \A i \in 1 .. Len(p) : p[i] = q[f[i]]
    PROVE  LeftOf(p, q)
<1>1. Slots(p) \subseteq Slots(q)
  BY DEF Slots
<1>2. Distinct(q) => Distinct(p)
  BY DEF Distinct
<1>3. ASSUME NEW a \in Addresses PROVE Cardinality(From(p, a)) <= Cardinality(From(q, a))
  <2> DEFINE g == [i \in From(p, a) |-> f[i]]
  <2>1. From(p, a) \subseteq 1 .. Len(p) /\ From(q, a) \subseteq 1 .. Len(q)
    BY DEF From
  <2>2. \A i \in From(p, a) : g[i] \in From(q, a)
    BY <2>1 DEF From
  <2>3. g \in Injection(From(p, a), From(q, a))
    <3>1. g \in [From(p, a) -> From(q, a)]
      BY <2>2
    <3>2. \A i, j \in From(p, a) : g[i] = g[j] => i = j
      BY <2>1
    <3> QED
      BY <3>1, <3>2 DEF Injection, IsInjective
  <2>4. IsFiniteSet(From(q, a))
    BY <2>1, FS_Interval, FS_Subset
  <2> HIDE DEF g
  <2> QED
    BY <2>3, <2>4, FS_Injection
<1> QED
  BY <1>1, <1>2, <1>3 DEF LeftOf

\* What a pruned queue holds.
LEMMA PruneProperties ==
    ASSUME NEW q \in Seq(Slot), NEW t \in Nat
    PROVE  /\ LeftOf(prune_front(q, t), q)
           /\ \A e \in Slots(q) : t - e.at < Window => e \in Slots(prune_front(q, t))
<1> DEFINE p == prune_front(q, t)
<1>1. PICK k \in 0 .. Len(q) :
         /\ p \in Seq(Slot) /\ Len(p) = Len(q) - k
         /\ \A i \in 1 .. Len(q) - k : p[i] = q[i + k]
         /\ \A i \in 1 .. k : ~(t - q[i].at < Window)
  BY PruneDrops
<1> DEFINE f == [i \in 1 .. Len(p) |-> i + k]
<1> HIDE DEF p
<1>2. f \in [1 .. Len(p) -> 1 .. Len(q)] /\ \A i, j \in 1 .. Len(p) : f[i] = f[j] => i = j
  BY <1>1
<1>3. \A i \in 1 .. Len(p) : p[i] = q[f[i]]
  BY <1>1
<1> HIDE DEF f
<1>4. LeftOf(p, q)
  <2>1. Len(p) <= Len(q)
    BY <1>1
  <2> QED
    BY <1>1, <1>2, <1>3, <2>1, LeftOfShift
<1>5. ASSUME NEW e \in Slots(q), t - e.at < Window PROVE e \in Slots(p)
  <2>1. PICK i \in 1 .. Len(q) : e = q[i]
    BY DEF Slots
  <2>2. i \notin 1 .. k
    BY <1>1, <1>5, <2>1
  <2>3. i - k \in 1 .. Len(p) /\ p[i - k] = q[i]
    BY <1>1, <2>2
  <2> QED
    BY <1>1, <2>1, <2>3 DEF Slots
<1> QED
  BY <1>4, <1>5 DEF p

\* What a queue holds after a refund.
LEMMA RefundProperties ==
    ASSUME NEW q \in Seq(Slot), NEW token
    PROVE  /\ LeftOf(WithoutToken(q, token), q)
           /\ \A e \in Slots(q) : e.token # token => e \in Slots(WithoutToken(q, token))
           /\ Distinct(q) => \A e \in Slots(WithoutToken(q, token)) : e.token # token
<1> DEFINE p == WithoutToken(q, token)
<1>1. p \in Seq(Slot)
  BY RefundTakes
<1>2. CASE p = q /\ \A i \in 1 .. Len(q) : q[i].token # token
  <2> DEFINE f == [i \in 1 .. Len(p) |-> i]
  <2> HIDE DEF p
  <2>1. f \in [1 .. Len(p) -> 1 .. Len(q)] /\ \A i, j \in 1 .. Len(p) : f[i] = f[j] => i = j
    BY <1>2
  <2>2. \A i \in 1 .. Len(p) : p[i] = q[f[i]]
    BY <1>2
  <2> HIDE DEF f
  <2>3. LeftOf(p, q)
    BY <1>1, <1>2, <2>1, <2>2, LeftOfShift
  <2>4. \A e \in Slots(p) : e.token # token
    BY <1>2 DEF Slots
  <2> QED
    BY <1>2, <2>3, <2>4 DEF p
<1>3. ASSUME NEW k \in 1 .. Len(q), q[k].token = token, Len(p) = Len(q) - 1,
             \A i \in 1 .. Len(q) - 1 : p[i] = q[IF i < k THEN i ELSE i + 1]
      PROVE  /\ LeftOf(p, q)
             /\ \A e \in Slots(q) : e.token # token => e \in Slots(p)
             /\ Distinct(q) => \A e \in Slots(p) : e.token # token
  <2> DEFINE f == [i \in 1 .. Len(p) |-> IF i < k THEN i ELSE i + 1]
  <2> HIDE DEF p
  <2>1. \A i \in 1 .. Len(p) : f[i] \in 1 .. Len(q) /\ f[i] # k /\ p[i] = q[f[i]]
    BY <1>3
  <2>2. \A i, j \in 1 .. Len(p) : f[i] = f[j] => i = j
    BY <1>3
  <2>3. f \in [1 .. Len(p) -> 1 .. Len(q)]
    BY <2>1
  <2>4. LeftOf(p, q)
    <3>1. Len(p) <= Len(q)
      BY <1>3
    <3> HIDE DEF f
    <3> QED
      BY <1>1, <2>1, <2>2, <2>3, <3>1, LeftOfShift
  <2>5. ASSUME NEW e \in Slots(q), e.token # token PROVE e \in Slots(p)
    <3>1. PICK i \in 1 .. Len(q) : e = q[i]
      BY DEF Slots
    <3>2. i # k
      BY <1>3, <2>5, <3>1
    <3>3. CASE i < k
      BY <1>1, <1>3, <3>1, <3>3 DEF Slots
    <3>4. CASE i > k
      <4>1. i - 1 \in 1 .. Len(p) /\ p[i - 1] = q[i]
        BY <1>3, <3>4
      <4> QED
        BY <1>1, <3>1, <4>1 DEF Slots
    <3> QED
      BY <3>2, <3>3, <3>4
  <2>6. Distinct(q) => \A e \in Slots(p) : e.token # token
    BY <1>1, <1>3, <2>1 DEF Slots, Distinct
  <2> QED
    BY <2>4, <2>5, <2>6
<1> QED
  BY <1>2, <1>3, RefundTakes

\* What a queue holds after a slot is appended.
LEMMA AppendSlot ==
    ASSUME NEW q \in Seq(Slot), NEW e \in Slot
    PROVE  /\ Append(q, e) \in Seq(Slot) /\ Len(Append(q, e)) = Len(q) + 1
           /\ Slots(Append(q, e)) = Slots(q) \cup {e}
           /\ Distinct(q) /\ e.token \notin Tokens(q) => Distinct(Append(q, e))
           /\ \A a \in Addresses : Cardinality(From(Append(q, e), a)) =
                                   Cardinality(From(q, a)) + (IF e.ip = a THEN 1 ELSE 0)
<1> DEFINE p == Append(q, e)
<1>1. /\ p \in Seq(Slot) /\ Len(p) = Len(q) + 1 /\ p[Len(q) + 1] = e
      /\ \A i \in 1 .. Len(q) : p[i] = q[i]
  OBVIOUS
<1> HIDE DEF p
<1>2. Slots(p) = Slots(q) \cup {e}
  BY <1>1 DEF Slots
<1>3. Distinct(q) /\ e.token \notin Tokens(q) => Distinct(p)
  BY <1>1 DEF Distinct, Tokens
<1>4. ASSUME NEW a \in Addresses
      PROVE  Cardinality(From(p, a)) = Cardinality(From(q, a)) + (IF e.ip = a THEN 1 ELSE 0)
  <2>1. From(q, a) \subseteq 1 .. Len(q) /\ Len(q) + 1 \notin From(q, a)
    BY DEF From
  <2>2. IsFiniteSet(From(q, a)) /\ Cardinality(From(q, a)) \in Nat
    <3>1. IsFiniteSet(1 .. Len(q))
      BY FS_Interval
    <3> QED
      BY <2>1, <3>1, FS_Subset, FS_CardinalityType
  <2>3. CASE e.ip = a
    <3>1. From(p, a) = From(q, a) \cup {Len(q) + 1}
      BY <1>1, <2>3 DEF From
    <3>2. Cardinality(From(p, a)) = Cardinality(From(q, a)) + 1
      BY <2>1, <2>2, <3>1, FS_AddElement
    <3> QED
      BY <2>3, <3>2
  <2>4. CASE e.ip # a
    <3>1. From(p, a) = From(q, a)
      BY <1>1, <2>4 DEF From
    <3> QED
      BY <2>2, <2>4, <3>1
  <2> QED
    BY <2>3, <2>4
<1> QED
  BY <1>1, <1>2, <1>3, <1>4 DEF p

-----------------------------------------------------------------------------
(* The budgets.                                                            *)

LEMMA TokensOfSlots == \A q : Tokens(q) = {e.token : e \in Slots(q)}
  BY DEF Tokens, Slots

\* A step outside the limiter.
Keeps(r) ==
    /\ pc[r] \notin {"ip", "release", "refundIp", "done"} /\ pc'[r] # "ip"
    /\ pc'[r] \in Uncharged => pc[r] \in Uncharged
    /\ pc'[r] \notin Uncharged \cup {"done"} =>
          /\ kind'[r] = kind[r] /\ local'[r].name = local[r].name
          /\ local'[r].ip = local[r].ip /\ local'[r].at = local[r].at

LEMMA KeptBudget ==
    ASSUME Control, Budget, NEW r \in Requests, UNCHANGED <<byUser, byIp, charged, now>>,
           OthersStay(r), Keeps(r)
    PROVE  Budget'
<1>0. \A e \in Slot : e.token \in Requests
  BY DEF Slot
<1>1. BudgetTypes' /\ WithinLimits'
  BY DEF Budget, BudgetTypes, WithinLimits
<1>2. /\ \A l \in Limiters, n \in Names : \A e \in Slots(byUser[l][n]) : e \in Slot
      /\ \A l \in Limiters, a \in Addresses : \A e \in Slots(byIp[l][a]) : e \in Slot
      /\ \A c \in charged : c.entry \in Slot
  BY DEF Budget, BudgetTypes, Slots
<1>3. \A q \in Requests : q # r =>
         pc'[q] = pc[q] /\ Limiter(q)' = Limiter(q) /\ Mine(q)' = Mine(q)
         /\ local'[q] = local[q]
  BY DEF OthersStay, Limiter, Mine
<1>4. UserSlots'
  BY <1>0, <1>2, <1>3 DEF Budget, UserSlots, Keeps
<1>5. IpSlots'
  BY <1>0, <1>2, <1>3 DEF Budget, IpSlots, Keeps
<1>6. ASSUME NEW c \in charged
      PROVE  /\ pc'[c.entry.token] \notin Uncharged
             /\ pc'[c.entry.token] # "done" =>
                  c.lim = Limiter(c.entry.token)' /\ c.name = local'[c.entry.token].name
                  /\ c.entry = Mine(c.entry.token)'
  <2> DEFINE q == c.entry.token
  <2>1. q \in Requests /\ pc[q] \notin Uncharged
        /\ (pc[q] # "done" => c.lim = Limiter(q) /\ c.name = local[q].name /\ c.entry = Mine(q))
    BY <1>0, <1>2 DEF Budget, ChargesAreOwn
  <2>2. CASE q # r
    BY <1>3, <2>1, <2>2
  <2>3. CASE q = r
    BY <2>1, <2>3 DEF Keeps, Limiter, Mine
  <2> QED
    BY <2>2, <2>3
<1>7. ChargesAreOwn'
  BY <1>6 DEF ChargesAreOwn
<1>8. ChargesCount'
  <2>1. \A q \in Requests : pc'[q] = "ip" => q # r
    BY DEF Keeps
  <2> QED
    BY <1>3, <2>1 DEF Budget, ChargesCount
<1> QED
  BY <1>1, <1>4, <1>5, <1>7, <1>8 DEF Budget

\* The clock moves: a slot can only leave the window.
LEMMA TickBudget ==
    ASSUME Control, Budget, Tick PROVE Budget'
<1>1. UNCHANGED <<byUser, byIp, charged, pc, local, kind>> /\ now' = now + 1 /\ now \in Nat
  BY DEF Tick, limiterVars, historyVars, Control, StoreTypes
<1>2. /\ \A c \in charged : c.entry.at \in Nat
      /\ \A r \in Requests : local[r].at \in Nat
  BY DEF Budget, BudgetTypes, Slot, Control, RequestTypes, Locals
<1>3. BudgetTypes' /\ WithinLimits' /\ UserSlots' /\ IpSlots' /\ ChargesAreOwn'
  BY <1>1 DEF Budget, BudgetTypes, WithinLimits, UserSlots, IpSlots, ChargesAreOwn, Limiter, Mine
<1>4. ChargesCount'
  <2>1. \A t \in Nat : now' - t < Window => now - t < Window
    BY <1>1, LimitsAssumption
  <2> QED
    BY <1>1, <1>2, <2>1 DEF Budget, ChargesCount, Limiter, Mine
<1> QED
  BY <1>3, <1>4 DEF Budget

\* A request's own slot.
LEMMA OwnSlot ==
    ASSUME Control, NEW r \in Requests
    PROVE  /\ Mine(r) \in Slot /\ Mine(r).token = r /\ Mine(r).ip = local[r].ip
           /\ Mine(r).at = local[r].at /\ local[r].at \in Nat /\ local[r].at <= now /\ now \in Nat
           /\ Limiter(r) \in Limiters /\ local[r].name \in Names /\ local[r].ip \in Addresses
<1>1. local[r] \in Locals /\ RequestOK(r) /\ now \in Nat
  BY DEF Control, RequestTypes, StoreTypes
<1> QED
  BY <1>1 DEF Mine, Entry, Slot, Locals, RequestOK, Limiter, Limiters

\* A step of a request on the queue of its name, which becomes p.
LEMMA UserBudget ==
    ASSUME Control, Budget, NEW r \in Requests, OthersStay(r), now' = now, byIp' = byIp,
           NEW p \in Seq(Slot),
           byUser' = [byUser EXCEPT ![Limiter(r)][local[r].name] = p],
           charged' = {c \in charged : c.entry.token # r},
           Distinct(p),
           \A e \in Slots(p) : \/ e.token # r /\ e \in Slots(byUser[Limiter(r)][local[r].name])
                               \/ e = Mine(r) /\ pc'[r] = "ip",
           \A e \in Slots(byUser[Limiter(r)][local[r].name]) :
              e.token # r /\ now - e.at < Window => e \in Slots(p),
           \A a \in Addresses : Cardinality(From(p, a)) <= UserLimit,
           pc'[r] = "ip" => Mine(r) \in Slots(p),
           \/ pc[r] \in {"user", "release"} /\ pc'[r] \in {"ip", "done"}
           \/ pc[r] = "refund" /\ pc'[r] = "refundIp",
           pc'[r] # "done" => kind'[r] = kind[r] /\ local'[r] = local[r]
    PROVE  Budget'
<1> DEFINE L == Limiter(r)
           n == local[r].name
<1>0. \A e \in Slot : e.token \in Requests /\ e.at \in Nat
  BY DEF Slot
<1>1. /\ L \in Limiters /\ n \in Names /\ now \in Nat
      /\ Mine(r).token = r
  BY OwnSlot
<1>2. \A l \in Limiters, m \in Names : byUser'[l][m] = IF l = L /\ m = n THEN p ELSE byUser[l][m]
  BY <1>1 DEF Budget, BudgetTypes
<1>3. /\ \A l \in Limiters, m \in Names : \A e \in Slots(byUser[l][m]) : e \in Slot
      /\ \A l \in Limiters, a \in Addresses : \A e \in Slots(byIp[l][a]) : e \in Slot
      /\ \A e \in Slots(p) : e \in Slot
      /\ \A c \in charged : c.entry \in Slot /\ c.lim \in Limiters /\ c.name \in Names
  BY DEF Budget, BudgetTypes, Slots
<1>4. \A q \in Requests : q # r =>
         pc'[q] = pc[q] /\ Limiter(q)' = Limiter(q) /\ Mine(q)' = Mine(q)
         /\ local'[q] = local[q]
  BY DEF OthersStay, Limiter, Mine
<1>5. pc'[r] # "done" => Limiter(r)' = L /\ Mine(r)' = Mine(r) /\ local'[r] = local[r]
  BY DEF Limiter, Mine
<1>6. BudgetTypes'
  <2>1. byUser' \in [Limiters -> [Names -> Seq(Slot)]]
    BY <1>1 DEF Budget, BudgetTypes
  <2> QED
    BY <2>1 DEF Budget, BudgetTypes
<1>7. WithinLimits'
  BY <1>2 DEF Budget, WithinLimits
<1>8. UserSlots'
  <2>1. ASSUME NEW l \in Limiters, NEW m \in Names
        PROVE  /\ Distinct(byUser'[l][m])
               /\ \A e \in Slots(byUser'[l][m]) :
                     \/ e.token # r /\ e \in Slots(byUser[l][m])
                     \/ e = Mine(r) /\ pc'[r] = "ip" /\ l = L /\ m = n
    <3>1. CASE l = L /\ m = n
      BY <1>2, <3>1
    <3>2. CASE ~(l = L /\ m = n)
      <4>1. byUser'[l][m] = byUser[l][m] /\ Distinct(byUser[l][m])
        BY <1>2, <3>2 DEF Budget, UserSlots
      <4>2. ASSUME NEW e \in Slots(byUser[l][m]) PROVE e.token # r
        <5>1. SUFFICES ASSUME e.token = r PROVE FALSE
          OBVIOUS
        <5>2. CASE Charge(l, m, e) \in charged
          <6>1. Charge(l, m, e).entry.token = r /\ Charge(l, m, e).lim = l
                /\ Charge(l, m, e).name = m
            BY <5>1 DEF Charge
          <6>2. pc[r] \notin Uncharged /\ (pc[r] # "done" => l = L /\ m = n)
            BY <5>2, <6>1 DEF Budget, ChargesAreOwn
          <6> QED
            BY <3>2, <6>2 DEF Uncharged
        <5>3. CASE ~(Charge(l, m, e) \in charged)
          BY <3>2, <5>1, <5>3 DEF Budget, UserSlots
        <5> QED
          BY <5>2, <5>3
      <4> QED
        BY <4>1, <4>2
    <3> QED
      BY <3>1, <3>2
  <2>2. ASSUME NEW l \in Limiters, NEW m \in Names, NEW e \in Slots(byUser[l][m]), e.token # r
        PROVE  \/ Charge(l, m, e) \in charged'
               \/ /\ pc'[e.token] \in {"ip", "release"} /\ e = Mine(e.token)'
                  /\ Limiter(e.token)' = l /\ local'[e.token].name = m
    <3>1. e.token \in Requests
      BY <1>0, <1>3
    <3>2. CASE Charge(l, m, e) \in charged
      <4>1. Charge(l, m, e).entry = e
        BY DEF Charge
      <4> QED
        BY <2>2, <3>2, <4>1
    <3>3. CASE ~(Charge(l, m, e) \in charged)
      BY <1>4, <2>2, <3>1, <3>3 DEF Budget, UserSlots
    <3> QED
      BY <3>2, <3>3
  <2> QED
    BY <1>1, <1>5, <2>1, <2>2 DEF UserSlots
<1>9. IpSlots'
  <2>1. ASSUME NEW l \in Limiters, NEW a \in Addresses, NEW e \in Slots(byIp[l][a])
        PROVE  \/ e.ip = a /\ \E m \in Names : Charge(l, m, e) \in charged'
               \/ /\ pc'[e.token] = "refundIp"
                  /\ Limiter(e.token)' = l /\ local'[e.token].ip = a
    <3>0. e.token \in Requests
      BY <1>0, <1>3
    <3>1. CASE \E m \in Names : e.ip = a /\ Charge(l, m, e) \in charged
      <4>1. PICK m \in Names : e.ip = a /\ Charge(l, m, e) \in charged
        BY <3>1
      <4>2. Charge(l, m, e).entry = e /\ Charge(l, m, e).lim = l
        BY DEF Charge
      <4>3. CASE e.token # r
        BY <4>1, <4>2, <4>3
      <4>4. CASE e.token = r
        <5>1. pc[r] \notin Uncharged /\ (pc[r] # "done" => l = L /\ e = Mine(r))
          BY <4>1, <4>2, <4>4 DEF Budget, ChargesAreOwn
        <5>2. pc'[r] = "refundIp" /\ l = L /\ e = Mine(r)
          BY <5>1 DEF Uncharged
        <5> QED
          BY <1>5, <4>1, <4>4, <5>2, OwnSlot
      <4> QED
        BY <4>3, <4>4
    <3>2. CASE ~(\E m \in Names : e.ip = a /\ Charge(l, m, e) \in charged)
      <4>1. pc[e.token] = "refundIp" /\ Limiter(e.token) = l /\ local[e.token].ip = a
        BY <3>2 DEF Budget, IpSlots
      <4> QED
        BY <1>4, <3>0, <4>1
    <3> QED
      BY <3>1, <3>2
  <2> QED
    BY <2>1 DEF IpSlots, Budget
<1>10. ChargesAreOwn'
  <2>1. ASSUME NEW c \in charged, c.entry.token # r
        PROVE  /\ pc'[c.entry.token] \notin Uncharged
               /\ pc'[c.entry.token] # "done" =>
                  c.lim = Limiter(c.entry.token)' /\ c.name = local'[c.entry.token].name
                  /\ c.entry = Mine(c.entry.token)'
    BY <1>0, <1>3, <1>4, <2>1 DEF Budget, ChargesAreOwn
  <2> QED
    BY <2>1 DEF ChargesAreOwn
<1>11. ChargesCount'
  <2>1. ASSUME NEW c \in charged, c.entry.token # r, now - c.entry.at < Window
        PROVE  /\ c.entry \in Slots(byUser'[c.lim][c.name])
               /\ c.entry \in Slots(byIp[c.lim][c.entry.ip])
    <3>1. c.entry \in Slots(byUser[c.lim][c.name]) /\ c.entry \in Slots(byIp[c.lim][c.entry.ip])
          /\ c.lim \in Limiters /\ c.name \in Names
      BY <1>3, <2>1 DEF Budget, ChargesCount
    <3> QED
      BY <1>2, <2>1, <3>1
  <2>2. ASSUME NEW q \in Requests, pc'[q] = "ip", now - local'[q].at < Window
        PROVE  Mine(q)' \in Slots(byUser'[Limiter(q)'][local'[q].name])
    <3>1. CASE q = r
      BY <1>1, <1>2, <1>5, <2>2, <3>1
    <3>2. CASE q # r
      <4>1. Mine(q) \in Slots(byUser[Limiter(q)][local[q].name]) /\ Mine(q).token = q
            /\ Mine(q).at = local[q].at /\ Limiter(q) \in Limiters /\ local[q].name \in Names
        BY <1>4, <2>2, <3>2, OwnSlot DEF Budget, ChargesCount
      <4> QED
        BY <1>2, <1>4, <2>2, <3>2, <4>1
    <3> QED
      BY <3>1, <3>2
  <2> QED
    BY <2>1, <2>2 DEF ChargesCount
<1> QED
  BY <1>6, <1>7, <1>8, <1>9, <1>10, <1>11 DEF Budget

\* A request that has not been granted its slots, or has given them back,
\* is not charged.
LEMMA NotCharged ==
    ASSUME Budget, NEW r \in Requests, pc[r] \in Uncharged
    PROVE  charged = {c \in charged : c.entry.token # r}
  BY DEF Budget, ChargesAreOwn

LEMMA ReserveUserBudget ==
    ASSUME Control, Budget, NEW r \in Requests, ReserveUser(r) PROVE Budget'
<1> DEFINE L == Limiter(r)
           n == local[r].name
           q == byUser[L][n]
           p == prune_front(q, Mine(r).at)
           s == IF UserHasRoom(p, Mine(r).ip) THEN Append(p, Mine(r)) ELSE p
<1>1. /\ L \in Limiters /\ n \in Names /\ now \in Nat /\ Mine(r) \in Slot /\ Mine(r).token = r
      /\ Mine(r).at \in Nat /\ Mine(r).at <= now /\ Mine(r).ip \in Addresses
  BY OwnSlot
<1>2. q \in Seq(Slot) /\ Distinct(q) /\ \A a \in Addresses : Cardinality(From(q, a)) <= UserLimit
  BY <1>1 DEF Budget, BudgetTypes, UserSlots, WithinLimits
<1>3. /\ pc[r] = "user" /\ now' = now /\ byIp' = byIp /\ charged' = charged
      /\ byUser' = [byUser EXCEPT ![L][n] = s]
      /\ IF r \in Tokens(byUser'[L][n]) THEN Go(r, "ip") ELSE Finish(r)
  BY DEF ReserveUser, reserve_username_key, historyVars
<1>4. byUser'[L][n] = s
  BY <1>1, <1>3 DEF Budget, BudgetTypes
<1>5. charged = {c \in charged : c.entry.token # r}
  BY <1>3, NotCharged DEF Uncharged
<1>6. ASSUME NEW e \in Slots(q) PROVE e.token # r /\ e \in Slot
  <2>1. e \in Slot
    BY <1>2 DEF Slots
  <2>2. e.token # r
    <3>1. SUFFICES ASSUME e.token = r PROVE FALSE
      OBVIOUS
    <3>2. Charge(L, n, e) \in charged
      BY <1>1, <1>3, <1>6, <3>1 DEF Budget, UserSlots
    <3>3. Charge(L, n, e).entry = e
      BY DEF Charge
    <3> QED
      BY <1>5, <3>1, <3>2, <3>3
  <2> QED
    BY <2>1, <2>2
<1>7. /\ LeftOf(p, q) /\ p \in Seq(Slot) /\ Distinct(p) /\ Slots(p) \subseteq Slots(q)
      /\ \A e \in Slots(q) : Mine(r).at - e.at < Window => e \in Slots(p)
      /\ \A a \in Addresses : Cardinality(From(p, a)) <= Cardinality(From(q, a))
  <2>1. LeftOf(p, q) /\ \A e \in Slots(q) : Mine(r).at - e.at < Window => e \in Slots(p)
    BY <1>1, <1>2, PruneProperties
  <2> QED
    BY <1>2, <2>1 DEF LeftOf
<1>8. \A e \in Slots(q) : now - e.at < Window => e \in Slots(p)
  <2>1. \A e \in Slots(q) : e.at \in Nat
    BY <1>6 DEF Slot
  <2> QED
    BY <1>1, <1>7, <2>1, LimitsAssumption
<1>9. r \notin Tokens(p)
  BY <1>6, <1>7, TokensOfSlots
<1>10. \A a \in Addresses : Cardinality(From(p, a)) \in Nat /\ Cardinality(From(q, a)) \in Nat
  <2>1. ASSUME NEW t \in Seq(Slot), NEW a PROVE Cardinality(From(t, a)) \in Nat
    <3>1. From(t, a) \subseteq 1 .. Len(t) /\ IsFiniteSet(1 .. Len(t))
      BY FS_Interval DEF From
    <3> QED
      BY <3>1, FS_Subset, FS_CardinalityType
  <2> QED
    BY <1>2, <1>7, <2>1
<1>11. \A a \in Addresses : Cardinality(From(p, a)) <= UserLimit
  BY <1>2, <1>7, <1>10, LimitsAssumption
<1> HIDE DEF p, q
<1>12. CASE UserHasRoom(p, Mine(r).ip)
  <2> DEFINE t == Append(p, Mine(r))
  <2>1. s = t
    BY <1>12
  <2>2. /\ t \in Seq(Slot) /\ Slots(t) = Slots(p) \cup {Mine(r)} /\ Distinct(t)
        /\ \A a \in Addresses : Cardinality(From(t, a)) =
                                Cardinality(From(p, a)) + (IF Mine(r).ip = a THEN 1 ELSE 0)
    BY <1>1, <1>7, <1>9, AppendSlot
  <2>3. Cardinality(From(p, Mine(r).ip)) < UserLimit
    BY <1>12 DEF UserHasRoom, From
  <2> HIDE DEF t
  <2>4. \A a \in Addresses : Cardinality(From(t, a)) <= UserLimit
    BY <1>1, <1>10, <1>11, <2>2, <2>3, LimitsAssumption
  <2>5. r \in Tokens(t)
    BY <1>1, <2>2, TokensOfSlots
  <2>6. Go(r, "ip")
    BY <1>3, <1>4, <2>1, <2>5
  <2>7. OthersStay(r) /\ pc'[r] = "ip" /\ kind'[r] = kind[r] /\ local'[r] = local[r]
    BY <2>6 DEF Go, OthersStay, Control, RequestTypes
  <2>8. byUser' = [byUser EXCEPT ![L][n] = t]
    BY <1>3, <2>1
  <2>9. /\ \A e \in Slots(t) : \/ e.token # r /\ e \in Slots(q)
                               \/ e = Mine(r) /\ pc'[r] = "ip"
        /\ \A e \in Slots(q) : e.token # r /\ now - e.at < Window => e \in Slots(t)
        /\ Mine(r) \in Slots(t)
    BY <1>6, <1>7, <1>8, <2>2, <2>7
  <2> QED
    BY <1>3, <1>5, <2>2, <2>4, <2>7, <2>8, <2>9, UserBudget DEF q
<1>13. CASE ~UserHasRoom(p, Mine(r).ip)
  <2>1. byUser' = [byUser EXCEPT ![L][n] = p] /\ Finish(r)
    BY <1>3, <1>4, <1>9, <1>13
  <2>2. OthersStay(r) /\ pc'[r] = "done"
    BY <2>1 DEF Finish, OthersStay, Control, RequestTypes
  <2>3. /\ \A e \in Slots(p) : e.token # r /\ e \in Slots(q)
        /\ \A e \in Slots(q) : e.token # r /\ now - e.at < Window => e \in Slots(p)
    BY <1>6, <1>7, <1>8
  <2> QED
    BY <1>3, <1>5, <1>7, <1>11, <2>1, <2>2, <2>3, UserBudget DEF q
<1> QED
  BY <1>12, <1>13

\* The slot of the name is given back.
LEMMA ReturnUserBudget ==
    ASSUME Control, Budget, NEW r \in Requests, Release(r) \/ RefundName(r) PROVE Budget'
<1> DEFINE L == Limiter(r)
           n == local[r].name
           q == byUser[L][n]
           p == WithoutToken(q, r)
<1>1. L \in Limiters /\ n \in Names /\ now \in Nat
  BY OwnSlot
<1>2. q \in Seq(Slot) /\ Distinct(q) /\ \A a \in Addresses : Cardinality(From(q, a)) <= UserLimit
  BY <1>1 DEF Budget, BudgetTypes, UserSlots, WithinLimits
<1>3. byUser' = [byUser EXCEPT ![L][n] = p] /\ now' = now /\ byIp' = byIp
  BY DEF Release, RefundName, RefundUser
<1>4. /\ LeftOf(p, q) /\ \A e \in Slots(q) : e.token # r => e \in Slots(p)
      /\ \A e \in Slots(p) : e.token # r
  BY <1>2, RefundProperties
<1>5. /\ p \in Seq(Slot) /\ Distinct(p) /\ Slots(p) \subseteq Slots(q)
      /\ \A a \in Addresses : Cardinality(From(p, a)) <= Cardinality(From(q, a))
  BY <1>2, <1>4 DEF LeftOf
<1>6. ASSUME NEW a \in Addresses PROVE Cardinality(From(p, a)) <= UserLimit
  <2>1. ASSUME NEW t \in Seq(Slot) PROVE Cardinality(From(t, a)) \in Nat
    <3>1. From(t, a) \subseteq 1 .. Len(t) /\ IsFiniteSet(1 .. Len(t))
      BY FS_Interval DEF From
    <3> QED
      BY <3>1, FS_Subset, FS_CardinalityType
  <2> HIDE DEF p, q
  <2>2. Cardinality(From(p, a)) \in Nat /\ Cardinality(From(q, a)) \in Nat
    BY <1>2, <1>5, <2>1
  <2> QED
    BY <1>2, <1>5, <2>2, LimitsAssumption
<1> HIDE DEF p, q
<1>7. CASE Release(r)
  <2>1. pc[r] = "release" /\ Finish(r) /\ charged' = charged
    BY <1>7 DEF Release, historyVars
  <2>2. OthersStay(r) /\ pc'[r] = "done"
    BY <2>1 DEF Finish, OthersStay, Control, RequestTypes
  <2>3. charged = {c \in charged : c.entry.token # r}
    BY <2>1, NotCharged DEF Uncharged
  <2> QED
    BY <1>3, <1>4, <1>5, <1>6, <2>1, <2>2, <2>3, UserBudget DEF q
<1>8. CASE RefundName(r)
  <2>1. pc[r] = "refund" /\ Go(r, "refundIp") /\ charged' = {c \in charged : c.entry.token # r}
    BY <1>8 DEF RefundName
  <2>2. OthersStay(r) /\ pc'[r] = "refundIp" /\ kind'[r] = kind[r] /\ local'[r] = local[r]
    BY <2>1 DEF Go, OthersStay, Control, RequestTypes
  <2> QED
    BY <1>3, <1>4, <1>5, <1>6, <2>1, <2>2, UserBudget DEF q
<1> QED
  BY <1>7, <1>8

\* A step of a request on the queue of its address, which becomes p.
LEMMA IpBudget ==
    ASSUME Control, Budget, NEW r \in Requests, OthersStay(r), now' = now, byUser' = byUser,
           NEW p \in Seq(Slot),
           byIp' = [byIp EXCEPT ![Limiter(r)][local[r].ip] = p],
           \/ pc[r] = "ip" /\ pc'[r] = "release" /\ charged' = charged
           \/ /\ pc[r] = "ip" /\ pc'[r] = "find"
              /\ charged' = charged \cup {Charge(Limiter(r), local[r].name, Mine(r))}
           \/ pc[r] = "refundIp" /\ pc'[r] \in {"create", "done"} /\ charged' = charged,
           Distinct(p), Len(p) <= IpLimit,
           \A e \in Slots(p) : \/ e.token # r /\ e \in Slots(byIp[Limiter(r)][local[r].ip])
                               \/ e = Mine(r) /\ pc'[r] = "find",
           \A e \in Slots(byIp[Limiter(r)][local[r].ip]) :
              e.token # r /\ now - e.at < Window => e \in Slots(p),
           pc'[r] = "find" => Mine(r) \in Slots(p),
           pc'[r] # "done" => kind'[r] = kind[r] /\ local'[r] = local[r]
    PROVE  Budget'
<1> DEFINE L == Limiter(r)
           i == local[r].ip
           own == Charge(L, local[r].name, Mine(r))
<1>0. \A e \in Slot : e.token \in Requests /\ e.at \in Nat /\ e.ip \in Addresses
  BY DEF Slot
<1>1. /\ L \in Limiters /\ i \in Addresses /\ now \in Nat /\ local[r].name \in Names
      /\ Mine(r) \in Slot /\ Mine(r).token = r /\ Mine(r).ip = i /\ Mine(r).at = local[r].at
  BY OwnSlot
<1>2. \A l \in Limiters, a \in Addresses : byIp'[l][a] = IF l = L /\ a = i THEN p ELSE byIp[l][a]
  BY <1>1 DEF Budget, BudgetTypes
<1>3. /\ \A l \in Limiters, m \in Names : \A e \in Slots(byUser[l][m]) : e \in Slot
      /\ \A l \in Limiters, a \in Addresses : \A e \in Slots(byIp[l][a]) : e \in Slot
      /\ \A c \in charged : c.entry \in Slot /\ c.lim \in Limiters /\ c.name \in Names
  BY DEF Budget, BudgetTypes, Slots
<1>4. \A q \in Requests : q # r =>
         pc'[q] = pc[q] /\ Limiter(q)' = Limiter(q) /\ Mine(q)' = Mine(q)
         /\ local'[q] = local[q]
  BY DEF OthersStay, Limiter, Mine
<1>5. pc'[r] # "done" => Limiter(r)' = L /\ Mine(r)' = Mine(r) /\ local'[r] = local[r]
  BY DEF Limiter, Mine
<1>6. own.entry = Mine(r) /\ own.lim = L /\ own.name = local[r].name
  BY DEF Charge
<1>7. /\ charged \subseteq charged' /\ \A c \in charged : c.entry.token # r
      /\ \A c \in charged' : c \in charged \/ (c = own /\ pc'[r] = "find")
  BY NotCharged DEF Uncharged
<1>8. BudgetTypes'
  <2>1. byIp' \in [Limiters -> [Addresses -> Seq(Slot)]]
    BY <1>1 DEF Budget, BudgetTypes
  <2>2. own \in [lim : Limiters, name : Names, entry : Slot]
    BY <1>1 DEF Charge
  <2> QED
    BY <1>7, <2>1, <2>2 DEF Budget, BudgetTypes
<1>9. WithinLimits'
  BY <1>2 DEF Budget, WithinLimits
<1>10. UserSlots'
  <2>1. ASSUME NEW l \in Limiters, NEW m \in Names, NEW e \in Slots(byUser[l][m])
        PROVE  \/ Charge(l, m, e) \in charged'
               \/ /\ pc'[e.token] \in {"ip", "release"} /\ e = Mine(e.token)'
                  /\ Limiter(e.token)' = l /\ local'[e.token].name = m
    <3>1. e.token \in Requests
      BY <1>0, <1>3
    <3>2. CASE Charge(l, m, e) \in charged
      BY <1>7, <3>2
    <3>3. CASE ~(Charge(l, m, e) \in charged)
      <4>1. /\ pc[e.token] \in {"ip", "release"} /\ e = Mine(e.token)
            /\ Limiter(e.token) = l /\ local[e.token].name = m
        BY <3>3 DEF Budget, UserSlots
      <4>2. CASE e.token # r
        BY <1>4, <3>1, <4>1, <4>2
      <4>3. CASE e.token = r
        BY <1>5, <4>1, <4>3
      <4> QED
        BY <4>2, <4>3
    <3> QED
      BY <3>2, <3>3
  <2> QED
    BY <2>1 DEF UserSlots, Budget
<1>11. IpSlots'
  <2>1. ASSUME NEW l \in Limiters, NEW a \in Addresses
        PROVE  /\ Distinct(byIp'[l][a])
               /\ \A e \in Slots(byIp'[l][a]) :
                     \/ e.token # r /\ e \in Slots(byIp[l][a])
                     \/ e = Mine(r) /\ pc'[r] = "find" /\ l = L /\ a = i
    <3>1. CASE l = L /\ a = i
      BY <1>2, <3>1
    <3>2. CASE ~(l = L /\ a = i)
      <4>1. byIp'[l][a] = byIp[l][a] /\ Distinct(byIp[l][a])
        BY <1>2, <3>2 DEF Budget, IpSlots
      <4>2. ASSUME NEW e \in Slots(byIp[l][a]) PROVE e.token # r
        <5>1. \A m \in Names : Charge(l, m, e).entry = e
          BY DEF Charge
        <5> QED
          BY <1>7, <3>2, <5>1 DEF Budget, IpSlots
      <4> QED
        BY <4>1, <4>2
    <3> QED
      BY <3>1, <3>2
  <2>2. ASSUME NEW l \in Limiters, NEW a \in Addresses, NEW e \in Slots(byIp[l][a]), e.token # r
        PROVE  \/ e.ip = a /\ \E m \in Names : Charge(l, m, e) \in charged'
               \/ /\ pc'[e.token] = "refundIp"
                  /\ Limiter(e.token)' = l /\ local'[e.token].ip = a
    <3>1. e.token \in Requests
      BY <1>0, <1>3
    <3> QED
      BY <1>4, <1>7, <2>2, <3>1 DEF Budget, IpSlots
  <2>3. pc'[r] = "find" => Charge(L, local[r].name, Mine(r)) \in charged'
    OBVIOUS
  <2> QED
    BY <1>1, <2>1, <2>2, <2>3 DEF IpSlots
<1>12. ChargesAreOwn'
  <2>1. ASSUME NEW c \in charged'
        PROVE  /\ pc'[c.entry.token] \notin Uncharged
               /\ pc'[c.entry.token] # "done" =>
                  c.lim = Limiter(c.entry.token)' /\ c.name = local'[c.entry.token].name
                  /\ c.entry = Mine(c.entry.token)'
    <3>1. CASE c \in charged
      BY <1>0, <1>3, <1>4, <1>7, <3>1 DEF Budget, ChargesAreOwn
    <3>2. CASE c = own /\ pc'[r] = "find"
      BY <1>1, <1>5, <1>6, <3>2 DEF Uncharged, MiddlewarePcs
    <3> QED
      BY <1>7, <3>1, <3>2
  <2> QED
    BY <2>1 DEF ChargesAreOwn
<1>13. ChargesCount'
  <2>1. ASSUME NEW c \in charged', now - c.entry.at < Window
        PROVE  /\ c.entry \in Slots(byUser[c.lim][c.name])
               /\ c.entry \in Slots(byIp'[c.lim][c.entry.ip])
    <3>1. CASE c \in charged
      <4>1. c.entry \in Slots(byUser[c.lim][c.name]) /\ c.entry \in Slots(byIp[c.lim][c.entry.ip])
            /\ c.lim \in Limiters /\ c.entry.ip \in Addresses /\ c.entry.token # r
        BY <1>0, <1>3, <1>7, <2>1, <3>1 DEF Budget, ChargesCount
      <4> QED
        BY <1>2, <2>1, <4>1
    <3>2. CASE c = own /\ pc'[r] = "find"
      <4>1. pc[r] = "ip" /\ now - local[r].at < Window
        BY <1>1, <1>6, <2>1, <3>2
      <4>2. Mine(r) \in Slots(byUser[L][local[r].name])
        BY <4>1 DEF Budget, ChargesCount
      <4> QED
        BY <1>1, <1>2, <1>6, <3>2, <4>2
    <3> QED
      BY <1>7, <3>1, <3>2
  <2>2. ASSUME NEW q \in Requests, pc'[q] = "ip", now - local'[q].at < Window
        PROVE  Mine(q)' \in Slots(byUser[Limiter(q)'][local'[q].name])
    <3>1. q # r
      BY <2>2
    <3> QED
      BY <1>4, <2>2, <3>1 DEF Budget, ChargesCount
  <2> QED
    BY <2>1, <2>2 DEF ChargesCount
<1> QED
  BY <1>8, <1>9, <1>10, <1>11, <1>12, <1>13 DEF Budget

LEMMA ReserveIpBudget ==
    ASSUME Control, Budget, NEW r \in Requests, ReserveIp(r) PROVE Budget'
<1> DEFINE L == Limiter(r)
           i == local[r].ip
           q == byIp[L][i]
           p == prune_front(q, Mine(r).at)
           s == IF IpHasRoom(p) THEN Append(p, Mine(r)) ELSE p
<1>1. /\ L \in Limiters /\ i \in Addresses /\ now \in Nat /\ Mine(r) \in Slot /\ Mine(r).token = r
      /\ Mine(r).at \in Nat /\ Mine(r).at <= now /\ Mine(r).ip = i
  BY OwnSlot
<1>2. q \in Seq(Slot) /\ Distinct(q) /\ Len(q) <= IpLimit
  BY <1>1 DEF Budget, BudgetTypes, IpSlots, WithinLimits
<1>3. /\ pc[r] = "ip" /\ now' = now /\ byUser' = byUser /\ byIp' = [byIp EXCEPT ![L][i] = s]
      /\ IF r \in Tokens(byIp'[L][i])
         THEN charged' = charged \cup {Charge(L, local[r].name, Mine(r))} /\ Go(r, "find")
         ELSE Go(r, "release") /\ charged' = charged
  BY <1>1 DEF ReserveIp, reserve_ip_key, Charge
<1>4. byIp'[L][i] = s
  BY <1>1, <1>3 DEF Budget, BudgetTypes
<1>5. ASSUME NEW e \in Slots(q) PROVE e.token # r /\ e \in Slot
  <2>1. e \in Slot
    BY <1>2 DEF Slots
  <2>2. e.token # r
    <3>1. SUFFICES ASSUME e.token = r PROVE FALSE
      OBVIOUS
    <3>2. PICK n \in Names : Charge(L, n, e) \in charged
      BY <1>1, <1>3, <1>5, <3>1 DEF Budget, IpSlots
    <3>3. Charge(L, n, e).entry = e
      BY DEF Charge
    <3> QED
      BY <1>3, <3>1, <3>2, <3>3, NotCharged DEF Uncharged
  <2> QED
    BY <2>1, <2>2
<1>6. /\ LeftOf(p, q) /\ p \in Seq(Slot) /\ Distinct(p) /\ Slots(p) \subseteq Slots(q)
      /\ Len(p) <= Len(q)
      /\ \A e \in Slots(q) : Mine(r).at - e.at < Window => e \in Slots(p)
  <2>1. LeftOf(p, q) /\ \A e \in Slots(q) : Mine(r).at - e.at < Window => e \in Slots(p)
    BY <1>1, <1>2, PruneProperties
  <2> QED
    BY <1>2, <2>1 DEF LeftOf
<1>7. \A e \in Slots(q) : now - e.at < Window => e \in Slots(p)
  <2>1. \A e \in Slots(q) : e.at \in Nat
    BY <1>5 DEF Slot
  <2> QED
    BY <1>1, <1>6, <2>1, LimitsAssumption
<1>8. r \notin Tokens(p)
  BY <1>5, <1>6, TokensOfSlots
<1> HIDE DEF p, q
<1>9. CASE IpHasRoom(p)
  <2> DEFINE t == Append(p, Mine(r))
  <2>1. s = t
    BY <1>9
  <2>2. /\ t \in Seq(Slot) /\ Slots(t) = Slots(p) \cup {Mine(r)} /\ Distinct(t)
        /\ Len(t) = Len(p) + 1
    BY <1>1, <1>6, <1>8, AppendSlot
  <2>3. Len(p) < IpLimit
    BY <1>9 DEF IpHasRoom
  <2> HIDE DEF t
  <2>4. Len(t) <= IpLimit
    BY <1>6, <2>2, <2>3, LimitsAssumption
  <2>5. r \in Tokens(t)
    BY <1>1, <2>2, TokensOfSlots
  <2>6. Go(r, "find") /\ charged' = charged \cup {Charge(L, local[r].name, Mine(r))}
    BY <1>3, <1>4, <2>1, <2>5
  <2>7. OthersStay(r) /\ pc'[r] = "find" /\ kind'[r] = kind[r] /\ local'[r] = local[r]
    BY <2>6 DEF Go, OthersStay, Control, RequestTypes
  <2>8. byIp' = [byIp EXCEPT ![L][i] = t]
    BY <1>3, <2>1
  <2>9. /\ \A e \in Slots(t) : \/ e.token # r /\ e \in Slots(q)
                               \/ e = Mine(r) /\ pc'[r] = "find"
        /\ \A e \in Slots(q) : e.token # r /\ now - e.at < Window => e \in Slots(t)
        /\ Mine(r) \in Slots(t)
    BY <1>5, <1>6, <1>7, <2>2, <2>7
  <2> QED
    BY <1>3, <2>2, <2>4, <2>6, <2>7, <2>8, <2>9, IpBudget DEF q
<1>10. CASE ~IpHasRoom(p)
  <2>1. byIp' = [byIp EXCEPT ![L][i] = p] /\ Go(r, "release") /\ charged' = charged
    BY <1>3, <1>4, <1>8, <1>10
  <2>2. OthersStay(r) /\ pc'[r] = "release" /\ kind'[r] = kind[r] /\ local'[r] = local[r]
    BY <2>1 DEF Go, OthersStay, Control, RequestTypes
  <2>3. /\ \A e \in Slots(p) : e.token # r /\ e \in Slots(q)
        /\ \A e \in Slots(q) : e.token # r /\ now - e.at < Window => e \in Slots(p)
    BY <1>5, <1>6, <1>7
  <2>4. Len(p) <= IpLimit
    BY <1>2, <1>6, LimitsAssumption
  <2> QED
    BY <1>3, <1>6, <2>1, <2>2, <2>3, <2>4, IpBudget DEF q
<1> QED
  BY <1>9, <1>10

\* The slot of the address is given back.
LEMMA RefundAddressBudget ==
    ASSUME Control, Budget, NEW r \in Requests, RefundAddress(r) PROVE Budget'
<1> DEFINE L == Limiter(r)
           i == local[r].ip
           q == byIp[L][i]
           p == WithoutToken(q, r)
<1>1. L \in Limiters /\ i \in Addresses /\ now \in Nat
  BY OwnSlot
<1>2. q \in Seq(Slot) /\ Distinct(q) /\ Len(q) <= IpLimit
  BY <1>1 DEF Budget, BudgetTypes, IpSlots, WithinLimits
<1>3. /\ byIp' = [byIp EXCEPT ![L][i] = p] /\ now' = now /\ byUser' = byUser
      /\ charged' = charged /\ pc[r] = "refundIp" /\ (Go(r, "create") \/ Finish(r))
  BY DEF RefundAddress, RefundIp, historyVars
<1>4. /\ LeftOf(p, q) /\ \A e \in Slots(q) : e.token # r => e \in Slots(p)
      /\ \A e \in Slots(p) : e.token # r
  BY <1>2, RefundProperties
<1>5. p \in Seq(Slot) /\ Distinct(p) /\ Slots(p) \subseteq Slots(q) /\ Len(p) <= IpLimit
  BY <1>2, <1>4, LimitsAssumption DEF LeftOf
<1> HIDE DEF p, q
<1>6. /\ OthersStay(r) /\ pc'[r] \in {"create", "done"}
      /\ pc'[r] # "done" => kind'[r] = kind[r] /\ local'[r] = local[r]
  BY <1>3 DEF Go, Finish, OthersStay, Control, RequestTypes
<1> QED
  BY <1>3, <1>4, <1>5, <1>6, IpBudget DEF q

\* The handlers' other steps.
LEMMA OtherStepsKeep ==
    ASSUME Control, NEW r \in Requests,
           \/ \E k \in Kinds : Start(r, k)
           \/ ResolveSession(r) \/ ResolvePrincipal(r) \/ touch_session(r)
           \/ LoginPrincipal(r) \/ LoginPassword(r) \/ LoginTotp(r) \/ record_totp_step(r)
           \/ create_session(r) \/ ClaimCode(r) \/ consume_bootstrap_code(r)
           \/ FindTarget(r) \/ Save(r) \/ revoke_sessions_for_principal(r) \/ Answer(r)
           \/ RevokeOne(r) \/ Fails(r)
    PROVE  /\ UNCHANGED <<byUser, byIp, charged, now>> /\ OthersStay(r) /\ Keeps(r)
<1> USE DEF limiterVars, historyVars, storeVars
<1>0. /\ RequestOK(r) /\ local[r] \in Locals /\ pc[r] \in Pcs
      /\ kind \in [Requests -> Kinds \cup {"none"}] /\ pc \in [Requests -> Pcs]
      /\ local \in [Requests -> Locals]
  BY DEF Control, RequestTypes
<1>1. ASSUME Finish(r), pc[r] \notin {"ip", "release", "refundIp", "done"}
      PROVE  OthersStay(r) /\ Keeps(r)
  BY <1>0, <1>1 DEF Finish, OthersStay, Keeps, Uncharged, MiddlewarePcs
<1>2. ASSUME NEW to \in Pcs \ (Uncharged \cup {"done"}), Go(r, to),
             pc[r] \notin {"ip", "release", "refundIp", "done"}
      PROVE  OthersStay(r) /\ Keeps(r)
  BY <1>0, <1>2 DEF Go, OthersStay, Keeps, Uncharged
<1>3. ASSUME NEW to \in {"principal", "touch", "user"}, Go(r, to), pc[r] \in MiddlewarePcs
      PROVE  OthersStay(r) /\ Keeps(r)
  BY <1>0, <1>3 DEF Go, OthersStay, Keeps, Uncharged, MiddlewarePcs
<1>4. ASSUME NEW to \in Pcs \ (Uncharged \cup {"done"}), NEW new,
             pc' = [pc EXCEPT ![r] = to], local' = [local EXCEPT ![r] = new], kind' = kind,
             new.name = local[r].name, new.ip = local[r].ip, new.at = local[r].at,
             pc[r] \notin {"ip", "release", "refundIp", "done"}
      PROVE  OthersStay(r) /\ Keeps(r)
  BY <1>0, <1>4 DEF OthersStay, Keeps, Uncharged
<1> USE DEF Pcs, Uncharged, MiddlewarePcs, ReservePcs, LoginPcs, RefundPcs, AdminPcs
<1>5. CASE \E k \in Kinds : Start(r, k)
  BY <1>0, <1>5 DEF Start, OthersStay, Keeps
<1>6. CASE ResolveSession(r)
  BY <1>0, <1>6 DEF ResolveSession, OthersStay, Keeps
<1>7. CASE ResolvePrincipal(r)
  BY <1>3, <1>7 DEF ResolvePrincipal
<1>8. CASE touch_session(r)
  <2>1. pc[r] = "touch" /\ UNCHANGED <<byUser, byIp, charged, now>>
        /\ (Finish(r) \/ Go(r, "logout") \/ Go(r, "user"))
    BY <1>8 DEF touch_session
  <2> QED
    BY <1>1, <1>2, <1>3, <2>1
<1>9. CASE LoginPrincipal(r)
  BY <1>2, <1>9 DEF LoginPrincipal
<1>10. CASE LoginPassword(r)
  <2> DEFINE new == [local[r] EXCEPT !.pw = password]
  <2>1. /\ new.name = local[r].name /\ new.ip = local[r].ip /\ new.at = local[r].at
    BY <1>0 DEF Locals
  <2>2. /\ UNCHANGED <<byUser, byIp, charged, now, kind>> /\ pc[r] = "credential"
        /\ pc' = [pc EXCEPT ![r] = "totp"] /\ local' = [local EXCEPT ![r] = new]
    BY <1>0, <1>10 DEF LoginPassword
  <2> HIDE DEF new
  <2> QED
    BY <1>4, <2>1, <2>2
<1>11. CASE LoginTotp(r)
  <2>1. CASE totp
    <3>1. PICK s \in Steps(local[r].at) :
             local' = [local EXCEPT ![r].step = s] /\ pc' = [pc EXCEPT ![r] = "step"]
             /\ UNCHANGED kind
      BY <1>11, <2>1 DEF LoginTotp
    <3> DEFINE new == [local[r] EXCEPT !.step = s]
    <3>2. /\ new.name = local[r].name /\ new.ip = local[r].ip /\ new.at = local[r].at
          /\ local' = [local EXCEPT ![r] = new]
      BY <1>0, <3>1 DEF Locals
    <3>3. UNCHANGED <<byUser, byIp, charged, now>> /\ pc[r] = "totp"
      BY <1>11 DEF LoginTotp
    <3> HIDE DEF new
    <3> QED
      BY <1>4, <3>1, <3>2, <3>3
  <2>2. CASE ~totp
    BY <1>2, <1>11, <2>2 DEF LoginTotp
  <2> QED
    BY <2>1, <2>2
<1>12. CASE record_totp_step(r)
  <2>1. pc[r] = "step" /\ UNCHANGED <<byUser, byIp, charged, now>> /\ (Finish(r) \/ Go(r, "refund"))
    BY <1>12 DEF record_totp_step
  <2> QED
    BY <1>1, <1>2, <2>1
<1>13. CASE create_session(r)
  BY <1>1, <1>13 DEF create_session
<1>14. CASE ClaimCode(r)
  <2>1. PICK s \in Steps(local[r].at) \cup {-1} : local' = [local EXCEPT ![r].step = s]
    BY <1>14 DEF ClaimCode
  <2> DEFINE new == [local[r] EXCEPT !.step = s]
  <2>2. /\ new.name = local[r].name /\ new.ip = local[r].ip /\ new.at = local[r].at
        /\ local' = [local EXCEPT ![r] = new]
    BY <1>0, <2>1 DEF Locals
  <2>3. /\ UNCHANGED <<byUser, byIp, charged, now, kind>> /\ pc[r] = "find"
        /\ pc' = [pc EXCEPT ![r] = "consume"]
    BY <1>14 DEF ClaimCode
  <2> HIDE DEF new
  <2> QED
    BY <1>4, <2>2, <2>3
<1>15. CASE consume_bootstrap_code(r)
  <2>1. pc[r] = "consume" /\ UNCHANGED <<byUser, byIp, charged, now>>
        /\ (Finish(r) \/ Go(r, "refund"))
    BY <1>15 DEF consume_bootstrap_code
  <2> QED
    BY <1>1, <1>2, <2>1
<1>16. CASE FindTarget(r)
  BY <1>2, <1>16 DEF FindTarget
<1>17. CASE Save(r)
  <2>1. /\ UNCHANGED <<byUser, byIp, charged, now, kind>> /\ pc[r] = "save"
        /\ pc' = [pc EXCEPT ![r] = IF kind[r] = "enable" THEN "answer" ELSE "revoke"]
        /\ (local' = local \/ local' = [local EXCEPT ![r].pw = password + 1])
    BY <1>17, Zenon DEF Save
  <2>2. PICK to \in {"answer", "revoke"} : pc' = [pc EXCEPT ![r] = to]
    BY <2>1
  <2>3. CASE local' = local
    BY <1>2, <2>1, <2>2, <2>3 DEF Go
  <2>4. CASE local' = [local EXCEPT ![r].pw = password + 1]
    <3> DEFINE new == [local[r] EXCEPT !.pw = password + 1]
    <3>1. /\ new.name = local[r].name /\ new.ip = local[r].ip /\ new.at = local[r].at
          /\ local' = [local EXCEPT ![r] = new]
      BY <1>0, <2>4 DEF Locals
    <3> HIDE DEF new
    <3> QED
      BY <1>4, <2>1, <2>2, <3>1
  <2> QED
    BY <2>1, <2>3, <2>4
<1>18. CASE revoke_sessions_for_principal(r)
  BY <1>2, <1>18 DEF revoke_sessions_for_principal
<1>19. CASE Answer(r)
  BY <1>1, <1>19 DEF Answer
<1>20. CASE RevokeOne(r)
  BY <1>1, <1>20 DEF RevokeOne
<1>21. CASE Fails(r)
  BY <1>1, <1>21 DEF Fails
<1> QED
  BY <1>5, <1>6, <1>7, <1>8, <1>9, <1>10, <1>11, <1>12, <1>13, <1>14, <1>15, <1>16, <1>17, <1>18,
     <1>19, <1>20, <1>21

\* The queues are empty at the start.
LEMMA BudgetInit == Init => Budget
<1> SUFFICES ASSUME Init PROVE Budget
  OBVIOUS
<1>1. /\ byUser = [l \in Limiters |-> [n \in Names |-> <<>>]]
      /\ byIp = [l \in Limiters |-> [i \in Addresses |-> <<>>]]
      /\ charged = {} /\ \A r \in Requests : pc[r] = "idle"
  BY DEF Init, LimiterInit
<1>2. Slots(<<>>) = {} /\ Distinct(<<>>) /\ \A a \in Addresses : From(<<>>, a) = {}
  BY DEF Slots, Distinct, From
<1>3. BudgetTypes
  BY <1>1 DEF BudgetTypes
<1>4. UserSlots /\ IpSlots /\ ChargesAreOwn /\ ChargesCount
  BY <1>1, <1>2 DEF UserSlots, IpSlots, ChargesAreOwn, ChargesCount
<1>5. WithinLimits
  <2>1. Cardinality({}) = 0
    BY FS_EmptySet
  <2>2. ASSUME NEW l \in Limiters, NEW a \in Addresses PROVE Len(byIp[l][a]) <= IpLimit
    <3>1. byIp[l][a] = <<>>
      BY <1>1
    <3>2. Len(byIp[l][a]) = 0
      BY <3>1
    <3> QED
      BY <3>2, LimitsAssumption
  <2>3. ASSUME NEW l \in Limiters, NEW n \in Names, NEW a \in Addresses
        PROVE  Cardinality(From(byUser[l][n], a)) <= UserLimit
    <3>1. byUser[l][n] = <<>>
      BY <1>1
    <3>2. Cardinality(From(byUser[l][n], a)) = 0
      BY <1>2, <2>1, <3>1
    <3> QED
      BY <3>2, LimitsAssumption
  <2> QED
    BY <2>2, <2>3 DEF WithinLimits
<1> QED
  BY <1>3, <1>4, <1>5 DEF Budget

\* Every step preserves what is known of the queues.
LEMMA BudgetStep == Control /\ Budget /\ [Next]_vars => Budget'
<1> SUFFICES ASSUME Control, Budget, [Next]_vars PROVE Budget'
  OBVIOUS
<1>1. ASSUME UNCHANGED <<byUser, byIp, charged, now, kind, pc, local>> PROVE Budget'
  BY <1>1 DEF Budget, BudgetTypes, WithinLimits, UserSlots, IpSlots, ChargesAreOwn, ChargesCount,
              Limiter, Mine
<1>2. CASE UNCHANGED vars
  BY <1>1, <1>2 DEF vars, limiterVars, historyVars
<1>3. CASE Tick
  BY <1>3, TickBudget
<1>4. ASSUME NEW r \in Requests, Step(r) PROVE Budget'
  <2>1. CASE Expire(r)
    BY <1>1, <2>1 DEF Expire, limiterVars, historyVars
  <2> QED
    BY <1>4, <2>1, OtherStepsKeep, KeptBudget, ReserveUserBudget, ReserveIpBudget,
       ReturnUserBudget, RefundAddressBudget DEF Step
<1> QED
  BY <1>2, <1>3, <1>4 DEF Next

-----------------------------------------------------------------------------
(* The theorems.                                                           *)

\* The three invariants together are inductive, whatever requests run and in
\* whatever order their store calls and limiter locks are taken (auth.rs).
THEOREM Inductive == Spec => [](Control /\ Accounts /\ Budget)
<1>1. Init => Control /\ Accounts /\ Budget
  BY ControlInit, AccountsInit, BudgetInit
<1>2. Control /\ Accounts /\ Budget /\ [Next]_vars => (Control /\ Accounts /\ Budget)'
  BY ControlStep, AccountsStep, BudgetStep
<1> QED
  BY <1>1, <1>2, PTL DEF Spec

\* The types hold, and no budget is exceeded: a name has at most UserLimit
\* slots of one address and an address at most IpLimit (reserve).
THEOREM TypesHold == Spec => []TypeOK
<1>1. Control /\ Accounts /\ Budget => TypeOK
  <2> SUFFICES ASSUME Control, Accounts, Budget PROVE TypeOK
    OBVIOUS
  <2>1. /\ \A l \in Limiters, i \in Addresses : Len(byIp[l][i]) <= IpLimit
        /\ \A l \in Limiters, n \in Names, i \in Addresses :
              Cardinality({j \in DOMAIN byUser[l][n] : byUser[l][n][j].ip = i}) <= UserLimit
    BY DEF Budget, WithinLimits, From
  <2>2. now \in 1 .. MaxNow \cup {1} /\ lastStep \in -1 .. now + 1
    BY MaxNowAssumption DEF Control, StoreTypes, StepNumbers
  <2>3. {codeUsed, enabled, totp} \subseteq BOOLEAN
    BY DEF Control, StoreTypes
  <2>4. password \in 0 .. Cardinality(Requests)
    <3>1. Spent \in SUBSET Requests
      BY DEF Spent
    <3>2. /\ Cardinality(Spent) \in Nat /\ Cardinality(Requests) \in Nat
          /\ Cardinality(Spent) <= Cardinality(Requests)
      BY <3>1, RequestsAssumption, FS_Subset, FS_CardinalityType
    <3> QED
      BY <3>2 DEF Accounts, Control, StoreTypes
  <2>5. settled \in 0 .. password
    BY DEF Accounts, PasswordsCovered, Control, StoreTypes
  <2>6. claims \in 0 .. Cardinality(Requests)
    <3>1. Cardinality(Requests) \in Nat
      BY RequestsAssumption, FS_CardinalityType
    <3>2. claims = 0 \/ (claims = 1 /\ password # 0)
      BY DEF Accounts, NothingBeforeClaim, ClaimedIsOne, Control, StoreTypes
    <3> QED
      BY <2>4, <3>1, <3>2
  <2> QED
    BY <2>1, <2>2, <2>3, <2>4, <2>5, <2>6
       DEF TypeOK, Control, StoreTypes, RequestTypes, SessionStates
<1> QED
  BY <1>1, Inductive, PTL

\* The one-time code is consumed once, by the claim that writes the first
\* credential (consume_bootstrap_code).
THEOREM ClaimHolds == Spec => []ClaimedOnce
<1>1. Control /\ Accounts => ClaimedOnce
  BY DEF Accounts, NothingBeforeClaim, ClaimedIsOne, ClaimedOnce, Control, StoreTypes
<1> QED
  BY <1>1, Inductive, PTL

\* No TOTP step opens two sessions (login, record_totp_step).
THEOREM StepsHold == Spec => []StepUsedOnce
<1>1. Accounts => StepUsedOnce
  BY DEF Accounts, StepsApart, StepUsedOnce
<1> QED
  BY <1>1, Inductive, PTL

\* A session that a successful handler has ended is never in force again
\* (revoke_sessions_for_principal, revoke_session, touch_session).
THEOREM RevocationHolds == Spec => []RevocationIsFinal
<1>1. Accounts => RevocationIsFinal
  BY DEF Accounts, Final, RevocationIsFinal
<1> QED
  BY <1>1, Inductive, PTL

\* After a password change, only a sign-in verified before the revocation can
\* still hold a session with an older password (change_password).
THEOREM OldPasswordHolds == Spec => []OldPasswordNeedsARace
<1>1. Accounts => OldPasswordNeedsARace
  BY DEF Accounts, PasswordsCovered, Covered, OldPasswordNeedsARace
<1> QED
  BY <1>1, Inductive, PTL

\* The limiter's queues hold the failed attempts and those in flight, each
\* under its own identity (reserve, refund).
THEOREM BudgetHolds == Spec => []BudgetIsFailures
<1>1. Budget => BudgetIsFailures
  <2> SUFFICES ASSUME Budget, NEW l \in Limiters
               PROVE  /\ \A n \in Names :
                            LET mine == {c \in Charged(l) : c.name = n}
                            IN /\ Tokens(byUser[l][n]) \subseteq
                                     {c.entry.token : c \in mine}
                                     \cup {r \in Requests : pc[r] \in {"ip", "release"}}
                               /\ \A c \in mine : now - c.entry.at < Window =>
                                     c.entry.token \in Tokens(byUser[l][n])
                      /\ \A i \in Addresses :
                            LET mine == {c \in Charged(l) : c.entry.ip = i}
                            IN /\ Tokens(byIp[l][i]) \subseteq
                                     {c.entry.token : c \in mine}
                                     \cup {r \in Requests : pc[r] = "refundIp"}
                               /\ \A c \in mine : now - c.entry.at < Window =>
                                     c.entry.token \in Tokens(byIp[l][i])
    BY DEF BudgetIsFailures
  <2>0. /\ \A n \in Names : \A e \in Slots(byUser[l][n]) : e.token \in Requests
        /\ \A i \in Addresses : \A e \in Slots(byIp[l][i]) : e.token \in Requests
        /\ \A n, e : Charge(l, n, e).lim = l /\ Charge(l, n, e).name = n
                     /\ Charge(l, n, e).entry = e
    <3>1. \A n \in Names : byUser[l][n] \in Seq(Slot)
      BY DEF Budget, BudgetTypes
    <3>2. \A i \in Addresses : byIp[l][i] \in Seq(Slot)
      BY DEF Budget, BudgetTypes
    <3>3. ASSUME NEW q \in Seq(Slot), NEW e \in Slots(q) PROVE e.token \in Requests
      <4>1. e \in Slot
        BY DEF Slots
      <4> QED
        BY <4>1 DEF Slot
    <3>4. \A n, e : Charge(l, n, e).lim = l /\ Charge(l, n, e).name = n
                    /\ Charge(l, n, e).entry = e
      BY DEF Charge
    <3> QED
      BY <3>1, <3>2, <3>3, <3>4
  <2>1. ASSUME NEW n \in Names
        PROVE  /\ \A e \in Slots(byUser[l][n]) :
                     \/ \E c \in Charged(l) : c.name = n /\ c.entry.token = e.token
                     \/ pc[e.token] \in {"ip", "release"}
               /\ \A c \in Charged(l) : c.name = n /\ now - c.entry.at < Window =>
                     c.entry \in Slots(byUser[l][n])
    BY <2>0 DEF Budget, UserSlots, ChargesCount, Charged
  <2>2. ASSUME NEW i \in Addresses
        PROVE  /\ \A e \in Slots(byIp[l][i]) :
                     \/ \E c \in Charged(l) : c.entry.ip = i /\ c.entry.token = e.token
                     \/ pc[e.token] = "refundIp"
               /\ \A c \in Charged(l) : c.entry.ip = i /\ now - c.entry.at < Window =>
                     c.entry \in Slots(byIp[l][i])
    BY <2>0 DEF Budget, IpSlots, ChargesCount, Charged
  <2> QED
    BY <2>0, <2>1, <2>2, TokensOfSlots
<1> QED
  BY <1>1, Inductive, PTL
=============================================================================
