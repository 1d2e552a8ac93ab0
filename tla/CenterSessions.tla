---------------------------- MODULE CenterSessions ----------------------------
(***************************************************************************)
(* Inbound connections of the center: admission during the accept, the     *)
(* registry of online sites with its generations and disconnect signals,   *)
(* the connection tasks, and the sites that dial and converge their own    *)
(* binding when the center keeps refusing them.                            *)
(***************************************************************************)
EXTENDS SiteBinding

CONSTANTS
    Conns,          \* connections of the center that exist at one time
    NoConn,         \* no connection
    MaxGen,         \* bound: registrations in a behaviour
    Limit,          \* not_bound_abort_after
    MaxFaults       \* bound: crashes, failed calls and cancelled requests

ASSUME NoConnAssumption == NoConn \notin Conns
ASSUME SessionBoundsAssumption ==
    MaxGen \in Nat \ {0} /\ Limit \in Nat \ {0} /\ MaxFaults \in Nat

VARIABLES
    cpc,            \* where each connection task is
    csite,          \* the site that dialled
    cgen,           \* the generation the task registered with
    cwatch,         \* the generation whose disconnect signal it awaits, or 0
    online,         \* the registry: the generation online for a site, or 0
    nextGen,        \* next_generation
    signalled,      \* the generations whose disconnect signal has fired
    link,           \* the connection the site's engine is on
    local,          \* the site's own binding row
    refusals,       \* consecutive_not_bound of the site's engine
    stopped,        \* the sites whose engine task has ended, the row still bound
    faults          \* the faults used up so far

connVars == <<cpc, csite, cgen, cwatch>>
registryVars == <<online, nextGen, signalled>>
siteVars == <<link, local, refusals, stopped>>
vars == <<bindingVars, connVars, registryVars, siteVars, faults>>

ConnPcs == {"idle", "hello", "admitted", "registered", "watched", "closing",
            "running", "ending"}

TypeOK ==
    /\ BindingTypeOK
    /\ cpc \in [Conns -> ConnPcs]
    /\ csite \in [Conns -> Sites \cup {0}]
    /\ cgen \in [Conns -> 0 .. MaxGen] /\ cwatch \in [Conns -> 0 .. MaxGen]
    /\ online \in [Sites -> 0 .. MaxGen]
    /\ nextGen \in 0 .. MaxGen /\ signalled \subseteq 1 .. MaxGen
    /\ link \in [Sites -> Conns \cup {NoConn}]
    /\ local \in [Sites -> {"none", "bound", "revoked"}]
    /\ refusals \in [Sites -> 0 .. Limit]
    /\ stopped \subseteq Sites
    /\ faults \in 0 .. MaxFaults

Init ==
    /\ BindingInit
    /\ cpc = [c \in Conns |-> "idle"] /\ csite = [c \in Conns |-> 0]
    /\ cgen = [c \in Conns |-> 0] /\ cwatch = [c \in Conns |-> 0]
    /\ online = [s \in Sites |-> 0] /\ nextGen = 0 /\ signalled = {}
    /\ link = [s \in Sites |-> NoConn]
    /\ local = [s \in Sites |-> "none"]
    /\ refusals = [s \in Sites |-> 0]
    /\ stopped = {}
    /\ faults = 0

CGoto(c, next) == cpc' = [cpc EXCEPT ![c] = next]

\* The task is gone and its socket closed.
CEnd(c) ==
    /\ cpc' = [cpc EXCEPT ![c] = "idle"]
    /\ csite' = [csite EXCEPT ![c] = 0]
    /\ cgen' = [cgen EXCEPT ![c] = 0]
    /\ cwatch' = [cwatch EXCEPT ![c] = 0]
    /\ link' = [s \in Sites |-> IF link[s] = c THEN NoConn ELSE link[s]]

TakeFault == faults < MaxFaults /\ faults' = faults + 1

-----------------------------------------------------------------------------
(* The registry.                                                           *)

disconnect(s) ==
    /\ online' = [online EXCEPT ![s] = 0]
    /\ signalled' = signalled \cup ({online[s]} \ {0})
    /\ UNCHANGED nextGen

\* Mutant: the clean-up removes whatever session is registered now.
mark_disconnectedAny(s, g) ==
    /\ online' = [online EXCEPT ![s] = 0]
    /\ UNCHANGED <<nextGen, signalled>>

mark_disconnected(s, g) ==
    /\ online' = [online EXCEPT ![s] = IF @ = g THEN 0 ELSE @]
    /\ UNCHANGED <<nextGen, signalled>>

is_current(s, g) == online[s] = g

-----------------------------------------------------------------------------
(* The site's side.                                                        *)

\* The issued material reaches the site (external): its own row is bound.
Handoff(s) ==
    /\ binding[s] = "bound" /\ local[s] = "none"
    /\ local' = [local EXCEPT ![s] = "bound"]
    /\ UNCHANGED <<bindingVars, connVars, registryVars, link, refusals, stopped, faults>>

\* Mutant: the engine does not stop at not_bound_abort_after.
DialForEver(s, c) ==
    /\ local[s] = "bound" /\ link[s] = NoConn
    /\ cpc[c] = "idle"
    /\ CGoto(c, "hello")
    /\ csite' = [csite EXCEPT ![c] = s]
    /\ link' = [link EXCEPT ![s] = c]
    /\ UNCHANGED <<bindingVars, cgen, cwatch, registryVars, local, refusals, stopped, faults>>

\* connect: TLS, WebSocket and the Hello.
Dial(s, c) ==
    /\ local[s] = "bound" /\ link[s] = NoConn /\ refusals[s] < Limit
    /\ cpc[c] = "idle"
    /\ CGoto(c, "hello")
    /\ csite' = [csite EXCEPT ![c] = s]
    /\ link' = [link EXCEPT ![s] = c]
    /\ UNCHANGED <<bindingVars, cgen, cwatch, registryVars, local, refusals, stopped, faults>>

\* The connection is lost on the site's side, or the site restarts.
LoseLink(s) ==
    /\ link[s] # NoConn /\ TakeFault
    /\ link' = [link EXCEPT ![s] = NoConn]
    /\ refusals' \in {refusals, [refusals EXCEPT ![s] = 0]}
    /\ UNCHANGED <<bindingVars, connVars, registryVars, local, stopped>>

\* The engine has returned NotBound: the runtime revokes the local row.  When
\* the lookup or the revocation fails, the task ends all the same.
Converge(s) ==
    /\ refusals[s] = Limit /\ local[s] = "bound" /\ s \notin stopped
    /\ \/ local' = [local EXCEPT ![s] = "revoked"] /\ UNCHANGED <<stopped, faults>>
       \/ stopped' = stopped \cup {s} /\ TakeFault /\ UNCHANGED local
    /\ UNCHANGED <<bindingVars, connVars, registryVars, link, refusals>>

\* Only a restart of the site starts its engine again.
SiteRestarts(s) ==
    /\ s \in stopped
    /\ stopped' = stopped \ {s}
    /\ refusals' = [refusals EXCEPT ![s] = 0]
    /\ UNCHANGED <<bindingVars, connVars, registryVars, link, local, faults>>

\* unbind_from_center, and the engine's poll that sees the revoked row.
Unbind(s) ==
    /\ local[s] = "bound"
    /\ local' = [local EXCEPT ![s] = "revoked"]
    /\ link' = [link EXCEPT ![s] = NoConn]
    /\ UNCHANGED <<bindingVars, connVars, registryVars, refusals, stopped, faults>>

-----------------------------------------------------------------------------
(* The accept and the connection task.                                     *)

\* CenterSessionAdmission::resolve: the certificate names its site as the
\* subject, and the newest row of its fingerprint decides.
Admissible(s) == NewestRow(fingerprint[s]) = s /\ binding[s] = "bound"

\* The answer reaches the site, or its end of the connection is gone and the
\* task finds out later; an engine that lost the answer counts nothing.
Admit(c) ==
    /\ cpc[c] = "hello"
    /\ LET s == csite[c]
       IN IF Admissible(s)
          THEN /\ CGoto(c, "admitted")
               /\ refusals' = [refusals EXCEPT ![s] = IF link[s] = c THEN 0 ELSE @]
               /\ UNCHANGED <<csite, cgen, cwatch, link>>
          ELSE /\ CEnd(c)
               /\ refusals' = [refusals EXCEPT ![s] = IF link[s] = c THEN @ + 1 ELSE @]
    /\ UNCHANGED <<bindingVars, registryVars, local, stopped, faults>>

\* The lookup failed: the connection ends without an answer.
AdmitFails(c) ==
    /\ cpc[c] = "hello" /\ TakeFault
    /\ CEnd(c)
    /\ UNCHANGED <<bindingVars, registryVars, local, refusals, stopped>>

Register(c) ==
    /\ cpc[c] = "admitted"
    /\ LET s == csite[c]
       IN IF online[s] # 0
          THEN CEnd(c) /\ UNCHANGED registryVars
          ELSE /\ nextGen < MaxGen
               /\ nextGen' = nextGen + 1
               /\ online' = [online EXCEPT ![s] = nextGen']
               /\ cgen' = [cgen EXCEPT ![c] = nextGen']
               /\ CGoto(c, "registered")
               /\ UNCHANGED <<csite, cwatch, link, signalled>>
    /\ UNCHANGED <<bindingVars, local, refusals, stopped, faults>>

\* disconnect_watch is its own lock of the registry.
Watch(c) ==
    /\ cpc[c] = "registered"
    /\ cwatch' = [cwatch EXCEPT ![c] = online[csite[c]]]
    /\ CGoto(c, "watched")
    /\ UNCHANGED <<bindingVars, csite, cgen, registryVars, siteVars, faults>>

\* Mutant: the task trusts the admission.
RecheckSkipped(c) ==
    /\ cpc[c] = "watched"
    /\ CGoto(c, "running")
    /\ UNCHANGED <<bindingVars, csite, cgen, cwatch, registryVars, siteVars, faults>>

\* center_binding_still_in_force; a failed read counts as not in force.
Recheck(c) ==
    /\ cpc[c] = "watched"
    /\ \/ /\ CGoto(c, IF binding[csite[c]] = "bound" THEN "running" ELSE "closing")
          /\ UNCHANGED faults
       \/ CGoto(c, "closing") /\ TakeFault
    /\ UNCHANGED <<bindingVars, csite, cgen, cwatch, registryVars, siteVars>>

Close(c) ==
    /\ cpc[c] = "closing"
    /\ disconnect(csite[c])
    /\ CEnd(c)
    /\ UNCHANGED <<bindingVars, local, refusals, stopped, faults>>

\* flush_outbox: an offer goes out while the session is the current one, and
\* the site's acknowledgement retires it.
Deliver(c) ==
    /\ cpc[c] = "running" /\ is_current(csite[c], cgen[c])
    /\ csite[c] \in offers /\ link[csite[c]] = c
    /\ offers' = offers \ {csite[c]}
    /\ UNCHANGED <<rowVars, gateVars, handlerVars, stray, ended,
                   connVars, registryVars, siteVars, faults>>

\* The engine returns: the disconnect signal, or a transport that is closed
\* or idle.  It removes its own entry.
EngineEnds(c) ==
    /\ cpc[c] = "running"
    /\ cwatch[c] \in signalled \/ link[csite[c]] # c
    /\ CGoto(c, "ending")
    /\ mark_disconnected(csite[c], cgen[c])
    /\ UNCHANGED <<bindingVars, csite, cgen, cwatch, siteVars, faults>>

\* The handler panics: only the guard is left to clean up.
EnginePanics(c) ==
    /\ cpc[c] = "running" /\ TakeFault
    /\ CGoto(c, "ending")
    /\ UNCHANGED <<bindingVars, csite, cgen, cwatch, registryVars, siteVars>>

\* Mutant: the guard is disarmed before the engine runs.
GuardDropsDisarmed(c) ==
    /\ cpc[c] = "ending"
    /\ CEnd(c)
    /\ UNCHANGED <<bindingVars, registryVars, local, refusals, stopped, faults>>

\* DisconnectOnDrop.
GuardDrops(c) ==
    /\ cpc[c] = "ending"
    /\ mark_disconnected(csite[c], cgen[c])
    /\ CEnd(c)
    /\ UNCHANGED <<bindingVars, local, refusals, stopped, faults>>

-----------------------------------------------------------------------------
(* The end of a revocation, and what may go wrong.                         *)

\* Mutant: the revocation leaves an established session alone.
RevokeEndsQuietly(h) ==
    /\ hpc[h] = "disconnect"
    /\ DropGate(hreq[h].site)
    /\ HReturn(h)
    /\ ended' = ended \cup {hreq[h].site}
    /\ UNCHANGED <<rowVars, offers, stray, connVars, registryVars,
                   siteVars, faults>>

RevokeEnds(h) ==
    /\ hpc[h] = "disconnect"
    /\ disconnect(hreq[h].site)
    /\ DropGate(hreq[h].site)
    /\ HReturn(h)
    /\ ended' = ended \cup {hreq[h].site}
    /\ UNCHANGED <<rowVars, offers, stray, connVars, siteVars, faults>>

\* A store call of a handler fails, or the request is cancelled (the caller
\* hangs up, or the timeout layer answers 408) while it waits.
HandlerStops(h) ==
    /\ hpc[h] # "idle" /\ TakeFault
    /\ HReturn(h)
    /\ UNCHANGED <<rowVars, offers, gateKey, stray, ended, connVars,
                   registryVars, siteVars>>

\* The center restarts: tasks, registry and gates are gone, rows stay.
CenterCrash ==
    /\ TakeFault
    /\ hpc' = [h \in Handlers |-> "idle"]
    /\ hreq' = [h \in Handlers |-> NoRequest]
    /\ holder' = [l \in Locks |-> NoOne]
    /\ gateKey' = [s \in Sites |-> 0]
    /\ cpc' = [c \in Conns |-> "idle"] /\ csite' = [c \in Conns |-> 0]
    /\ cgen' = [c \in Conns |-> 0] /\ cwatch' = [c \in Conns |-> 0]
    /\ online' = [s \in Sites |-> 0] /\ nextGen' = 0 /\ signalled' = {}
    /\ link' = [s \in Sites |-> NoConn]
    /\ UNCHANGED <<rowVars, offers, stray, ended, local, refusals, stopped>>

HandlerStep(h) ==
    \/ FindPrevious(h) \/ RetireOffers(h) \/ BindWithCode(h)
    \/ LockGate(h) \/ RevokeFind(h) \/ RevokeRow(h)
    \/ DispatchCheck(h) \/ DispatchSend(h)

Console ==
    \/ \E s \in Sites : CreateInstance(s) \/ CreateBinding(s) \/ Expire(s)
    \/ \E h \in Handlers : \/ BindLookup(h)
                           \/ TakeGate(h, "revoke")
                           \/ TakeGate(h, "dispatch")
                           \/ HandlerStep(h)

ConnStep(c) ==
    \/ Admit(c) \/ Register(c) \/ Watch(c) \/ Recheck(c) \/ Close(c)
    \/ EngineEnds(c) \/ GuardDrops(c)

Next ==
    \/ Console /\ UNCHANGED <<connVars, registryVars, siteVars, faults>>
    \/ \E h \in Handlers : RevokeEnds(h) \/ HandlerStops(h)
    \/ \E s \in Sites : \/ Handoff(s) \/ LoseLink(s) \/ Converge(s)
                        \/ SiteRestarts(s) \/ Unbind(s)
    \/ \E s \in Sites, c \in Conns : Dial(s, c)
    \/ \E c \in Conns : \/ ConnStep(c) \/ AdmitFails(c) \/ Deliver(c)
                        \/ EnginePanics(c)
    \/ CenterCrash

Spec == Init /\ [][Next]_vars

\* Every handler and connection task goes on (tokio tasks, and the store
\* answers or fails), the idle timeout ends a dead connection, and a bound
\* site dials for ever (connect_loop).
Fairness ==
    /\ \A h \in Handlers :
          WF_vars(\/ HandlerStep(h) /\ UNCHANGED <<connVars, registryVars, siteVars, faults>>
                  \/ RevokeEnds(h))
    /\ \A c \in Conns : WF_vars(ConnStep(c))
    /\ \A s \in Sites : WF_vars(Converge(s) \/ \E c \in Conns : Dial(s, c))

FairSpec == Spec /\ Fairness

-----------------------------------------------------------------------------
(* Properties.                                                             *)

\* A site identity holds at most one binding in force, although the flow
\* checks it in one store call and binds in another (bind_site,
\* bind_with_code).
FingerprintBoundOnce ==
    \A s, t \in Sites : binding[s] = "bound" /\ binding[t] = "bound" /\ s # t
                        => fingerprint[s] # fingerprint[t]

\* No offer is queued for a site whose binding is not in force: dispatch and
\* revocation run under one gate, although each takes it from a map whose
\* keys revocations drop.  The exception is a site with two revocations of
\* which one found it before its binding row was written: the other still
\* waits for a lock that later dispatches no longer use.
NoOfferAfterRevoke ==
    [][\A s \in offers' \ offers : binding[s] = "bound" \/ s \in stray]_vars

\* Two dispatches to one site are never past their binding check together;
\* the gate's key is dropped only when the site can take no dispatch any
\* more, with the same exception.
DispatchesAreSerial ==
    \A h, i \in Handlers :
        h # i /\ hpc[h] = "send" /\ hpc[i] = "send" /\ hreq[h].site = hreq[i].site
        => hreq[h].site \in stray

\* Once a revocation has returned, a session of the site that is still
\* running delivers nothing more and has its disconnect signal pending, in
\* whatever order the revocation met admission, registration and re-check
\* (run_center_connection).
RevokedIsOffline ==
    \A c \in Conns :
        cpc[c] = "running" /\ csite[c] \in ended
        => ~is_current(csite[c], cgen[c]) /\ cwatch[c] \in signalled

\* Every registry entry belongs to a task that will remove it, so a site can
\* never be refused as already connected for ever (DisconnectOnDrop).
EntryHasTask ==
    \A s \in Sites : online[s] # 0 =>
        \E c \in Conns : csite[c] = s /\ cgen[c] = online[s] /\ cpc[c] # "idle"

\* The clean-up of an ended connection, which runs twice, never removes the
\* entry of the connection that replaced it: a running session of a bound
\* site is registered.
RunningIsRegistered ==
    \A c \in Conns : cpc[c] = "running" /\ binding[csite[c]] = "bound"
                     => is_current(csite[c], cgen[c])

\* A site whose revocation has returned stops being bound on its own side
\* too: its session ends, its dials are refused and it converges.  The
\* exception is an engine task that ended without revoking the row: the site
\* no longer dials, and starts over when it is restarted.
RevokedSiteConverges ==
    \A s \in Sites : s \in ended ~> local[s] # "bound" \/ s \in stopped

\* What center_acceptor.rs says of a refusal with the reason not-bound: the
\* binding is not in force, so the site may converge its local row.
RefusedIsNotInForce ==
    [][\A s \in Sites : local[s] = "bound" /\ refusals'[s] > refusals[s]
                        => binding[s] # "bound"]_vars
=============================================================================
