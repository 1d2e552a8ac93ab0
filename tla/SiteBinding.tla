----------------------------- MODULE SiteBinding -----------------------------
(***************************************************************************)
(* The binding of sites at the center: registration, the one-time code,    *)
(* revocation, and the dispatch that may only address a bound site.  Web   *)
(* handlers run concurrently; each store call is a step.  A registration   *)
(* mints a fresh instance id with one binding row, so a row is named by    *)
(* its site, and sites are numbered in the order of their created_at.      *)
(***************************************************************************)
EXTENDS Naturals, FiniteSets

CONSTANTS
    Sites,          \* the instance ids, 1 .. n in order of registration
    Fingerprints,   \* the identities of the physical sites
    Handlers,       \* concurrent requests of the console
    NoOne           \* no fingerprint, no handler

ASSUME SitesAssumption == IsFiniteSet(Sites) /\ Sites = 1 .. Cardinality(Sites)
ASSUME HandlersAssumption == IsFiniteSet(Handlers)
ASSUME NoOneAssumption == NoOne \notin Fingerprints \cup Handlers

VARIABLES
    instance,       \* the sites with an instances row
    binding,        \* the state of the binding row of each site
    fingerprint,    \* the site fingerprint recorded on the row
    expired,        \* the sites whose code is past its time to live
    offers,         \* the sites with a pending offer in their outbox queue
    gateKey,        \* dispatch_gates: the lock object a site's key names
    holder,         \* the handler that holds a lock object
    hpc,            \* where each handler is
    hreq,           \* what the handler works on
    stray,          \* history: sites a revocation found without a row
    ended           \* history: sites whose revocation has returned

rowVars == <<instance, binding, fingerprint, expired>>
gateVars == <<gateKey, holder>>
handlerVars == <<hpc, hreq>>
bindingVars == <<rowVars, offers, gateVars, handlerVars, stray, ended>>

BindingStates == {"none", "pending", "bound", "revoked"}
Locks == 1 .. Cardinality(Handlers) + Cardinality(Sites)
HandlerPcs == {"idle", "previous", "retire", "consume",
               "lock", "find", "revoke", "disconnect", "check", "send"}
NoRequest == [kind |-> "none", site |-> 0, fp |-> NoOne, prev |-> 0, gate |-> 0]

BindingTypeOK ==
    /\ instance \subseteq Sites
    /\ binding \in [Sites -> BindingStates]
    /\ fingerprint \in [Sites -> Fingerprints \cup {NoOne}]
    /\ expired \subseteq Sites
    /\ offers \subseteq Sites
    /\ gateKey \in [Sites -> Locks \cup {0}]
    /\ holder \in [Locks -> Handlers \cup {NoOne}]
    /\ hpc \in [Handlers -> HandlerPcs]
    /\ hreq \in [Handlers -> [kind : {"none", "bind", "revoke", "dispatch"},
                              site : Sites \cup {0}, fp : Fingerprints \cup {NoOne},
                              prev : Sites \cup {0}, gate : Locks \cup {0}]]
    /\ stray \subseteq Sites /\ ended \subseteq Sites

BindingInit ==
    /\ instance = {} /\ expired = {} /\ offers = {}
    /\ binding = [s \in Sites |-> "none"]
    /\ fingerprint = [s \in Sites |-> NoOne]
    /\ gateKey = [s \in Sites |-> 0]
    /\ holder = [l \in Locks |-> NoOne]
    /\ hpc = [h \in Handlers |-> "idle"]
    /\ hreq = [h \in Handlers |-> NoRequest]
    /\ stray = {} /\ ended = {}

HGoto(h, next) == hpc' = [hpc EXCEPT ![h] = next] /\ UNCHANGED hreq

\* The handler answers (or is cancelled); a held gate is released.
HReturn(h) ==
    /\ hpc' = [hpc EXCEPT ![h] = "idle"]
    /\ hreq' = [hreq EXCEPT ![h] = NoRequest]
    /\ holder' = [l \in Locks |-> IF holder[l] = h THEN NoOne ELSE holder[l]]

-----------------------------------------------------------------------------
(* register_site: the instances row, then the pending binding.             *)

CreateInstance(s) ==
    /\ s \notin instance
    /\ \A t \in 1 .. s - 1 : t \in instance
    /\ instance' = instance \cup {s}
    /\ UNCHANGED <<binding, fingerprint, expired, offers, gateVars,
                   handlerVars, stray, ended>>

CreateBinding(s) ==
    /\ s \in instance /\ binding[s] = "none"
    /\ binding' = [binding EXCEPT ![s] = "pending"]
    /\ UNCHANGED <<instance, fingerprint, expired, offers, gateVars,
                   handlerVars, stray, ended>>

\* BINDING_CODE_TTL passes.
Expire(s) ==
    /\ binding[s] = "pending" /\ s \notin expired
    /\ expired' = expired \cup {s}
    /\ UNCHANGED <<instance, binding, fingerprint, offers, gateVars,
                   handlerVars, stray, ended>>

-----------------------------------------------------------------------------
(* bind_site.                                                              *)

\* find_binding_by_site_fingerprint: the row with the newest created_at that
\* records the fingerprint, whatever its state; 0 when there is none.
NewestRow(f) ==
    LET rows == {s \in Sites : fingerprint[s] = f}
    IN IF rows = {} THEN 0 ELSE CHOOSE s \in rows : \A t \in rows : t <= s

\* The code is matched to its pending row and verified at the time of the
\* request; the later steps verify it at that same time.
BindLookup(h) ==
    /\ hpc[h] = "idle"
    /\ \E s \in Sites, f \in Fingerprints :
          /\ binding[s] = "pending" /\ s \notin expired
          /\ hreq' = [hreq EXCEPT ![h] = [NoRequest EXCEPT !.kind = "bind",
                                                           !.site = s, !.fp = f]]
    /\ hpc' = [hpc EXCEPT ![h] = "previous"]
    /\ UNCHANGED <<rowVars, offers, gateVars, stray, ended>>

\* A fingerprint whose newest row is in force is refused; a revoked one has
\* its offers retired first.
FindPrevious(h) ==
    /\ hpc[h] = "previous"
    /\ LET p == NewestRow(hreq[h].fp)
       IN \/ p = 0 /\ HGoto(h, "consume") /\ UNCHANGED holder
          \/ p # 0 /\ binding[p] = "bound" /\ HReturn(h)
          \/ /\ p # 0 /\ binding[p] # "bound"
             /\ hpc' = [hpc EXCEPT ![h] = "retire"]
             /\ hreq' = [hreq EXCEPT ![h].prev = p]
             /\ UNCHANGED holder
    /\ UNCHANGED <<rowVars, offers, gateKey, stray, ended>>

\* retire_site_offers is best effort: a failed read or write is logged.
RetireOffers(h) ==
    /\ hpc[h] = "retire"
    /\ offers' \in {offers, offers \ {hreq[h].prev}}
    /\ HGoto(h, "consume")
    /\ UNCHANGED <<rowVars, gateVars, stray, ended>>

\* Mutant: the transaction trusts the flow's own check of the fingerprint.
BindWithCodeUnchecked(h) ==
    /\ hpc[h] = "consume"
    /\ LET s == hreq[h].site
       IN IF binding[s] = "pending"
          THEN /\ binding' = [binding EXCEPT ![s] = "bound"]
               /\ fingerprint' = [fingerprint EXCEPT ![s] = hreq[h].fp]
          ELSE UNCHANGED <<binding, fingerprint>>
    /\ HReturn(h)
    /\ UNCHANGED <<instance, expired, offers, gateKey, stray, ended>>

\* bind_with_code: one transaction re-reads the row and looks for another
\* row in force with the fingerprint.
BindWithCode(h) ==
    /\ hpc[h] = "consume"
    /\ LET s == hreq[h].site
           competing == {t \in Sites \ {s} : fingerprint[t] = hreq[h].fp
                                             /\ binding[t] = "bound"}
       IN IF binding[s] = "pending" /\ competing = {}
          THEN /\ binding' = [binding EXCEPT ![s] = "bound"]
               /\ fingerprint' = [fingerprint EXCEPT ![s] = hreq[h].fp]
          ELSE UNCHANGED <<binding, fingerprint>>
    /\ HReturn(h)
    /\ UNCHANGED <<instance, expired, offers, gateKey, stray, ended>>

-----------------------------------------------------------------------------
(* The per-site gate shared by dispatch and revocation.                    *)

FreeLocks == {l \in Locks : \A s \in Sites : gateKey[s] # l}
             \cap {l \in Locks : \A h \in Handlers : hreq[h].gate # l}

\* gates.entry(site).or_insert_with(...).clone()
TakeGate(h, kind) ==
    /\ hpc[h] = "idle"
    /\ \E s \in instance :
          LET fresh == CHOOSE l \in FreeLocks : \A m \in FreeLocks : l <= m
              lock == IF gateKey[s] # 0 THEN gateKey[s] ELSE fresh
          IN /\ gateKey' = [gateKey EXCEPT ![s] = lock]
             /\ hreq' = [hreq EXCEPT ![h] = [NoRequest EXCEPT !.kind = kind,
                                                  !.site = s, !.gate = lock]]
    /\ hpc' = [hpc EXCEPT ![h] = "lock"]
    /\ UNCHANGED <<rowVars, offers, holder, stray, ended>>

LockGate(h) ==
    /\ hpc[h] = "lock"
    /\ holder[hreq[h].gate] = NoOne
    /\ holder' = [holder EXCEPT ![hreq[h].gate] = h]
    /\ HGoto(h, IF hreq[h].kind = "revoke" THEN "find" ELSE "check")
    /\ UNCHANGED <<rowVars, offers, gateKey, stray, ended>>

DropGate(s) == gateKey' = [gateKey EXCEPT ![s] = 0]

-----------------------------------------------------------------------------
(* revoke_center_binding: the last step, which ends the session, is in     *)
(* CenterSessions.                                                         *)

\* Mutant: the gate is let go when the row is found, before it is revoked.
RevokeFindLetsGo(h) ==
    /\ hpc[h] = "find"
    /\ holder' = [holder EXCEPT ![hreq[h].gate] = NoOne]
    /\ HGoto(h, IF binding[hreq[h].site] = "none" THEN "idle" ELSE "revoke")
    /\ UNCHANGED <<rowVars, offers, gateKey, stray, ended>>

RevokeFind(h) ==
    /\ hpc[h] = "find"
    /\ LET s == hreq[h].site
       IN IF binding[s] = "none"
          THEN HReturn(h) /\ DropGate(s) /\ stray' = stray \cup {s}
          ELSE HGoto(h, "revoke") /\ UNCHANGED <<gateVars, stray>>
    /\ UNCHANGED <<rowVars, offers, ended>>

RevokeRow(h) ==
    /\ hpc[h] = "revoke"
    /\ binding' = [binding EXCEPT ![hreq[h].site] = "revoked"]
    /\ expired' = expired \ {hreq[h].site}
    /\ HGoto(h, "disconnect")
    /\ UNCHANGED <<instance, fingerprint, offers, gateVars, stray, ended>>

-----------------------------------------------------------------------------
(* dispatch_center_operation.                                              *)

DispatchCheck(h) ==
    /\ hpc[h] = "check"
    /\ IF binding[hreq[h].site] = "bound"
       THEN HGoto(h, "send") /\ UNCHANGED holder
       ELSE HReturn(h)
    /\ UNCHANGED <<rowVars, offers, gateKey, stray, ended>>

\* Mutant: the gate's key is dropped with every finished dispatch.
DispatchSendDropsGate(h) ==
    /\ hpc[h] = "send"
    /\ offers' \in {offers, offers \cup {hreq[h].site}}
    /\ DropGate(hreq[h].site)
    /\ HReturn(h)
    /\ UNCHANGED <<rowVars, stray, ended>>

\* The dispatch proper (module CenterDispatch) queues an offer, or refuses
\* the request or answers it from an earlier one.
DispatchSend(h) ==
    /\ hpc[h] = "send"
    /\ offers' \in {offers, offers \cup {hreq[h].site}}
    /\ HReturn(h)
    /\ UNCHANGED <<rowVars, gateKey, stray, ended>>
=============================================================================
