---------------------------- MODULE SessionProofs ----------------------------
(***************************************************************************)
(* Proofs about site bindings and the center's sessions, for any number of *)
(* sites, fingerprints, handlers, connections, registrations and faults.   *)
(*                                                                         *)
(* Three inductive invariants, each resting on the ones before it: Control *)
(* (types, and what each program counter says of its handler, connection   *)
(* or site), Gate (who holds the lock of a site) and Registry (which       *)
(* connection an entry of the registry belongs to).                        *)
(***************************************************************************)
EXTENDS CenterSessions, NumberLemmas, TLAPS, FiniteSetTheorems

-----------------------------------------------------------------------------
(* The control invariant.                                                  *)

HoldingPcs == {"find", "revoke", "disconnect", "check", "send"}
GatedPcs == HoldingPcs \cup {"lock"}
BindingPcs == {"previous", "retire", "consume"}

HandlerOK(h) ==
    /\ hpc[h] = "idle" => hreq[h].gate = 0
    /\ hpc[h] \in BindingPcs => hreq[h].site \in Sites /\ hreq[h].gate = 0
    /\ hpc[h] \in GatedPcs => hreq[h].site \in Sites /\ hreq[h].gate \in Locks

NewPcs == {"idle", "hello", "admitted"}
LivePcs == {"registered", "watched", "closing", "running"}

ConnOK(c) ==
    /\ cpc[c] # "idle" => csite[c] \in Sites
    /\ cpc[c] \in NewPcs => cgen[c] = 0
    /\ cpc[c] \notin NewPcs => cgen[c] \in 1 .. nextGen

\* A site's engine is on a connection that it dialled, and an engine that
\* waits for its answer has not given up.
LinkOK(s) ==
    link[s] # NoConn =>
        /\ csite[link[s]] = s /\ cpc[link[s]] # "idle"
        /\ cpc[link[s]] = "hello" => refusals[s] < Limit

HandlerControl == BindingTypeOK /\ \A h \in Handlers : HandlerOK(h)

ConnTypeOK ==
    /\ cpc \in [Conns -> ConnPcs]
    /\ csite \in [Conns -> Sites \cup {0}]
    /\ cgen \in [Conns -> 0 .. MaxGen] /\ cwatch \in [Conns -> 0 .. MaxGen]
    /\ online \in [Sites -> 0 .. MaxGen]
    /\ nextGen \in 0 .. MaxGen /\ signalled \subseteq 1 .. MaxGen
    /\ link \in [Sites -> Conns \cup {NoConn}]
    /\ local \in [Sites -> {"none", "bound", "revoked"}]
    /\ refusals \in [Sites -> 0 .. Limit]
    /\ stopped \subseteq Sites
    /\ faults \in 0 .. MaxFaults

ConnControl ==
    /\ ConnTypeOK
    /\ \A c \in Conns : ConnOK(c)
    /\ \A s \in Sites : LinkOK(s)

Control == HandlerControl /\ ConnControl

-----------------------------------------------------------------------------
(* The gates.                                                              *)

\* A revocation past its write, and one that has returned, left the row
\* revoked.
RevokedStays ==
    /\ \A s \in ended : binding[s] = "revoked"
    /\ \A h \in Handlers : hpc[h] = "disconnect" => binding[hreq[h].site] = "revoked"

HolderHolds == \A h \in Handlers : hpc[h] \in HoldingPcs => holder[hreq[h].gate] = h

\* While a site can still take a dispatch, every handler that works on it or
\* waits for it has the lock its key names.
OneGate ==
    \A h \in Handlers :
        hpc[h] \in GatedPcs /\ hreq[h].site \notin ended \cup stray
        => hreq[h].gate = gateKey[hreq[h].site]

SendIsBound ==
    \A h \in Handlers :
        hpc[h] = "send" => binding[hreq[h].site] = "bound" \/ hreq[h].site \in stray

Gate == RevokedStays /\ HolderHolds /\ OneGate /\ SendIsBound

-----------------------------------------------------------------------------
(* The registry.                                                           *)

GenerationsDiffer ==
    \A c, d \in Conns : c # d /\ cgen[c] # 0 => cgen[c] # cgen[d]

\* An admitted connection's site was bound once, so it is never bound anew.
AdmittedWasBound ==
    \A c \in Conns :
        cpc[c] \notin {"idle", "hello"} => binding[csite[c]] \in {"bound", "revoked"}

\* A connection in use lost its entry only with its disconnect signal, and
\* never while its site is bound.
LiveIsKnown ==
    \A c \in Conns :
        cpc[c] \in LivePcs =>
            /\ online[csite[c]] = cgen[c] \/ cgen[c] \in signalled
            /\ binding[csite[c]] = "bound" => online[csite[c]] = cgen[c]

\* A session runs with the signal of its own generation, although it fetched
\* the signal after the registration.
WatchIsOwn ==
    \A c \in Conns :
        /\ cpc[c] = "watched" /\ binding[csite[c]] = "bound" => cwatch[c] = cgen[c]
        /\ cpc[c] = "running" => cwatch[c] = cgen[c]

EndedIsNotCurrent ==
    \A c \in Conns : cpc[c] = "running" /\ csite[c] \in ended
                     => ~is_current(csite[c], cgen[c])

Registry ==
    /\ GenerationsDiffer /\ EntryHasTask /\ AdmittedWasBound
    /\ LiveIsKnown /\ WatchIsOwn /\ EndedIsNotCurrent

IInv == Control /\ Gate /\ Registry

-----------------------------------------------------------------------------
(* Lemmas about the operators.                                             *)

\* A finite set's image is no larger than the set.
LEMMA ImageCardinality ==
    ASSUME NEW S, IsFiniteSet(S), NEW T, NEW f \in [S -> T]
    PROVE  /\ IsFiniteSet({f[x] : x \in S})
           /\ Cardinality({f[x] : x \in S}) <= Cardinality(S)
<1> DEFINE R == {f[x] : x \in S}
<1>1. f \in Surjection(S, R)
  BY DEF Surjection
<1> QED
  BY <1>1, FS_Surjection

\* The newest row of a fingerprint, when there is one, is the row of a site.
LEMMA NewestRowType ==
    ASSUME NEW f
    PROVE  NewestRow(f) \in Sites \cup {0}
<1> DEFINE rows == {s \in Sites : fingerprint[s] = f}
           n == Cardinality(Sites)
<1>1. n \in Nat /\ Sites = 1 .. n
  BY SitesAssumption, FS_CardinalityType
<1> HIDE DEF n
<1>2. CASE rows = {}
  BY <1>2 DEF NewestRow
<1>3. CASE rows # {}
  <2> DEFINE T == {k \in Nat : \E s \in rows : k = n - s}
  <2>1. T \in SUBSET Nat /\ T # {}
    <3>1. PICK s \in rows : TRUE
      BY <1>3
    <3>2. n - s \in Nat
      BY <1>1, <3>1
    <3> QED
      BY <3>1, <3>2
  <2>2. PICK x \in T : \A y \in T : x <= y
    BY <2>1, LeastNumber
  <2>3. PICK s \in rows : x = n - s
    BY <2>2
  <2>4. \A t \in rows : n - t \in T
    <3>1. \A t \in rows : n - t \in Nat
      BY <1>1
    <3> QED
      BY <3>1
  <2>5. \A t \in rows : t <= s
    <3>1. \A t \in rows : t \in Int
      BY <1>1
    <3>2. \A t \in rows : x <= n - t
      BY <2>2, <2>4
    <3> HIDE DEF rows, T
    <3> QED
      BY <1>1, <2>3, <3>1, <3>2
  <2>6. NewestRow(f) = CHOOSE u \in rows : \A t \in rows : t <= u
    BY <1>3 DEF NewestRow
  <2> QED
    BY <2>3, <2>5, <2>6
<1> QED
  BY <1>2, <1>3

\* There are enough lock objects: one that is neither in the map nor held by
\* a request is free whenever a key is missing.
LEMMA FreshLock ==
    ASSUME NEW s \in Sites, NEW h \in Handlers,
           gateKey \in [Sites -> Locks \cup {0}], gateKey[s] = 0,
           \A i \in Handlers : hreq[i].gate \in Locks \cup {0}, hreq[h].gate = 0
    PROVE  (CHOOSE l \in FreeLocks : \A m \in FreeLocks : l <= m) \in Locks
<1> DEFINE nh == Cardinality(Handlers)
           ns == Cardinality(Sites)
           others == Sites \ {s}
           requests == Handlers \ {h}
           keys == [t \in others |-> gateKey[t]]
           gates == [i \in requests |-> hreq[i].gate]
           A == {keys[t] : t \in others}
           B == {gates[i] : i \in requests}
<1>1. nh \in Nat /\ ns \in Nat /\ IsFiniteSet(Sites) /\ IsFiniteSet(Handlers)
  BY SitesAssumption, HandlersAssumption, FS_CardinalityType
<1>2. /\ IsFiniteSet(others) /\ Cardinality(others) = ns - 1
      /\ IsFiniteSet(requests) /\ Cardinality(requests) = nh - 1
  BY <1>1, FS_RemoveElement
<1>3. IsFiniteSet(A) /\ Cardinality(A) <= ns - 1 /\ IsFiniteSet(B) /\ Cardinality(B) <= nh - 1
  <2>1. keys \in [others -> Locks \cup {0}] /\ gates \in [requests -> Locks \cup {0}]
    OBVIOUS
  <2> HIDE DEF keys, gates, others, requests
  <2>2. IsFiniteSet(A) /\ Cardinality(A) <= Cardinality(others)
    BY <1>2, <2>1, ImageCardinality
  <2>3. IsFiniteSet(B) /\ Cardinality(B) <= Cardinality(requests)
    BY <1>2, <2>1, ImageCardinality
  <2> QED
    BY <1>2, <2>2, <2>3
<1>4. IsFiniteSet(A \cup B) /\ Cardinality(A \cup B) < nh + ns
  <2> HIDE DEF A, B
  <2>1. IsFiniteSet(A \cap B) /\ Cardinality(A \cap B) \in Nat
        /\ Cardinality(A) \in Nat /\ Cardinality(B) \in Nat
    BY <1>3, FS_Intersection, FS_CardinalityType, Zenon
  <2>2. /\ IsFiniteSet(A \cup B)
        /\ Cardinality(A \cup B) = Cardinality(A) + Cardinality(B) - Cardinality(A \cap B)
    BY <1>3, FS_Union, Zenon
  <2> QED
    BY <1>1, <1>3, <2>1, <2>2
<1>5. IsFiniteSet(Locks) /\ Cardinality(Locks) = nh + ns
  <2>1. 1 \in Int /\ nh + ns \in Int /\ nh + ns \in Nat
    BY <1>1
  <2> QED
    BY <2>1, FS_Interval DEF Locks
<1>6. FreeLocks # {}
  <2> SUFFICES ASSUME FreeLocks = {} PROVE FALSE
    OBVIOUS
  <2>1. ASSUME NEW l \in Locks PROVE l \in A \cup B
    <3>1. l # 0
      BY <1>1 DEF Locks
    <3>2. (\E t \in Sites : gateKey[t] = l) \/ (\E i \in Handlers : hreq[i].gate = l)
      BY DEF FreeLocks
    <3> QED
      BY <3>1, <3>2
  <2>2. Locks \subseteq A \cup B
    BY <2>1
  <2>3. Cardinality(Locks) <= Cardinality(A \cup B)
    BY <1>4, <2>2, FS_Subset
  <2>4. Cardinality(A \cup B) \in Nat
    BY <1>4, FS_CardinalityType
  <2> QED
    BY <1>1, <1>4, <1>5, <2>3, <2>4
<1>7. FreeLocks \in SUBSET Nat /\ FreeLocks \subseteq Locks
  BY <1>1 DEF FreeLocks, Locks
<1>8. \E l \in FreeLocks : \A m \in FreeLocks : l <= m
  BY <1>6, <1>7, LeastNumber
<1> QED
  BY <1>7, <1>8

-----------------------------------------------------------------------------
(* The control invariant is inductive.                                     *)

LEMMA ControlInit == Init => Control
<1> SUFFICES ASSUME Init PROVE Control
  OBVIOUS
<1>1. HandlerControl
  BY DEF Init, BindingInit, HandlerControl, BindingTypeOK, HandlerOK, NoRequest,
     BindingStates, HandlerPcs, BindingPcs, GatedPcs, HoldingPcs
<1>2. ConnControl
  BY SessionBoundsAssumption DEF Init, ConnControl, ConnTypeOK, ConnOK, LinkOK, ConnPcs, NewPcs
<1> QED
  BY <1>1, <1>2 DEF Control

RequestType == [kind : {"none", "bind", "revoke", "dispatch"},
                site : Sites \cup {0}, fp : Fingerprints \cup {NoOne},
                prev : Sites \cup {0}, gate : Locks \cup {0}]

\* A step of one handler, in terms of where it goes and with which request.
LEMMA HandlerStepControl ==
    ASSUME HandlerControl, NEW h \in Handlers, NEW p \in HandlerPcs, NEW q \in RequestType,
           hpc' = [hpc EXCEPT ![h] = p], hreq' = [hreq EXCEPT ![h] = q],
           p = "idle" => q.gate = 0,
           p \in BindingPcs => q.site \in Sites /\ q.gate = 0,
           p \in GatedPcs => q.site \in Sites /\ q.gate \in Locks
    PROVE  /\ hpc' \in [Handlers -> HandlerPcs] /\ hreq' \in [Handlers -> RequestType]
           /\ \A i \in Handlers : HandlerOK(i)'
<1>1. hpc' \in [Handlers -> HandlerPcs] /\ hreq' \in [Handlers -> RequestType]
  BY DEF HandlerControl, BindingTypeOK, RequestType
<1>2. hpc'[h] = p /\ hreq'[h] = q
  BY DEF HandlerControl, BindingTypeOK
<1>3. HandlerOK(h)'
  BY <1>2 DEF HandlerOK
<1>4. \A i \in Handlers \ {h} : hpc'[i] = hpc[i] /\ hreq'[i] = hreq[i]
  BY DEF HandlerControl, BindingTypeOK
<1>5. \A i \in Handlers \ {h} : HandlerOK(i)'
  BY <1>4 DEF HandlerControl, HandlerOK
<1> QED
  BY <1>1, <1>3, <1>5

LEMMA ReturnControl ==
    ASSUME HandlerControl, NEW h \in Handlers, HReturn(h)
    PROVE  /\ hpc' \in [Handlers -> HandlerPcs] /\ hreq' \in [Handlers -> RequestType]
           /\ holder' \in [Locks -> Handlers \cup {NoOne}]
           /\ \A i \in Handlers : HandlerOK(i)'
<1>1. /\ NoRequest \in RequestType /\ NoRequest.gate = 0 /\ "idle" \in HandlerPcs
      /\ "idle" \notin BindingPcs /\ "idle" \notin GatedPcs
  BY DEF NoRequest, RequestType, HandlerPcs, BindingPcs, GatedPcs, HoldingPcs
<1>2. /\ hpc' \in [Handlers -> HandlerPcs] /\ hreq' \in [Handlers -> RequestType]
      /\ \A i \in Handlers : HandlerOK(i)'
  BY <1>1, HandlerStepControl DEF HReturn
<1>3. holder' \in [Locks -> Handlers \cup {NoOne}]
  BY DEF HReturn, HandlerControl, BindingTypeOK
<1> QED
  BY <1>2, <1>3

LEMMA GotoControl ==
    ASSUME HandlerControl, NEW h \in Handlers, NEW p \in HandlerPcs, HGoto(h, p),
           p # "idle", p \in BindingPcs => hpc[h] \in BindingPcs,
           p \in GatedPcs => hpc[h] \in GatedPcs
    PROVE  /\ hpc' \in [Handlers -> HandlerPcs] /\ hreq' \in [Handlers -> RequestType]
           /\ \A i \in Handlers : HandlerOK(i)'
<1>1. hreq[h] \in RequestType /\ hreq' = [hreq EXCEPT ![h] = hreq[h]]
  BY DEF HGoto, HandlerControl, BindingTypeOK, RequestType
<1>2. /\ p \in BindingPcs => hreq[h].site \in Sites /\ hreq[h].gate = 0
      /\ p \in GatedPcs => hreq[h].site \in Sites /\ hreq[h].gate \in Locks
  BY DEF HandlerControl, HandlerOK
<1> QED
  BY <1>1, <1>2, HandlerStepControl DEF HGoto

\* Registration, binding and revocation of rows.
LEMMA RowControl ==
    ASSUME HandlerControl,
           NEW s \in Sites, CreateInstance(s) \/ CreateBinding(s) \/ Expire(s)
    PROVE  HandlerControl'
<1> USE DEF CreateInstance, CreateBinding, Expire, gateVars, handlerVars
<1>1. BindingTypeOK'
  BY DEF HandlerControl, BindingTypeOK, BindingStates
<1>2. \A h \in Handlers : HandlerOK(h)'
  BY DEF HandlerControl, HandlerOK
<1> QED
  BY <1>1, <1>2 DEF HandlerControl

LEMMA BindControl ==
    ASSUME HandlerControl, NEW h \in Handlers,
           BindLookup(h) \/ FindPrevious(h) \/ RetireOffers(h) \/ BindWithCode(h)
    PROVE  HandlerControl'
<1> USE DEF rowVars, gateVars, BindingPcs, GatedPcs, HoldingPcs
<1>1. CASE BindLookup(h)
  <2>1. PICK s \in Sites, f \in Fingerprints :
           hreq' = [hreq EXCEPT ![h] = [NoRequest EXCEPT !.kind = "bind",
                                                         !.site = s, !.fp = f]]
    BY <1>1 DEF BindLookup
  <2> DEFINE q == [NoRequest EXCEPT !.kind = "bind", !.site = s, !.fp = f]
  <2>2. q \in RequestType /\ q.site = s /\ q.gate = 0
    BY DEF RequestType, NoRequest
  <2>3. hpc' = [hpc EXCEPT ![h] = "previous"] /\ "previous" \in HandlerPcs
    BY <1>1 DEF BindLookup, HandlerPcs
  <2> HIDE DEF q
  <2>4. /\ hpc' \in [Handlers -> HandlerPcs] /\ hreq' \in [Handlers -> RequestType]
        /\ \A i \in Handlers : HandlerOK(i)'
    BY <2>1, <2>2, <2>3, HandlerStepControl DEF q
  <2> QED
    BY <1>1, <2>4 DEF BindLookup, HandlerControl, BindingTypeOK, RequestType
<1>2. CASE FindPrevious(h)
  <2> DEFINE p == NewestRow(hreq[h].fp)
  <2>1. p \in Sites \cup {0}
    BY NewestRowType
  <2>2. hpc[h] = "previous" /\ UNCHANGED <<rowVars, offers, gateKey, stray, ended>>
    BY <1>2 DEF FindPrevious
  <2>3. CASE HGoto(h, "consume") /\ UNCHANGED holder
    <3>1. /\ hpc' \in [Handlers -> HandlerPcs] /\ hreq' \in [Handlers -> RequestType]
          /\ \A i \in Handlers : HandlerOK(i)'
      BY <2>2, <2>3, GotoControl DEF HandlerPcs
    <3> QED
      BY <2>2, <2>3, <3>1 DEF HandlerControl, BindingTypeOK, RequestType
  <2>4. CASE HReturn(h)
    BY <2>2, <2>4, ReturnControl DEF HandlerControl, BindingTypeOK, RequestType
  <2>5. CASE /\ p # 0 /\ hpc' = [hpc EXCEPT ![h] = "retire"]
             /\ hreq' = [hreq EXCEPT ![h].prev = p] /\ UNCHANGED holder
    <3> DEFINE q == [hreq[h] EXCEPT !.prev = p]
    <3>1. hreq[h] \in RequestType /\ hreq[h].site \in Sites /\ hreq[h].gate = 0
      BY <2>2 DEF HandlerControl, HandlerOK, BindingTypeOK, RequestType
    <3> HIDE DEF p
    <3>2. q \in RequestType /\ q.site \in Sites /\ q.gate = 0
      BY <2>1, <3>1 DEF RequestType
    <3>3. hreq' = [hreq EXCEPT ![h] = q] /\ "retire" \in HandlerPcs
      BY <2>5 DEF HandlerPcs
    <3> HIDE DEF q
    <3>4. /\ hpc' \in [Handlers -> HandlerPcs] /\ hreq' \in [Handlers -> RequestType]
          /\ \A i \in Handlers : HandlerOK(i)'
      BY <2>5, <3>2, <3>3, HandlerStepControl
    <3> QED
      BY <2>2, <2>5, <3>4 DEF HandlerControl, BindingTypeOK, RequestType
  <2> QED
    BY <1>2, <2>3, <2>4, <2>5 DEF FindPrevious
<1>3. CASE RetireOffers(h)
  <2>1. /\ hpc' \in [Handlers -> HandlerPcs] /\ hreq' \in [Handlers -> RequestType]
        /\ \A i \in Handlers : HandlerOK(i)'
    BY <1>3, GotoControl DEF RetireOffers, HandlerPcs
  <2> QED
    BY <1>3, <2>1 DEF RetireOffers, HandlerControl, BindingTypeOK, RequestType
<1>4. CASE BindWithCode(h)
  <2>1. HReturn(h) /\ UNCHANGED <<instance, expired, offers, gateKey, stray, ended>>
    BY <1>4 DEF BindWithCode
  <2>2. hreq[h].fp \in Fingerprints \cup {NoOne}
    BY DEF HandlerControl, BindingTypeOK
  <2>3. binding' \in [Sites -> BindingStates] /\ fingerprint' \in [Sites -> Fingerprints \cup {NoOne}]
    BY <1>4, <2>2 DEF BindWithCode, HandlerControl, BindingTypeOK, BindingStates
  <2> QED
    BY <2>1, <2>3, ReturnControl DEF HandlerControl, BindingTypeOK, RequestType
<1> QED
  BY <1>1, <1>2, <1>3, <1>4

LEMMA TakeGateControl ==
    ASSUME HandlerControl, NEW h \in Handlers, NEW kind \in {"revoke", "dispatch"},
           TakeGate(h, kind)
    PROVE  HandlerControl'
<1> DEFINE fresh == CHOOSE l \in FreeLocks : \A m \in FreeLocks : l <= m
<1>1. PICK s \in instance :
         LET lock == IF gateKey[s] # 0 THEN gateKey[s] ELSE fresh
         IN /\ gateKey' = [gateKey EXCEPT ![s] = lock]
            /\ hreq' = [hreq EXCEPT ![h] = [NoRequest EXCEPT !.kind = kind,
                                                 !.site = s, !.gate = lock]]
  BY DEF TakeGate
<1> DEFINE lock == IF gateKey[s] # 0 THEN gateKey[s] ELSE fresh
           q == [NoRequest EXCEPT !.kind = kind, !.site = s, !.gate = lock]
<1>2. s \in Sites
  BY DEF HandlerControl, BindingTypeOK
<1>3. lock \in Locks
  <2>1. CASE gateKey[s] # 0
    BY <1>2, <2>1 DEF HandlerControl, BindingTypeOK
  <2>2. CASE gateKey[s] = 0
    <3>1. gateKey \in [Sites -> Locks \cup {0}] /\ \A i \in Handlers : hreq[i].gate \in Locks \cup {0}
      BY DEF HandlerControl, BindingTypeOK
    <3>2. hreq[h].gate = 0
      BY DEF TakeGate, HandlerControl, HandlerOK
    <3> QED
      BY <1>2, <2>2, <3>1, <3>2, FreshLock
  <2> QED
    BY <2>1, <2>2
<1> HIDE DEF lock
<1>4. /\ gateKey' = [gateKey EXCEPT ![s] = lock] /\ hreq' = [hreq EXCEPT ![h] = q]
      /\ hpc' = [hpc EXCEPT ![h] = "lock"] /\ "lock" \in HandlerPcs
      /\ UNCHANGED <<rowVars, offers, holder, stray, ended>>
  BY <1>1 DEF TakeGate, HandlerPcs, lock
<1>5. q \in RequestType /\ q.site = s /\ q.gate = lock
  BY <1>2, <1>3 DEF RequestType, NoRequest
<1> HIDE DEF q
<1>6. /\ hpc' \in [Handlers -> HandlerPcs] /\ hreq' \in [Handlers -> RequestType]
      /\ \A i \in Handlers : HandlerOK(i)'
  BY <1>2, <1>3, <1>4, <1>5, HandlerStepControl DEF BindingPcs, GatedPcs
<1> QED
  BY <1>2, <1>3, <1>4, <1>6 DEF HandlerControl, BindingTypeOK, RequestType, rowVars

\* The rest of a revocation or dispatch.
LEMMA GatedControl ==
    ASSUME HandlerControl, NEW h \in Handlers,
           \/ LockGate(h) \/ RevokeFind(h) \/ RevokeRow(h) \/ DispatchCheck(h)
           \/ DispatchSend(h) \/ RevokeEnds(h) \/ HandlerStops(h)
    PROVE  HandlerControl'
<1> USE DEF rowVars, gateVars, GatedPcs, HoldingPcs, BindingPcs
<1> DEFINE Done == /\ hpc' \in [Handlers -> HandlerPcs]
                   /\ hreq' \in [Handlers -> RequestType]
                   /\ \A i \in Handlers : HandlerOK(i)'
<1>0. ASSUME NEW p \in HandlerPcs, HGoto(h, p), p \in HoldingPcs, hpc[h] \in GatedPcs
      PROVE  Done
  BY <1>0, GotoControl
<1>1. ASSUME HReturn(h) PROVE Done /\ holder' \in [Locks -> Handlers \cup {NoOne}]
  BY <1>1, ReturnControl
<1>2. hpc[h] \in GatedPcs => hreq[h].site \in Sites /\ hreq[h].gate \in Locks
  BY DEF HandlerControl, HandlerOK
<1> HIDE DEF Done
<1>3. CASE LockGate(h)
  <2>1. Done
    BY <1>0, <1>3 DEF LockGate, HandlerPcs
  <2> QED
    BY <1>2, <1>3, <2>1 DEF LockGate, Done, HandlerControl, BindingTypeOK, RequestType
<1>4. CASE RevokeFind(h)
  <2>1. Done /\ holder' \in [Locks -> Handlers \cup {NoOne}]
    BY <1>0, <1>1, <1>4 DEF RevokeFind, HandlerPcs, HandlerControl, BindingTypeOK
  <2> QED
    BY <1>2, <1>4, <2>1 DEF RevokeFind, DropGate, Done, HandlerControl, BindingTypeOK, RequestType
<1>5. CASE RevokeRow(h)
  <2>1. Done
    BY <1>0, <1>5 DEF RevokeRow, HandlerPcs
  <2> QED
    BY <1>5, <2>1 DEF RevokeRow, Done, HandlerControl, BindingTypeOK, RequestType, BindingStates
<1>6. CASE DispatchCheck(h)
  <2>1. Done /\ holder' \in [Locks -> Handlers \cup {NoOne}]
    BY <1>0, <1>1, <1>6 DEF DispatchCheck, HandlerPcs, HandlerControl, BindingTypeOK
  <2> QED
    BY <1>6, <2>1 DEF DispatchCheck, Done, HandlerControl, BindingTypeOK, RequestType
<1>7. CASE DispatchSend(h)
  BY <1>1, <1>2, <1>7 DEF DispatchSend, Done, HandlerControl, BindingTypeOK, RequestType
<1>8. CASE RevokeEnds(h)
  BY <1>1, <1>2, <1>8 DEF RevokeEnds, DropGate, Done, HandlerControl, BindingTypeOK, RequestType
<1>9. CASE HandlerStops(h)
  BY <1>1, <1>9 DEF HandlerStops, Done, HandlerControl, BindingTypeOK, RequestType
<1> QED
  BY <1>3, <1>4, <1>5, <1>6, <1>7, <1>8, <1>9

\* The connections' steps leave the handlers alone.
LEMMA ElsewhereControl ==
    ASSUME HandlerControl,
           UNCHANGED <<rowVars, gateVars, handlerVars, stray, ended>>, offers' \subseteq offers
    PROVE  HandlerControl'
<1> USE DEF rowVars, gateVars, handlerVars
<1>1. BindingTypeOK'
  BY DEF HandlerControl, BindingTypeOK
<1>2. \A h \in Handlers : HandlerOK(h)'
  BY DEF HandlerControl, HandlerOK
<1> QED
  BY <1>1, <1>2 DEF HandlerControl

LEMMA CrashControl ==
    ASSUME Control, CenterCrash
    PROVE  Control'
<1>1. HandlerControl'
  <2>1. NoRequest \in RequestType /\ NoRequest.gate = 0
    BY DEF NoRequest, RequestType
  <2>2. BindingTypeOK'
    BY <2>1 DEF CenterCrash, Control, HandlerControl, BindingTypeOK, HandlerPcs, rowVars, RequestType
  <2>3. \A h \in Handlers : HandlerOK(h)'
    BY <2>1 DEF CenterCrash, HandlerOK, BindingPcs, GatedPcs, HoldingPcs
  <2> QED
    BY <2>2, <2>3 DEF HandlerControl
<1>2. ConnControl'
  BY SessionBoundsAssumption DEF CenterCrash, TakeFault, Control, ConnControl, ConnTypeOK,
     ConnOK, LinkOK, ConnPcs, NewPcs
<1> QED
  BY <1>1, <1>2 DEF Control

-----------------------------------------------------------------------------

\* The end of a connection.
LEMMA EndControl ==
    ASSUME ConnControl, NEW c \in Conns, CEnd(c),
           nextGen' = nextGen, online' \in [Sites -> 0 .. MaxGen],
           signalled' \subseteq 1 .. MaxGen, local' = local, stopped' = stopped,
           refusals' \in [Sites -> 0 .. Limit], faults' \in 0 .. MaxFaults,
           \A s \in Sites : link[s] # c => refusals'[s] = refusals[s]
    PROVE  ConnControl'
<1>1. ConnTypeOK'
  BY SessionBoundsAssumption DEF CEnd, ConnControl, ConnTypeOK, ConnPcs
<1>2. \A d \in Conns : ConnOK(d)'
  BY DEF CEnd, ConnControl, ConnTypeOK, ConnOK, NewPcs
<1>3. \A s \in Sites : LinkOK(s)'
  <2> SUFFICES ASSUME NEW s \in Sites, link'[s] # NoConn PROVE LinkOK(s)'
    BY DEF LinkOK
  <2>1. link[s] # c /\ link'[s] = link[s] /\ link[s] \in Conns
    BY DEF CEnd, ConnControl, ConnTypeOK
  <2>2. csite'[link[s]] = csite[link[s]] /\ cpc'[link[s]] = cpc[link[s]]
    BY <2>1 DEF CEnd, ConnControl, ConnTypeOK
  <2> QED
    BY <2>1, <2>2 DEF ConnControl, LinkOK
<1> QED
  BY <1>1, <1>2, <1>3 DEF ConnControl

\* A step of a connection that leaves its site alone.
LEMMA ConnStepControl ==
    ASSUME ConnControl, NEW c \in Conns, NEW p \in ConnPcs \ {"idle", "hello"}, CGoto(c, p),
           cpc[c] # "idle", NEW g \in 0 .. MaxGen, cgen' = [cgen EXCEPT ![c] = g],
           p \in NewPcs => g = 0, p \notin NewPcs => g \in 1 .. nextGen',
           csite' = csite, cwatch' \in [Conns -> 0 .. MaxGen],
           nextGen' \in 0 .. MaxGen, nextGen <= nextGen', online' \in [Sites -> 0 .. MaxGen],
           signalled' \subseteq 1 .. MaxGen, link' = link, local' = local, stopped' = stopped,
           refusals' \in [Sites -> 0 .. Limit], faults' \in 0 .. MaxFaults,
           \A s \in Sites : link[s] # c => refusals'[s] = refusals[s]
    PROVE  ConnControl'
<1>1. ConnTypeOK'
  BY DEF CGoto, ConnControl, ConnTypeOK
<1>2. \A d \in Conns : ConnOK(d)'
  BY DEF CGoto, ConnControl, ConnTypeOK, ConnOK
<1>3. \A s \in Sites : LinkOK(s)'
  BY DEF CGoto, ConnControl, ConnTypeOK, LinkOK
<1> QED
  BY <1>1, <1>2, <1>3 DEF ConnControl

\* What the steps of the sites do to the connections.
LEMMA SiteControl ==
    ASSUME ConnControl, NEW s \in Sites,
           \/ Handoff(s) \/ LoseLink(s) \/ Converge(s) \/ SiteRestarts(s) \/ Unbind(s)
           \/ \E c \in Conns : Dial(s, c)
    PROVE  ConnControl'
<1> USE DEF connVars, registryVars
<1>1. CASE Handoff(s) \/ Converge(s)
  <2>1. ConnTypeOK'
    <3>1. faults' \in 0 .. MaxFaults
      BY <1>1, SessionBoundsAssumption DEF Handoff, Converge, TakeFault, ConnControl, ConnTypeOK
    <3> QED
      BY <1>1, <3>1 DEF Handoff, Converge, ConnControl, ConnTypeOK
  <2>2. (\A c \in Conns : ConnOK(c)') /\ (\A t \in Sites : LinkOK(t)')
    BY <1>1 DEF Handoff, Converge, ConnControl, ConnOK, LinkOK
  <2> QED
    BY <2>1, <2>2 DEF ConnControl
<1>r. CASE SiteRestarts(s)
  <2>1. ConnTypeOK'
    BY <1>r, SessionBoundsAssumption DEF SiteRestarts, ConnControl, ConnTypeOK
  <2>2. (\A c \in Conns : ConnOK(c)') /\ (\A t \in Sites : LinkOK(t)')
    BY <1>r, SessionBoundsAssumption DEF SiteRestarts, ConnControl, ConnTypeOK, ConnOK, LinkOK
  <2> QED
    BY <2>1, <2>2 DEF ConnControl
<1>2. CASE LoseLink(s) \/ Unbind(s)
  <2>1. ConnTypeOK'
    <3>1. refusals' \in [Sites -> 0 .. Limit]
      BY <1>2, SessionBoundsAssumption DEF LoseLink, Unbind, ConnControl, ConnTypeOK
    <3>2. faults' \in 0 .. MaxFaults
      BY <1>2, SessionBoundsAssumption DEF LoseLink, Unbind, TakeFault, ConnControl, ConnTypeOK
    <3> QED
      BY <1>2, <3>1, <3>2 DEF LoseLink, Unbind, ConnControl, ConnTypeOK
  <2>2. \A c \in Conns : ConnOK(c)'
    BY <1>2 DEF LoseLink, Unbind, ConnControl, ConnOK
  <2>3. \A t \in Sites : t # s => link'[t] = link[t] /\ refusals'[t] = refusals[t]
    BY <1>2 DEF LoseLink, Unbind, ConnControl, ConnTypeOK
  <2>4. link'[s] = NoConn
    BY <1>2 DEF LoseLink, Unbind, ConnControl, ConnTypeOK
  <2>5. \A t \in Sites : LinkOK(t)'
    BY <1>2, <2>3, <2>4 DEF LoseLink, Unbind, ConnControl, LinkOK
  <2> QED
    BY <2>1, <2>2, <2>5 DEF ConnControl
<1>3. ASSUME NEW c \in Conns, Dial(s, c) PROVE ConnControl'
  <2>1. ConnTypeOK'
    BY <1>3 DEF Dial, CGoto, ConnControl, ConnTypeOK, ConnPcs
  <2>2. \A d \in Conns : ConnOK(d)'
    BY <1>3 DEF Dial, CGoto, ConnControl, ConnTypeOK, ConnOK, NewPcs
  <2>3. \A t \in Sites : t # s => link[t] # c \/ link[t] = NoConn
    BY <1>3 DEF Dial, ConnControl, LinkOK
  <2>4. ASSUME NEW t \in Sites PROVE LinkOK(t)'
    <3>1. CASE t = s
      BY <1>3, <3>1, NoConnAssumption DEF Dial, CGoto, ConnControl, ConnTypeOK, LinkOK
    <3>2. CASE t # s
      <4>1. /\ link'[t] = link[t] /\ link[t] \in Conns \cup {NoConn}
            /\ \A d \in Conns : d # c => cpc'[d] = cpc[d] /\ csite'[d] = csite[d]
            /\ refusals' = refusals
        BY <1>3, <3>2 DEF Dial, CGoto, ConnControl, ConnTypeOK
      <4> QED
        BY <3>2, <4>1, <2>3 DEF ConnControl, LinkOK
    <3> QED
      BY <3>1, <3>2
  <2> QED
    BY <2>1, <2>2, <2>4 DEF ConnControl
<1> QED
  BY <1>1, <1>2, <1>3, <1>r

LEMMA DisconnectType ==
    ASSUME ConnTypeOK, NEW s \in Sites, disconnect(s)
    PROVE  /\ online' \in [Sites -> 0 .. MaxGen] /\ signalled' \subseteq 1 .. MaxGen
           /\ nextGen' = nextGen
<1>1. online[s] \in 0 .. MaxGen /\ MaxGen \in Nat /\ 0 \in 0 .. MaxGen
  BY SessionBoundsAssumption DEF ConnTypeOK
<1>2. {online[s]} \ {0} \subseteq 1 .. MaxGen
  BY <1>1
<1> QED
  BY <1>1, <1>2 DEF disconnect, ConnTypeOK

\* What the steps of a connection task do.
LEMMA TaskControl ==
    ASSUME Control, NEW c \in Conns,
           ConnStep(c) \/ AdmitFails(c) \/ Deliver(c) \/ EnginePanics(c)
    PROVE  ConnControl'
<1> USE DEF connVars, registryVars, siteVars
<1>0. /\ ConnControl /\ ConnTypeOK /\ ConnOK(c)
      /\ 0 \in 0 .. MaxGen /\ cgen[c] \in 0 .. MaxGen
      /\ cgen = [cgen EXCEPT ![c] = cgen[c]] /\ nextGen \in 0 .. MaxGen /\ nextGen <= nextGen
      /\ MaxFaults \in Nat /\ MaxGen \in Nat /\ Limit \in Nat
  BY SessionBoundsAssumption DEF Control, ConnControl, ConnTypeOK
<1>1. CASE Admit(c) /\ Admissible(csite[c])
  <2>1. refusals' \in [Sites -> 0 .. Limit] /\ \A s \in Sites : link[s] # c => refusals'[s] = refusals[s]
    BY <1>0, <1>1 DEF Admit, ConnTypeOK
  <2>2. /\ CGoto(c, "admitted") /\ cpc[c] = "hello" /\ UNCHANGED <<csite, cgen, cwatch, link>>
        /\ UNCHANGED <<bindingVars, registryVars, local, stopped, faults>>
    BY <1>1 DEF Admit
  <2>3. cgen[c] = 0
    BY <1>0, <2>2 DEF ConnOK, NewPcs
  <2> QED
    BY <1>0, <2>1, <2>2, <2>3, ConnStepControl DEF ConnPcs, NewPcs, ConnTypeOK
<1>2. CASE Admit(c) /\ ~Admissible(csite[c])
  <2>1. CEnd(c) /\ cpc[c] = "hello" /\ UNCHANGED <<registryVars, local, stopped, faults>>
    BY <1>2 DEF Admit
  <2>2. csite[c] \in Sites /\ refusals' = [refusals EXCEPT ![csite[c]] =
                                IF link[csite[c]] = c THEN @ + 1 ELSE @]
    BY <1>0, <1>2, <2>1 DEF Admit, ConnOK
  <2>3. link[csite[c]] = c => refusals[csite[c]] < Limit
    BY <1>0, <2>1, <2>2, NoConnAssumption DEF ConnControl, LinkOK
  <2>4. refusals' \in [Sites -> 0 .. Limit]
    BY <1>0, <2>2, <2>3 DEF ConnTypeOK
  <2>5. \A s \in Sites : link[s] # c => refusals'[s] = refusals[s]
    BY <1>0, <2>2 DEF ConnTypeOK
  <2> QED
    BY <1>0, <2>1, <2>4, <2>5, EndControl DEF ConnTypeOK
<1>3. CASE AdmitFails(c)
  <2>1. faults' \in 0 .. MaxFaults
    BY <1>0, <1>3 DEF AdmitFails, TakeFault, ConnTypeOK
  <2> QED
    BY <1>0, <1>3, <2>1, EndControl DEF AdmitFails, ConnTypeOK
<1>4. CASE Register(c) /\ online[csite[c]] # 0
  BY <1>0, <1>4, EndControl DEF Register, ConnTypeOK
<1>5. CASE Register(c) /\ online[csite[c]] = 0
  <2> DEFINE g == nextGen + 1
  <2>1. /\ cpc[c] = "admitted" /\ nextGen < MaxGen /\ nextGen' = g
        /\ online' = [online EXCEPT ![csite[c]] = g] /\ cgen' = [cgen EXCEPT ![c] = g]
        /\ CGoto(c, "registered") /\ UNCHANGED <<csite, cwatch, link, signalled>>
        /\ UNCHANGED <<local, refusals, stopped, faults>>
    BY <1>5 DEF Register
  <2>2. g \in 0 .. MaxGen /\ g \in 1 .. g /\ nextGen <= g
    BY <1>0, <2>1
  <2> HIDE DEF g
  <2>3. online' \in [Sites -> 0 .. MaxGen]
    BY <1>0, <2>1, <2>2 DEF ConnTypeOK
  <2>4. /\ nextGen' \in 0 .. MaxGen /\ nextGen <= nextGen' /\ g \in 1 .. nextGen'
        /\ cwatch' \in [Conns -> 0 .. MaxGen] /\ signalled' \subseteq 1 .. MaxGen
        /\ refusals' \in [Sites -> 0 .. Limit] /\ faults' \in 0 .. MaxFaults
        /\ "registered" \in ConnPcs \ {"idle", "hello"} /\ "registered" \notin NewPcs
    BY <1>0, <2>1, <2>2 DEF ConnTypeOK, ConnPcs, NewPcs
  <2> QED
    BY <1>0, <2>1, <2>2, <2>3, <2>4, ConnStepControl
<1>6. CASE Watch(c)
  <2>1. /\ cpc[c] = "registered" /\ CGoto(c, "watched") /\ UNCHANGED <<csite, cgen>>
        /\ UNCHANGED <<online, nextGen, signalled, link, local, refusals, stopped, faults>>
    BY <1>6 DEF Watch
  <2>2. csite[c] \in Sites /\ cgen[c] \in 1 .. nextGen
    BY <1>0, <2>1 DEF ConnOK, NewPcs
  <2>3. cwatch' \in [Conns -> 0 .. MaxGen]
    BY <1>0, <1>6, <2>2 DEF Watch, ConnTypeOK
  <2> QED
    BY <1>0, <2>1, <2>2, <2>3, ConnStepControl DEF ConnPcs, NewPcs, ConnTypeOK
<1>7. CASE Recheck(c) \/ EnginePanics(c)
  <2>1. PICK p \in {"running", "closing", "ending"} :
          /\ cpc[c] \in {"watched", "running"} /\ CGoto(c, p)
          /\ UNCHANGED <<csite, cgen, cwatch, registryVars, siteVars>>
          /\ UNCHANGED faults \/ TakeFault
    BY <1>7 DEF Recheck, EnginePanics
  <2>2. cgen[c] \in 1 .. nextGen /\ faults' \in 0 .. MaxFaults
    BY <1>0, <2>1 DEF ConnOK, NewPcs, TakeFault, ConnTypeOK
  <2> QED
    BY <1>0, <2>1, <2>2, ConnStepControl DEF ConnPcs, NewPcs, ConnTypeOK
<1>8. CASE Close(c)
  <2>1. /\ cpc[c] = "closing" /\ disconnect(csite[c]) /\ CEnd(c)
        /\ UNCHANGED <<local, refusals, stopped, faults>>
    BY <1>8 DEF Close
  <2>2. csite[c] \in Sites
    BY <1>0, <2>1 DEF ConnOK
  <2>3. /\ online' \in [Sites -> 0 .. MaxGen] /\ signalled' \subseteq 1 .. MaxGen
        /\ nextGen' = nextGen
    BY <1>0, <2>1, <2>2, DisconnectType
  <2> QED
    BY <1>0, <2>1, <2>3, EndControl DEF ConnTypeOK
<1>9. CASE EngineEnds(c)
  <2>1. /\ cpc[c] = "running" /\ CGoto(c, "ending") /\ mark_disconnected(csite[c], cgen[c])
        /\ UNCHANGED <<csite, cgen, cwatch, siteVars, faults>>
    BY <1>9 DEF EngineEnds
  <2>2. cgen[c] \in 1 .. nextGen
    BY <1>0, <2>1 DEF ConnOK, NewPcs
  <2>3. online' \in [Sites -> 0 .. MaxGen] /\ nextGen' = nextGen /\ signalled' = signalled
    BY <1>0, <2>1 DEF mark_disconnected, ConnTypeOK
  <2> QED
    BY <1>0, <2>1, <2>2, <2>3, ConnStepControl DEF ConnPcs, NewPcs, ConnTypeOK
<1>10. CASE GuardDrops(c)
  <2>1. online' \in [Sites -> 0 .. MaxGen] /\ nextGen' = nextGen /\ signalled' = signalled
    BY <1>0, <1>10 DEF GuardDrops, mark_disconnected, ConnTypeOK
  <2> QED
    BY <1>0, <1>10, <2>1, EndControl DEF GuardDrops, ConnTypeOK
<1>11. CASE Deliver(c)
  <2>1. ConnTypeOK'
    BY <1>0, <1>11 DEF Deliver, ConnTypeOK
  <2>2. (\A d \in Conns : ConnOK(d)') /\ (\A t \in Sites : LinkOK(t)')
    BY <1>0, <1>11 DEF Deliver, ConnControl, ConnOK, LinkOK
  <2> QED
    BY <2>1, <2>2 DEF ConnControl
<1> QED
  BY <1>1, <1>2, <1>3, <1>4, <1>5, <1>6, <1>7, <1>8, <1>9, <1>10, <1>11 DEF ConnStep

\* The handlers touch the registry only at the end of a revocation.
LEMMA HandlerConnControl ==
    ASSUME Control, UNCHANGED <<cpc, csite, cgen, cwatch, nextGen, link, local, refusals, stopped>>,
           faults' \in 0 .. MaxFaults, online' \in [Sites -> 0 .. MaxGen],
           signalled' \subseteq 1 .. MaxGen
    PROVE  ConnControl'
<1>1. ConnTypeOK'
  BY DEF Control, ConnControl, ConnTypeOK
<1>2. (\A d \in Conns : ConnOK(d)') /\ (\A t \in Sites : LinkOK(t)')
  BY DEF Control, ConnControl, ConnOK, LinkOK
<1> QED
  BY <1>1, <1>2 DEF ConnControl

LEMMA ControlStep == Control /\ [Next]_vars => Control'
<1> SUFFICES ASSUME Control, [Next]_vars PROVE Control'
  OBVIOUS
<1> USE DEF bindingVars, connVars, registryVars, siteVars
<1>0. HandlerControl /\ ConnControl
  BY DEF Control
<1>1. CASE Console /\ UNCHANGED <<connVars, registryVars, siteVars, faults>>
  <2>1. HandlerControl'
    BY <1>0, <1>1, RowControl, BindControl, TakeGateControl, GatedControl DEF Console, HandlerStep
  <2>2. ConnControl'
    BY <1>0, <1>1, HandlerConnControl DEF ConnControl, ConnTypeOK
  <2> QED
    BY <2>1, <2>2 DEF Control
<1>2. ASSUME NEW h \in Handlers, RevokeEnds(h) PROVE Control'
  <2>1. HandlerControl'
    BY <1>0, <1>2, GatedControl
  <2>2. hreq[h].site \in Sites
    BY <1>0, <1>2 DEF RevokeEnds, HandlerControl, HandlerOK, GatedPcs, HoldingPcs
  <2>3. online' \in [Sites -> 0 .. MaxGen] /\ signalled' \subseteq 1 .. MaxGen
    BY <1>0, <1>2, <2>2, DisconnectType DEF RevokeEnds, ConnControl
  <2>4. ConnControl'
    BY <1>0, <1>2, <2>3, HandlerConnControl DEF RevokeEnds, disconnect, ConnControl, ConnTypeOK
  <2> QED
    BY <2>1, <2>4 DEF Control
<1>3. ASSUME NEW h \in Handlers, HandlerStops(h) PROVE Control'
  <2>1. HandlerControl'
    BY <1>0, <1>3, GatedControl
  <2>2. faults' \in 0 .. MaxFaults
    BY <1>0, <1>3, SessionBoundsAssumption DEF HandlerStops, TakeFault, ConnControl, ConnTypeOK
  <2>3. ConnControl'
    BY <1>0, <1>3, <2>2, HandlerConnControl DEF HandlerStops, ConnControl, ConnTypeOK
  <2> QED
    BY <2>1, <2>3 DEF Control
<1>4. ASSUME NEW s \in Sites, \/ Handoff(s) \/ LoseLink(s) \/ Converge(s) \/ SiteRestarts(s) \/ Unbind(s)
                              \/ \E c \in Conns : Dial(s, c)
      PROVE  Control'
  <2>1. UNCHANGED bindingVars
    BY <1>4 DEF Handoff, LoseLink, Converge, SiteRestarts, Unbind, Dial
  <2> QED
    BY <1>0, <1>4, <2>1, SiteControl, ElsewhereControl DEF Control
<1>5. ASSUME NEW c \in Conns, ConnStep(c) \/ AdmitFails(c) \/ Deliver(c) \/ EnginePanics(c)
      PROVE  Control'
  <2>1. UNCHANGED <<rowVars, gateVars, handlerVars, stray, ended>> /\ offers' \subseteq offers
    BY <1>5 DEF ConnStep, AdmitFails, Deliver, EnginePanics, Admit, Register, Watch, Recheck,
       Close, EngineEnds, GuardDrops
  <2> QED
    BY <1>0, <1>5, <2>1, TaskControl, ElsewhereControl DEF Control
<1>6. CASE UNCHANGED vars
  <2>1. HandlerControl'
    BY <1>0, <1>6, ElsewhereControl DEF vars
  <2>2. ConnControl'
    BY <1>0, <1>6, HandlerConnControl DEF vars, ConnControl, ConnTypeOK
  <2> QED
    BY <2>1, <2>2 DEF Control
<1> QED
  BY <1>1, <1>2, <1>3, <1>4, <1>5, <1>6, CrashControl DEF Next

\* The types and what the program counters say hold in every state.
THEOREM ControlHolds == Spec => []Control
BY ControlInit, ControlStep, PTL DEF Spec

\* The variables keep their types: the gates never run out of lock objects,
\* and no site counts more refusals than not_bound_abort_after.
THEOREM TypesHold == Spec => []TypeOK
<1>1. Control => TypeOK
  BY DEF Control, HandlerControl, ConnControl, ConnTypeOK, TypeOK
<1> QED
  BY <1>1, ControlHolds, PTL

-----------------------------------------------------------------------------
(* The gate invariant is inductive.                                        *)

\* What a handler's step must respect for the other handlers.
GateRespected(h) ==
    /\ \A i \in Handlers \ {h} : hpc'[i] = hpc[i] /\ hreq'[i] = hreq[i]
    /\ \A l \in Locks : holder[l] \in Handlers \ {h} => holder'[l] = holder[l]
    /\ ended \subseteq ended' /\ stray \subseteq stray'
    /\ \A s \in Sites :
          /\ binding[s] = "revoked" => binding'[s] = "revoked"
          /\ s \notin ended' \cup stray' => gateKey'[s] = gateKey[s] \/ gateKey[s] = 0
          /\ binding[s] = "bound" /\ binding'[s] # "bound" =>
                \A i \in Handlers \ {h} :
                    hpc[i] = "send" /\ hreq[i].site = s => s \in stray

\* What it must establish for itself.
GateOwned(h) ==
    /\ \A s \in ended' : s \in ended \/ binding'[s] = "revoked"
    /\ hpc'[h] = "disconnect" => binding'[hreq'[h].site] = "revoked"
    /\ hpc'[h] \in HoldingPcs => holder'[hreq'[h].gate] = h
    /\ hpc'[h] \in GatedPcs /\ hreq'[h].site \notin ended' \cup stray'
          => hreq'[h].gate = gateKey'[hreq'[h].site]
    /\ hpc'[h] = "send" => binding'[hreq'[h].site] = "bound" \/ hreq'[h].site \in stray'

LEMMA GateMove ==
    ASSUME Control, Gate, NEW h \in Handlers, GateRespected(h), GateOwned(h)
    PROVE  Gate'
<1>1. \A i \in Handlers : hpc[i] \in GatedPcs => hreq[i].site \in Sites /\ hreq[i].gate \in Locks
  BY DEF Control, HandlerControl, HandlerOK
<1>2. ended \subseteq Sites /\ 0 \notin Locks
  BY SitesAssumption, HandlersAssumption, FS_CardinalityType
     DEF Control, HandlerControl, BindingTypeOK, Locks
<1> USE DEF GatedPcs, HoldingPcs
<1>3. RevokedStays'
  BY <1>1, <1>2 DEF Gate, RevokedStays, GateRespected, GateOwned
<1>4. HolderHolds'
  BY <1>1 DEF Gate, HolderHolds, GateRespected, GateOwned
<1>5. OneGate'
  <2> SUFFICES ASSUME NEW i \in Handlers, i # h, hpc[i] \in GatedPcs,
                      hreq[i].site \notin ended' \cup stray'
               PROVE  hreq[i].gate = gateKey'[hreq[i].site]
    BY DEF OneGate, GateRespected, GateOwned
  <2>1. hreq[i].gate = gateKey[hreq[i].site]
    BY DEF Gate, OneGate, GateRespected
  <2> QED
    BY <1>1, <1>2, <2>1 DEF GateRespected
<1>6. SendIsBound'
  BY <1>1 DEF Gate, SendIsBound, GateRespected, GateOwned
<1> QED
  BY <1>3, <1>4, <1>5, <1>6 DEF Gate

\* A step that no handler takes.
LEMMA GateFrame ==
    ASSUME Control, Gate, UNCHANGED <<gateVars, handlerVars, stray, ended>>,
           \A s \in Sites : binding[s] \in {"bound", "revoked"} => binding'[s] = binding[s]
    PROVE  Gate'
<1> USE DEF gateVars, handlerVars
<1>1. \A i \in Handlers : hpc[i] \in GatedPcs => hreq[i].site \in Sites
  BY DEF Control, HandlerControl, HandlerOK
<1>2. ended \subseteq Sites
  BY DEF Control, HandlerControl, BindingTypeOK
<1>3. RevokedStays' /\ SendIsBound'
  BY <1>1, <1>2 DEF Gate, RevokedStays, SendIsBound, GatedPcs, HoldingPcs
<1>4. HolderHolds' /\ OneGate'
  BY DEF Gate, HolderHolds, OneGate
<1> QED
  BY <1>3, <1>4 DEF Gate

\* The end of a request, with what the actions that end one may change.
LEMMA GateReturn ==
    ASSUME Control, Gate, NEW h \in Handlers, HReturn(h), ended' = ended, stray' = stray,
           gateKey' = gateKey,
           \A s \in Sites : binding[s] \in {"bound", "revoked"} => binding'[s] = binding[s]
    PROVE  Gate'
<1>1. GateRespected(h)
  BY DEF HReturn, GateRespected, Control, HandlerControl, BindingTypeOK
<1>2. hpc'[h] = "idle"
  BY DEF HReturn, Control, HandlerControl, BindingTypeOK
<1>3. GateOwned(h)
  BY <1>2 DEF GateOwned, GatedPcs, HoldingPcs
<1> QED
  BY <1>1, <1>3, GateMove

LEMMA GateBind ==
    ASSUME Control, Gate, NEW h \in Handlers,
           BindLookup(h) \/ FindPrevious(h) \/ RetireOffers(h) \/ BindWithCode(h)
    PROVE  Gate'
<1> USE DEF rowVars, gateVars
<1>1. ASSUME NEW p \in {"previous", "retire", "consume"}, hpc' = [hpc EXCEPT ![h] = p],
             NEW q, hreq' = [hreq EXCEPT ![h] = q],
             UNCHANGED <<binding, gateKey, holder, stray, ended>>
      PROVE  Gate'
  <2>1. GateRespected(h)
    BY <1>1 DEF GateRespected, Control, HandlerControl, BindingTypeOK
  <2>2. hpc'[h] = p
    BY <1>1 DEF Control, HandlerControl, BindingTypeOK
  <2>3. GateOwned(h)
    BY <1>1, <2>2 DEF GateOwned, GatedPcs, HoldingPcs
  <2> QED
    BY <2>1, <2>3, GateMove
<1>2. hreq = [hreq EXCEPT ![h] = hreq[h]]
  BY DEF Control, HandlerControl, BindingTypeOK
<1>3. CASE BindLookup(h)
  BY <1>1, <1>3 DEF BindLookup
<1>4. CASE FindPrevious(h)
  <2>1. CASE HReturn(h)
    BY <1>4, <2>1, GateReturn DEF FindPrevious
  <2>2. CASE ~HReturn(h)
    <3>1. PICK p \in {"retire", "consume"} :
             /\ hpc' = [hpc EXCEPT ![h] = p] /\ \E q : hreq' = [hreq EXCEPT ![h] = q]
             /\ UNCHANGED holder
      BY <1>2, <1>4, <2>2 DEF FindPrevious, HGoto
    <3>2. PICK q : hreq' = [hreq EXCEPT ![h] = q]
      BY <3>1
    <3> QED
      BY <1>1, <1>4, <3>1, <3>2 DEF FindPrevious
  <2> QED
    BY <2>1, <2>2
<1>5. CASE RetireOffers(h)
  BY <1>1, <1>2, <1>5 DEF RetireOffers, HGoto
<1>6. CASE BindWithCode(h)
  <2>1. \A s \in Sites : binding[s] \in {"bound", "revoked"} => binding'[s] = binding[s]
    BY <1>6 DEF BindWithCode, Control, HandlerControl, BindingTypeOK
  <2> QED
    BY <1>6, <2>1, GateReturn DEF BindWithCode
<1> QED
  BY <1>3, <1>4, <1>5, <1>6

\* The lock a request clones is the one the map names from then on.
LEMMA GateTake ==
    ASSUME Control, Gate, NEW h \in Handlers, NEW kind, TakeGate(h, kind)
    PROVE  Gate'
<1>0. PICK s \in instance : \E lock :
         /\ lock = gateKey[s] \/ gateKey[s] = 0
         /\ gateKey' = [gateKey EXCEPT ![s] = lock]
         /\ hreq' = [hreq EXCEPT ![h] = [NoRequest EXCEPT !.kind = kind,
                                              !.site = s, !.gate = lock]]
  BY DEF TakeGate
<1>1. PICK lock :
         /\ lock = gateKey[s] \/ gateKey[s] = 0
         /\ gateKey' = [gateKey EXCEPT ![s] = lock]
         /\ hreq' = [hreq EXCEPT ![h] = [NoRequest EXCEPT !.kind = kind,
                                              !.site = s, !.gate = lock]]
  BY <1>0
<1> DEFINE q == [NoRequest EXCEPT !.kind = kind, !.site = s, !.gate = lock]
<1>2. q.site = s /\ q.gate = lock
  BY DEF NoRequest
<1> HIDE DEF q
<1>3. /\ s \in Sites /\ gateKey'[s] = lock
      /\ \A t \in Sites : gateKey'[t] = gateKey[t] \/ gateKey[t] = 0
  BY <1>1 DEF Control, HandlerControl, BindingTypeOK
<1>4. /\ hpc' = [hpc EXCEPT ![h] = "lock"] /\ hreq' = [hreq EXCEPT ![h] = q]
      /\ UNCHANGED <<binding, holder, stray, ended>>
  BY <1>1 DEF TakeGate, rowVars, q
<1>5. hpc'[h] = "lock" /\ hreq'[h] = q
  BY <1>4 DEF Control, HandlerControl, BindingTypeOK
<1>6. GateRespected(h)
  BY <1>3, <1>4 DEF GateRespected, Control, HandlerControl, BindingTypeOK
<1>7. GateOwned(h)
  BY <1>2, <1>3, <1>4, <1>5 DEF GateOwned, GatedPcs, HoldingPcs
<1> QED
  BY <1>6, <1>7, GateMove

LEMMA GateLock ==
    ASSUME Control, Gate, NEW h \in Handlers, LockGate(h)
    PROVE  Gate'
<1>1. /\ hpc[h] = "lock" /\ hreq[h].gate \in Locks
  BY DEF LockGate, Control, HandlerControl, HandlerOK, GatedPcs
<1>2. /\ hpc'[h] \in {"find", "check"} /\ hreq' = hreq
      /\ holder' = [holder EXCEPT ![hreq[h].gate] = h] /\ holder[hreq[h].gate] = NoOne
      /\ UNCHANGED <<binding, gateKey, stray, ended>>
      /\ \A i \in Handlers \ {h} : hpc'[i] = hpc[i]
  BY DEF LockGate, HGoto, rowVars, Control, HandlerControl, BindingTypeOK
<1>3. GateRespected(h)
  BY <1>1, <1>2, NoOneAssumption DEF GateRespected, Control, HandlerControl, BindingTypeOK
<1>4. holder'[hreq[h].gate] = h
  BY <1>1, <1>2 DEF Control, HandlerControl, BindingTypeOK
<1>5. hreq[h].site \notin ended \cup stray => hreq[h].gate = gateKey[hreq[h].site]
  BY <1>1 DEF Gate, OneGate, GatedPcs
<1>6. GateOwned(h)
  BY <1>2, <1>4, <1>5 DEF GateOwned
<1> QED
  BY <1>3, <1>6, GateMove

\* Two requests past their lock work on one site only if it is out of use.
LEMMA OneHolder ==
    ASSUME Control, Gate, NEW h \in Handlers, NEW i \in Handlers,
           hpc[h] \in HoldingPcs, hpc[i] \in HoldingPcs, hreq[h].site = hreq[i].site,
           hreq[h].site \notin ended \cup stray
    PROVE  h = i
<1>1. hreq[h].gate = hreq[i].gate
  BY DEF Gate, OneGate, GatedPcs
<1> QED
  BY <1>1 DEF Gate, HolderHolds

LEMMA GateRevoke ==
    ASSUME Control, Gate, NEW h \in Handlers, RevokeFind(h) \/ RevokeRow(h) \/ RevokeEnds(h)
    PROVE  Gate'
<1> DEFINE s == hreq[h].site
<1> USE DEF rowVars, gateVars
<1>1. hpc[h] \in HoldingPcs /\ s \in Sites
  BY DEF RevokeFind, RevokeRow, RevokeEnds, HoldingPcs, GatedPcs, Control, HandlerControl, HandlerOK
<1>2. /\ holder[hreq[h].gate] = h
      /\ s \notin ended \cup stray => hreq[h].gate = gateKey[s]
  BY <1>1 DEF Gate, HolderHolds, OneGate, GatedPcs
<1>3. ASSUME NEW p \in {"revoke", "disconnect"}, HGoto(h, p),
             UNCHANGED <<gateKey, holder, stray, ended>>,
             \A t \in Sites : t # s => binding'[t] = binding[t],
             binding'[s] = binding[s] \/ binding'[s] = "revoked",
             p = "disconnect" => binding'[s] = "revoked"
      PROVE  Gate'
  <2>1. hpc'[h] = p /\ hreq' = hreq /\ \A i \in Handlers \ {h} : hpc'[i] = hpc[i]
    BY <1>3 DEF HGoto, Control, HandlerControl, BindingTypeOK
  <2>2. ASSUME NEW i \in Handlers \ {h}, binding[s] = "bound", hpc[i] = "send", hreq[i].site = s
        PROVE  s \in stray
    <3>1. s \notin ended
      BY <2>2 DEF Gate, RevokedStays
    <3> QED
      BY <1>1, <2>2, <3>1, OneHolder DEF HoldingPcs
  <2>3. GateRespected(h)
    BY <1>1, <1>3, <2>1, <2>2 DEF GateRespected
  <2>4. GateOwned(h)
    BY <1>2, <1>3, <2>1 DEF GateOwned
  <2> QED
    BY <2>3, <2>4, GateMove
<1>4. ASSUME HReturn(h), DropGate(s), UNCHANGED binding, ended \subseteq ended', stray \subseteq stray',
             ended' \subseteq ended \cup {s}, s \in ended' => s \in ended \/ binding[s] = "revoked",
             s \in ended' \cup stray'
      PROVE  Gate'
  <2>1. /\ hpc'[h] = "idle" /\ \A i \in Handlers \ {h} : hpc'[i] = hpc[i] /\ hreq'[i] = hreq[i]
        /\ \A l \in Locks : holder[l] \in Handlers \ {h} => holder'[l] = holder[l]
    BY <1>4 DEF HReturn, Control, HandlerControl, BindingTypeOK
  <2>2. \A t \in Sites : t # s => gateKey'[t] = gateKey[t]
    BY <1>4 DEF DropGate, Control, HandlerControl, BindingTypeOK
  <2>3. GateRespected(h)
    BY <1>4, <2>1, <2>2 DEF GateRespected
  <2>4. GateOwned(h)
    BY <1>4, <2>1 DEF GateOwned, GatedPcs, HoldingPcs
  <2> QED
    BY <2>3, <2>4, GateMove
<1>5. CASE RevokeFind(h)
  <2>1. CASE binding[s] = "none"
    BY <1>4, <1>5, <2>1 DEF RevokeFind
  <2>2. CASE binding[s] # "none"
    BY <1>3, <1>5, <2>2 DEF RevokeFind
  <2> QED
    BY <2>1, <2>2
<1>6. CASE RevokeRow(h)
  <2>1. binding'[s] = "revoked" /\ \A t \in Sites : t # s => binding'[t] = binding[t]
    BY <1>1, <1>6 DEF RevokeRow, Control, HandlerControl, BindingTypeOK
  <2> QED
    BY <1>3, <1>6, <2>1 DEF RevokeRow
<1>7. CASE RevokeEnds(h)
  <2>1. binding[s] = "revoked"
    BY <1>7 DEF RevokeEnds, Gate, RevokedStays
  <2> QED
    BY <1>4, <1>7, <2>1 DEF RevokeEnds
<1> QED
  BY <1>5, <1>6, <1>7

LEMMA GateDispatch ==
    ASSUME Control, Gate, NEW h \in Handlers,
           DispatchCheck(h) \/ DispatchSend(h) \/ HandlerStops(h)
    PROVE  Gate'
<1> USE DEF rowVars, gateVars
<1>1. CASE HReturn(h)
  BY <1>1, GateReturn DEF DispatchCheck, DispatchSend, HandlerStops
<1>2. CASE ~HReturn(h)
  <2>1. /\ hpc[h] = "check" /\ HGoto(h, "send") /\ binding[hreq[h].site] = "bound"
        /\ UNCHANGED <<holder, binding, gateKey, stray, ended>>
    BY <1>2 DEF DispatchCheck, DispatchSend, HandlerStops
  <2>2. hpc'[h] = "send" /\ hreq' = hreq /\ \A i \in Handlers \ {h} : hpc'[i] = hpc[i]
    BY <2>1 DEF HGoto, Control, HandlerControl, BindingTypeOK
  <2>3. GateRespected(h)
    BY <2>1, <2>2 DEF GateRespected
  <2>4. /\ holder[hreq[h].gate] = h
        /\ hreq[h].site \notin ended \cup stray => hreq[h].gate = gateKey[hreq[h].site]
    BY <2>1 DEF Gate, HolderHolds, OneGate, GatedPcs, HoldingPcs
  <2>5. GateOwned(h)
    BY <2>1, <2>2, <2>4 DEF GateOwned
  <2> QED
    BY <2>3, <2>5, GateMove
<1> QED
  BY <1>1, <1>2

LEMMA GateInit == Init => Gate
BY DEF Init, BindingInit, Gate, RevokedStays, HolderHolds, OneGate, SendIsBound,
   GatedPcs, HoldingPcs

LEMMA GateStep == Control /\ Gate /\ [Next]_vars => Gate'
<1> SUFFICES ASSUME Control, Gate, [Next]_vars PROVE Gate'
  OBVIOUS
<1> USE DEF bindingVars, rowVars
<1>1. ASSUME NEW s \in Sites, CreateInstance(s) \/ CreateBinding(s) \/ Expire(s) PROVE Gate'
  <2>1. \A t \in Sites : binding[t] \in {"bound", "revoked"} => binding'[t] = binding[t]
    BY <1>1 DEF CreateInstance, CreateBinding, Expire, Control, HandlerControl, BindingTypeOK
  <2> QED
    BY <1>1, <2>1, GateFrame DEF CreateInstance, CreateBinding, Expire
<1>2. CASE Console /\ UNCHANGED <<connVars, registryVars, siteVars, faults>>
  BY <1>1, <1>2, GateBind, GateTake, GateLock, GateRevoke, GateDispatch DEF Console, HandlerStep
<1>3. ASSUME NEW h \in Handlers, RevokeEnds(h) \/ HandlerStops(h) PROVE Gate'
  BY <1>3, GateRevoke, GateDispatch
<1>4. ASSUME NEW s \in Sites, \/ Handoff(s) \/ LoseLink(s) \/ Converge(s) \/ SiteRestarts(s) \/ Unbind(s)
                              \/ \E c \in Conns : Dial(s, c)
      PROVE  Gate'
  BY <1>4, GateFrame DEF Handoff, LoseLink, Converge, SiteRestarts, Unbind, Dial
<1>5. ASSUME NEW c \in Conns, ConnStep(c) \/ AdmitFails(c) \/ Deliver(c) \/ EnginePanics(c)
      PROVE  Gate'
  BY <1>5, GateFrame DEF ConnStep, AdmitFails, Deliver, EnginePanics, Admit, Register, Watch,
     Recheck, Close, EngineEnds, GuardDrops
<1>6. CASE CenterCrash
  <2>1. \A h \in Handlers : hpc'[h] = "idle"
    BY <1>6 DEF CenterCrash
  <2> QED
    BY <1>6, <2>1 DEF CenterCrash, Gate, RevokedStays, HolderHolds, OneGate, SendIsBound,
       GatedPcs, HoldingPcs
<1>7. CASE UNCHANGED vars
  BY <1>7, GateFrame DEF vars
<1> QED
  BY <1>2, <1>3, <1>4, <1>5, <1>6, <1>7 DEF Next

\* The gate invariant holds in every state.
THEOREM GateHolds == Spec => [](Control /\ Gate)
BY ControlInit, ControlStep, GateInit, GateStep, PTL DEF Spec

\* Two dispatches to one site are never past their binding check together,
\* unless a revocation met the site before its row was written
\* (dispatch_center_operation, revoke_center_binding).
THEOREM DispatchesStaySerial == Spec => []DispatchesAreSerial
<1>1. Control /\ Gate => DispatchesAreSerial
  <2> SUFFICES ASSUME Control, Gate, NEW h \in Handlers, NEW i \in Handlers, h # i,
                      hpc[h] = "send", hpc[i] = "send", hreq[h].site = hreq[i].site,
                      hreq[h].site \notin stray
               PROVE  FALSE
    BY DEF DispatchesAreSerial
  <2>1. binding[hreq[h].site] = "bound"
    BY DEF Gate, SendIsBound
  <2>2. hreq[h].site \notin ended
    BY <2>1 DEF Gate, RevokedStays
  <2> QED
    BY <2>2, OneHolder DEF HoldingPcs
<1> QED
  BY <1>1, GateHolds, PTL

\* No step queues an offer for a site whose binding is not in force, with the
\* same exception (dispatch_center_operation).
THEOREM NoLateOffer == Spec => NoOfferAfterRevoke
<1> USE DEF bindingVars, rowVars
<1>1. ASSUME Control, Gate, Next
      PROVE  \A s \in offers' \ offers : binding[s] = "bound" \/ s \in stray
  <2>1. ASSUME NEW h \in Handlers, DispatchSend(h)
        PROVE  \A s \in offers' \ offers : binding[s] = "bound" \/ s \in stray
    BY <1>1, <2>1 DEF DispatchSend, Gate, SendIsBound
  <2>2. (\E h \in Handlers : DispatchSend(h)) \/ offers' \subseteq offers
    BY <1>1 DEF Next, Console, HandlerStep, CreateInstance, CreateBinding, Expire, BindLookup,
       TakeGate, FindPrevious, RetireOffers, BindWithCode, LockGate, RevokeFind, RevokeRow,
       DispatchCheck, RevokeEnds, HandlerStops, Handoff, LoseLink, Converge, SiteRestarts, Unbind, Dial,
       ConnStep, AdmitFails, Deliver, EnginePanics, Admit, Register, Watch, Recheck, Close,
       EngineEnds, GuardDrops, CenterCrash
  <2> QED
    BY <2>1, <2>2
<1>2. Control /\ Gate /\ [Next]_vars
      => [\A s \in offers' \ offers : binding[s] = "bound" \/ s \in stray]_vars
  BY <1>1
<1> QED
  BY <1>2, GateHolds, PTL DEF Spec, NoOfferAfterRevoke

-----------------------------------------------------------------------------
(* The rows of the bindings.                                               *)

\* A row only moves forward: none, pending, bound, revoked.
RowsForward ==
    \A s \in Sites :
        /\ binding[s] = "revoked" => binding'[s] = "revoked"
        /\ binding[s] = "bound" => binding'[s] \in {"bound", "revoked"}
        /\ binding'[s] = "bound" => binding[s] \in {"pending", "bound"}

LEMMA RowsMoveForward ==
    ASSUME Control, Next
    PROVE  RowsForward
<1> USE DEF bindingVars, rowVars, RowsForward, Control, HandlerControl, BindingTypeOK
<1>1. ASSUME NEW s \in Sites, CreateBinding(s) PROVE RowsForward
  BY <1>1 DEF CreateBinding
<1>2. ASSUME NEW h \in Handlers, BindWithCode(h) PROVE RowsForward
  BY <1>2 DEF BindWithCode
<1>3. ASSUME NEW h \in Handlers, RevokeRow(h) PROVE RowsForward
  BY <1>3 DEF RevokeRow
<1>4. ASSUME UNCHANGED binding PROVE RowsForward
  BY <1>4
<1>5. \/ UNCHANGED binding
      \/ \E s \in Sites : CreateBinding(s)
      \/ \E h \in Handlers : BindWithCode(h) \/ RevokeRow(h)
  <2> USE DEF bindingVars, rowVars
  <2> HIDE DEF RowsForward, Control, HandlerControl, BindingTypeOK
  <2> QED
    BY DEF Next, Console, HandlerStep, CreateInstance, Expire, BindLookup,
       TakeGate, FindPrevious, RetireOffers, LockGate, RevokeFind,
       DispatchCheck, DispatchSend, RevokeEnds, HandlerStops, Handoff, LoseLink, Converge,
       SiteRestarts, Unbind, Dial, ConnStep, AdmitFails, Deliver, EnginePanics, Admit, Register, Watch,
       Recheck, Close, EngineEnds, GuardDrops, CenterCrash
<1> QED
  BY <1>1, <1>2, <1>3, <1>4, <1>5

\* A site identity holds at most one binding in force, because the
\* transaction of bind_with_code looks again for a competing row.
THEOREM FingerprintsStayApart == Spec => []FingerprintBoundOnce
<1> USE DEF bindingVars, rowVars
<1>1. Init => FingerprintBoundOnce
  BY DEF Init, BindingInit, FingerprintBoundOnce
<1>2. ASSUME Control, FingerprintBoundOnce, Next PROVE FingerprintBoundOnce'
  <2>1. ASSUME NEW h \in Handlers, BindWithCode(h) PROVE FingerprintBoundOnce'
    <3> DEFINE s == hreq[h].site
               f == hreq[h].fp
               competing == {t \in Sites \ {s} : fingerprint[t] = f /\ binding[t] = "bound"}
    <3>1. CASE binding[s] = "pending" /\ competing = {}
      <4>1. /\ binding' = [binding EXCEPT ![s] = "bound"]
            /\ fingerprint' = [fingerprint EXCEPT ![s] = f]
        BY <2>1, <3>1 DEF BindWithCode
      <4>2. \A t \in Sites \ {s} : binding[t] = "bound" => fingerprint[t] # f
        BY <3>1
      <4> HIDE DEF s, f
      <4> QED
        BY <1>2, <4>1, <4>2 DEF FingerprintBoundOnce, Control, HandlerControl, BindingTypeOK
    <3>2. CASE ~(binding[s] = "pending" /\ competing = {})
      <4>1. UNCHANGED <<binding, fingerprint>>
        BY <2>1, <3>2 DEF BindWithCode
      <4> QED
        BY <1>2, <4>1 DEF FingerprintBoundOnce
    <3> QED
      BY <3>1, <3>2
  <2>2. ASSUME UNCHANGED fingerprint, \A s \in Sites : binding'[s] = "bound" => binding[s] = "bound"
        PROVE  FingerprintBoundOnce'
    BY <1>2, <2>2 DEF FingerprintBoundOnce
  <2>3. ASSUME NEW h \in Handlers, RevokeRow(h) PROVE FingerprintBoundOnce'
    BY <1>2, <2>2, <2>3 DEF RevokeRow, Control, HandlerControl, BindingTypeOK
  <2>4. ASSUME NEW s \in Sites, CreateBinding(s) PROVE FingerprintBoundOnce'
    BY <1>2, <2>2, <2>4 DEF CreateBinding, Control, HandlerControl, BindingTypeOK
  <2>5. \/ UNCHANGED <<binding, fingerprint>>
        \/ \E s \in Sites : CreateBinding(s)
        \/ \E h \in Handlers : BindWithCode(h) \/ RevokeRow(h)
    BY <1>2 DEF Next, Console, HandlerStep, CreateInstance, Expire, BindLookup,
       TakeGate, FindPrevious, RetireOffers, LockGate, RevokeFind,
       DispatchCheck, DispatchSend, RevokeEnds, HandlerStops, Handoff, LoseLink, Converge,
       SiteRestarts, Unbind, Dial, ConnStep, AdmitFails, Deliver, EnginePanics, Admit, Register, Watch,
       Recheck, Close, EngineEnds, GuardDrops, CenterCrash
  <2> QED
    BY <2>1, <2>2, <2>3, <2>4, <2>5
<1>3. Control /\ FingerprintBoundOnce /\ [Next]_vars => FingerprintBoundOnce'
  BY <1>2 DEF vars, FingerprintBoundOnce
<1> QED
  BY <1>1, <1>3, ControlHolds, PTL DEF Spec

-----------------------------------------------------------------------------
(* The registry invariant is inductive.                                    *)

\* A step that leaves connections and registry alone.
LEMMA RegistryFrame ==
    ASSUME Registry, RowsForward, UNCHANGED <<cpc, csite, cgen, cwatch, online, signalled, ended>>,
           Control
    PROVE  Registry'
<1>1. \A c \in Conns : cpc[c] # "idle" => csite[c] \in Sites
  BY DEF Control, ConnControl, ConnOK
<1>2. \A c \in Conns : cpc[c] \notin {"idle", "hello"} =>
         /\ binding'[csite[c]] \in {"bound", "revoked"}
         /\ binding'[csite[c]] = "bound" => binding[csite[c]] = "bound"
  BY <1>1 DEF Registry, AdmittedWasBound, RowsForward
<1>3. GenerationsDiffer' /\ EntryHasTask' /\ EndedIsNotCurrent'
  BY DEF Registry, GenerationsDiffer, EntryHasTask, EndedIsNotCurrent, is_current
<1>4. AdmittedWasBound' /\ LiveIsKnown' /\ WatchIsOwn'
  BY <1>2 DEF Registry, AdmittedWasBound, LiveIsKnown, WatchIsOwn, LivePcs
<1> QED
  BY <1>3, <1>4 DEF Registry

\* A revocation that ends signals the session it takes from the registry.
LEMMA RegistryRevoke ==
    ASSUME Control, Gate, Registry, NEW h \in Handlers, RevokeEnds(h)
    PROVE  Registry'
<1> DEFINE s == hreq[h].site
<1>1. s \in Sites /\ binding[s] = "revoked"
  BY DEF RevokeEnds, Control, HandlerControl, HandlerOK, GatedPcs, HoldingPcs, Gate, RevokedStays
<1>2. /\ UNCHANGED <<binding, cpc, csite, cgen, cwatch>> /\ ended' = ended \cup {s}
      /\ online'[s] = 0 /\ \A t \in Sites : t # s => online'[t] = online[t]
      /\ signalled' = signalled \cup ({online[s]} \ {0})
  BY <1>1 DEF RevokeEnds, disconnect, connVars, rowVars, Control, ConnControl, ConnTypeOK
<1>3. \A c \in Conns : cpc[c] # "idle" => csite[c] \in Sites
  BY DEF Control, ConnControl, ConnOK
<1>4. \A c \in Conns : cpc[c] \in LivePcs => cgen[c] # 0
  BY DEF Control, ConnControl, ConnOK, ConnTypeOK, LivePcs, NewPcs
<1> HIDE DEF s
<1>5. GenerationsDiffer' /\ EntryHasTask' /\ AdmittedWasBound' /\ WatchIsOwn'
  BY <1>2 DEF Registry, GenerationsDiffer, EntryHasTask, AdmittedWasBound, WatchIsOwn
<1>6. LiveIsKnown'
  BY <1>1, <1>2, <1>3, <1>4 DEF Registry, LiveIsKnown, LivePcs
<1>7. EndedIsNotCurrent'
  BY <1>1, <1>2, <1>3, <1>4 DEF Registry, EndedIsNotCurrent, is_current, LivePcs
<1> QED
  BY <1>5, <1>6, <1>7 DEF Registry

LEMMA RegistryDial ==
    ASSUME Control, Registry, NEW s \in Sites, NEW c \in Conns, Dial(s, c)
    PROVE  Registry'
<1>1. /\ cpc[c] = "idle" /\ cgen[c] = 0 /\ cpc'[c] = "hello"
      /\ \A d \in Conns \ {c} : cpc'[d] = cpc[d] /\ csite'[d] = csite[d]
      /\ UNCHANGED <<binding, cgen, cwatch, online, signalled, ended>>
  BY DEF Dial, CGoto, bindingVars, rowVars, registryVars, Control, ConnControl, ConnTypeOK,
     ConnOK, NewPcs
<1>2. GenerationsDiffer' /\ EntryHasTask'
  BY <1>1 DEF Registry, GenerationsDiffer, EntryHasTask
<1>3. AdmittedWasBound' /\ LiveIsKnown' /\ WatchIsOwn' /\ EndedIsNotCurrent'
  BY <1>1 DEF Registry, AdmittedWasBound, LiveIsKnown, WatchIsOwn, EndedIsNotCurrent, is_current,
     LivePcs
<1> QED
  BY <1>2, <1>3 DEF Registry

\* A connection that ends: it takes its own entry along, or another's only
\* with its signal and not while the site is bound.
LEMMA RegistryEnd ==
    ASSUME Control, Registry, NEW c \in Conns, CEnd(c), UNCHANGED <<binding, ended>>,
           signalled \subseteq signalled',
           \A s \in Sites : online'[s] \in {online[s], 0},
           csite[c] \in Sites, cgen[c] # 0 => online'[csite[c]] # cgen[c],
           \A d \in Conns \ {c} :
               cpc[d] \in LivePcs /\ online[csite[d]] = cgen[d] /\ online'[csite[d]] # cgen[d]
               => cgen[d] \in signalled' /\ binding[csite[d]] # "bound"
    PROVE  Registry'
<1>1. /\ cpc'[c] = "idle" /\ cgen'[c] = 0
      /\ \A d \in Conns \ {c} : /\ cpc'[d] = cpc[d] /\ csite'[d] = csite[d]
                                /\ cgen'[d] = cgen[d] /\ cwatch'[d] = cwatch[d]
  BY DEF CEnd, Control, ConnControl, ConnTypeOK
<1>2. \A d \in Conns : /\ cpc[d] # "idle" => csite[d] \in Sites
                       /\ cpc[d] \in LivePcs => cgen[d] # 0
  BY DEF Control, ConnControl, ConnOK, ConnTypeOK, LivePcs, NewPcs
<1>3. GenerationsDiffer'
  BY <1>1 DEF Registry, GenerationsDiffer
<1>4. EntryHasTask'
  <2> SUFFICES ASSUME NEW s \in Sites, online'[s] # 0
               PROVE  \E d \in Conns : csite'[d] = s /\ cgen'[d] = online'[s] /\ cpc'[d] # "idle"
    BY DEF EntryHasTask
  <2>1. PICK d \in Conns : csite[d] = s /\ cgen[d] = online[s] /\ cpc[d] # "idle"
    BY DEF Registry, EntryHasTask
  <2>2. d # c /\ online'[s] = online[s]
    BY <2>1
  <2> QED
    BY <1>1, <2>1, <2>2
<1>5. AdmittedWasBound' /\ WatchIsOwn'
  BY <1>1 DEF Registry, AdmittedWasBound, WatchIsOwn
<1>6. LiveIsKnown'
  BY <1>1, <1>2 DEF Registry, LiveIsKnown, LivePcs
<1>7. EndedIsNotCurrent'
  BY <1>1, <1>2 DEF Registry, EndedIsNotCurrent, is_current, LivePcs
<1> QED
  BY <1>3, <1>4, <1>5, <1>6, <1>7 DEF Registry

LEMMA RegistryEnds ==
    ASSUME Control, Registry, NEW c \in Conns,
           \/ Admit(c) /\ ~Admissible(csite[c])
           \/ Register(c) /\ online[csite[c]] # 0
           \/ AdmitFails(c) \/ Close(c) \/ GuardDrops(c)
    PROVE  Registry'
<1> USE DEF bindingVars, rowVars, registryVars
<1> DEFINE s == csite[c]
<1>1. cpc[c] # "idle" /\ s \in Sites
  BY DEF Admit, AdmitFails, Register, Close, GuardDrops, Control, ConnControl, ConnOK
<1>2. \A t \in Sites : online[t] \in 0 .. MaxGen
  BY DEF Control, ConnControl, ConnTypeOK
<1>3. CASE \/ Admit(c) /\ ~Admissible(csite[c])
           \/ Register(c) /\ online[csite[c]] # 0
           \/ AdmitFails(c)
  <2>1. /\ CEnd(c) /\ cpc[c] \in NewPcs
        /\ UNCHANGED <<binding, ended, online, signalled>>
    BY <1>3 DEF Admit, AdmitFails, Register, NewPcs
  <2>2. cgen[c] = 0
    BY <2>1 DEF Control, ConnControl, ConnOK
  <2> QED
    BY <1>1, <2>1, <2>2, RegistryEnd
<1>4. CASE Close(c)
  <2>1. /\ CEnd(c) /\ cpc[c] \in LivePcs /\ UNCHANGED <<binding, ended>>
        /\ online'[s] = 0 /\ \A t \in Sites : t # s => online'[t] = online[t]
        /\ signalled' = signalled \cup ({online[s]} \ {0})
    BY <1>1, <1>4 DEF Close, disconnect, LivePcs, Control, ConnControl, ConnTypeOK
  <2>2. ASSUME NEW d \in Conns \ {c}, cpc[d] \in LivePcs, online[csite[d]] = cgen[d],
               online'[csite[d]] # cgen[d]
        PROVE  cgen[d] \in signalled' /\ binding[csite[d]] # "bound"
    <3>1. cgen[d] # 0 /\ csite[d] \in Sites
      BY <2>2 DEF Control, ConnControl, ConnOK, ConnTypeOK, LivePcs, NewPcs
    <3>2. csite[d] = s
      BY <2>1, <2>2, <3>1
    <3>3. cgen[d] # cgen[c]
      BY <3>1, <2>2 DEF Registry, GenerationsDiffer
    <3> QED
      BY <2>1, <2>2, <3>1, <3>2, <3>3 DEF Registry, LiveIsKnown
  <2> HIDE DEF s
  <2> QED
    BY <1>1, <2>1, <2>2, RegistryEnd DEF s
<1>5. CASE GuardDrops(c)
  <2>1. /\ CEnd(c) /\ cpc[c] = "ending" /\ UNCHANGED <<binding, ended, signalled>>
        /\ online'[s] = (IF online[s] = cgen[c] THEN 0 ELSE online[s])
        /\ \A t \in Sites : t # s => online'[t] = online[t]
    BY <1>1, <1>5 DEF GuardDrops, mark_disconnected, Control, ConnControl, ConnTypeOK
  <2>2. \A d \in Conns \ {c} : cpc[d] \in LivePcs =>
           cgen[d] # 0 /\ csite[d] \in Sites /\ cgen[d] # cgen[c]
    BY DEF Control, ConnControl, ConnOK, ConnTypeOK, LivePcs, NewPcs, Registry, GenerationsDiffer
  <2>3. \A d \in Conns \ {c} :
           ~(cpc[d] \in LivePcs /\ online[csite[d]] = cgen[d] /\ online'[csite[d]] # cgen[d])
    BY <2>1, <2>2
  <2>4. (cgen[c] # 0 => online'[s] # cgen[c]) /\ \A t \in Sites : online'[t] \in {online[t], 0}
    BY <1>1, <2>1
  <2> QED
    BY <1>1, <2>1, <2>3, <2>4, RegistryEnd
<1> QED
  BY <1>3, <1>4, <1>5

\* A connection that goes on without touching its generation or the registry.
LEMMA RegistryMove ==
    ASSUME Control, Registry, NEW c \in Conns, NEW p \in ConnPcs \ {"idle", "hello"}, CGoto(c, p),
           UNCHANGED <<binding, ended, csite, cgen, online, signalled>>,
           \A d \in Conns \ {c} : cwatch'[d] = cwatch[d],
           cpc[c] # "idle", binding[csite[c]] \in {"bound", "revoked"},
           p \in LivePcs => cpc[c] \in LivePcs,
           p = "watched" /\ binding[csite[c]] = "bound" => cwatch'[c] = cgen[c],
           p = "running" => cwatch'[c] = cgen[c] /\ csite[c] \notin ended
    PROVE  Registry'
<1>1. cpc'[c] = p /\ \A d \in Conns \ {c} : cpc'[d] = cpc[d]
  BY DEF CGoto, Control, ConnControl, ConnTypeOK
<1>2. GenerationsDiffer' /\ EntryHasTask'
  BY <1>1 DEF Registry, GenerationsDiffer, EntryHasTask
<1>3. AdmittedWasBound' /\ LiveIsKnown' /\ WatchIsOwn' /\ EndedIsNotCurrent'
  BY <1>1 DEF Registry, AdmittedWasBound, LiveIsKnown, WatchIsOwn, EndedIsNotCurrent, is_current,
     LivePcs
<1> QED
  BY <1>2, <1>3 DEF Registry

LEMMA RegistryMoves ==
    ASSUME Control, Gate, Registry, NEW c \in Conns,
           \/ Admit(c) /\ Admissible(csite[c])
           \/ Watch(c) \/ Recheck(c) \/ EnginePanics(c)
    PROVE  Registry'
<1> USE DEF bindingVars, rowVars, registryVars
<1>1. CASE Admit(c) /\ Admissible(csite[c])
  <2>1. /\ cpc[c] = "hello" /\ binding[csite[c]] = "bound" /\ CGoto(c, "admitted")
        /\ UNCHANGED <<binding, ended, csite, cgen, cwatch, online, signalled>>
    BY <1>1 DEF Admit, Admissible
  <2> QED
    BY <2>1, RegistryMove DEF ConnPcs, LivePcs
<1>2. CASE Watch(c)
  <2>1. /\ cpc[c] = "registered" /\ CGoto(c, "watched")
        /\ cwatch'[c] = online[csite[c]] /\ \A d \in Conns \ {c} : cwatch'[d] = cwatch[d]
        /\ UNCHANGED <<binding, ended, csite, cgen, online, signalled>>
    BY <1>2 DEF Watch, Control, ConnControl, ConnTypeOK
  <2>2. /\ binding[csite[c]] \in {"bound", "revoked"}
        /\ binding[csite[c]] = "bound" => online[csite[c]] = cgen[c]
    BY <2>1 DEF Registry, AdmittedWasBound, LiveIsKnown, LivePcs
  <2> QED
    BY <2>1, <2>2, RegistryMove DEF ConnPcs, LivePcs
<1>3. CASE Recheck(c)
  <2>1. PICK p \in {"running", "closing"} :
           /\ cpc[c] = "watched" /\ CGoto(c, p)
           /\ p = "running" => binding[csite[c]] = "bound"
           /\ UNCHANGED <<binding, ended, csite, cgen, cwatch, online, signalled>>
    BY <1>3 DEF Recheck
  <2>2. /\ binding[csite[c]] \in {"bound", "revoked"}
        /\ binding[csite[c]] = "bound" => cwatch[c] = cgen[c] /\ csite[c] \notin ended
    BY <2>1 DEF Registry, AdmittedWasBound, WatchIsOwn, Gate, RevokedStays
  <2> QED
    BY <2>1, <2>2, RegistryMove DEF ConnPcs, LivePcs
<1>4. CASE EnginePanics(c)
  <2>1. /\ cpc[c] = "running" /\ CGoto(c, "ending")
        /\ UNCHANGED <<binding, ended, csite, cgen, cwatch, online, signalled>>
    BY <1>4 DEF EnginePanics
  <2>2. binding[csite[c]] \in {"bound", "revoked"}
    BY <2>1 DEF Registry, AdmittedWasBound
  <2> QED
    BY <2>1, <2>2, RegistryMove DEF ConnPcs, LivePcs
<1> QED
  BY <1>1, <1>2, <1>3, <1>4

\* An engine that ends takes its own entry along and no other.
LEMMA RegistryEngineEnds ==
    ASSUME Control, Registry, NEW c \in Conns, EngineEnds(c)
    PROVE  Registry'
<1> DEFINE s == csite[c]
<1>1. cpc[c] = "running" /\ s \in Sites /\ cgen[c] # 0
  BY DEF EngineEnds, Control, ConnControl, ConnOK, ConnTypeOK, NewPcs
<1>2. /\ cpc'[c] = "ending" /\ \A d \in Conns \ {c} : cpc'[d] = cpc[d]
      /\ online'[s] = (IF online[s] = cgen[c] THEN 0 ELSE online[s])
      /\ \A t \in Sites : t # s => online'[t] = online[t]
      /\ UNCHANGED <<binding, ended, csite, cgen, cwatch, signalled>>
  BY <1>1 DEF EngineEnds, CGoto, mark_disconnected, bindingVars, rowVars, siteVars,
     Control, ConnControl, ConnTypeOK
<1>3. \A d \in Conns \ {c} : cgen[d] # cgen[c]
  BY <1>1 DEF Registry, GenerationsDiffer
<1>4. \A d \in Conns : /\ cpc[d] # "idle" => csite[d] \in Sites
                       /\ cpc[d] \in LivePcs => cgen[d] # 0
  BY DEF Control, ConnControl, ConnOK, ConnTypeOK, LivePcs, NewPcs
<1>5. \A d \in Conns \ {c} : cpc[d] \in LivePcs /\ online[csite[d]] = cgen[d]
                             => online'[csite[d]] = cgen[d]
  BY <1>2, <1>3, <1>4, Zenon DEF LivePcs
<1>6. \A d \in Conns : cpc[d] \in LivePcs /\ online'[csite[d]] = cgen[d]
                       => online[csite[d]] = cgen[d]
  BY <1>2, <1>4 DEF LivePcs
<1> HIDE DEF s
<1>7. GenerationsDiffer' /\ AdmittedWasBound' /\ WatchIsOwn'
  BY <1>1, <1>2 DEF Registry, GenerationsDiffer, AdmittedWasBound, WatchIsOwn
<1>8. EntryHasTask'
  BY <1>1, <1>2, <1>3 DEF Registry, EntryHasTask
<1>9. LiveIsKnown'
  BY <1>2, <1>5 DEF Registry, LiveIsKnown, LivePcs
<1>10. EndedIsNotCurrent'
  BY <1>2, <1>6 DEF Registry, EndedIsNotCurrent, is_current, LivePcs
<1> QED
  BY <1>7, <1>8, <1>9, <1>10 DEF Registry

\* A registration takes a generation that no connection has.
LEMMA RegistryRegister ==
    ASSUME Control, Registry, NEW c \in Conns, Register(c), online[csite[c]] = 0
    PROVE  Registry'
<1> DEFINE s == csite[c]
           g == nextGen + 1
<1>1. /\ cpc[c] = "admitted" /\ s \in Sites /\ cgen[c] = 0
      /\ g \in Nat /\ g # 0 /\ g \in 0 .. MaxGen
      /\ \A d \in Conns : cgen[d] # g
  <2>1. nextGen \in Nat /\ \A d \in Conns : cgen[d] = 0 \/ cgen[d] \in 1 .. nextGen
    BY DEF Control, ConnControl, ConnOK, ConnTypeOK
  <2> QED
    BY <2>1, SessionBoundsAssumption DEF Register, Control, ConnControl, ConnOK, NewPcs
<1>2. /\ cpc'[c] = "registered" /\ cgen'[c] = g /\ online'[s] = g
      /\ \A d \in Conns \ {c} : cpc'[d] = cpc[d] /\ cgen'[d] = cgen[d]
      /\ \A t \in Sites : t # s => online'[t] = online[t]
      /\ UNCHANGED <<binding, ended, csite, cwatch, signalled>>
  BY <1>1 DEF Register, CGoto, bindingVars, rowVars, Control, ConnControl, ConnTypeOK
<1>3. \A d \in Conns : /\ cpc[d] # "idle" => csite[d] \in Sites
                       /\ cpc[d] \in LivePcs => cgen[d] # 0
  BY DEF Control, ConnControl, ConnOK, ConnTypeOK, LivePcs, NewPcs
<1>4. online[s] = 0
  OBVIOUS
<1> HIDE DEF g
<1>5. GenerationsDiffer'
  BY <1>1, <1>2 DEF Registry, GenerationsDiffer
<1>6. EntryHasTask'
  <2> SUFFICES ASSUME NEW t \in Sites, online'[t] # 0
               PROVE  \E d \in Conns : csite'[d] = t /\ cgen'[d] = online'[t] /\ cpc'[d] # "idle"
    BY DEF EntryHasTask
  <2>1. CASE t = s
    BY <1>2, <2>1
  <2>2. CASE t # s
    <3>1. PICK d \in Conns : csite[d] = t /\ cgen[d] = online[t] /\ cpc[d] # "idle"
      BY <1>2, <2>2 DEF Registry, EntryHasTask
    <3> QED
      BY <1>2, <2>2, <3>1
  <2> QED
    BY <2>1, <2>2
<1>7. AdmittedWasBound' /\ WatchIsOwn'
  BY <1>1, <1>2 DEF Registry, AdmittedWasBound, WatchIsOwn
<1>8. LiveIsKnown'
  BY <1>1, <1>2, <1>3, <1>4 DEF Registry, LiveIsKnown, LivePcs
<1>9. EndedIsNotCurrent'
  BY <1>1, <1>2, <1>3, <1>4 DEF Registry, EndedIsNotCurrent, is_current
<1> QED
  BY <1>5, <1>6, <1>7, <1>8, <1>9 DEF Registry

LEMMA RegistryInit == Init => Registry
BY DEF Init, BindingInit, Registry, GenerationsDiffer, EntryHasTask, AdmittedWasBound, LiveIsKnown,
   WatchIsOwn, EndedIsNotCurrent, LivePcs

LEMMA RegistryStep == Control /\ Gate /\ Registry /\ [Next]_vars => Registry'
<1> SUFFICES ASSUME Control, Gate, Registry, [Next]_vars PROVE Registry'
  OBVIOUS
<1> USE DEF bindingVars, connVars, registryVars
<1>1. CASE Console /\ UNCHANGED <<connVars, registryVars, siteVars, faults>>
  <2>1. UNCHANGED ended
    BY <1>1 DEF Console, HandlerStep, CreateInstance, CreateBinding, Expire, BindLookup, TakeGate,
       FindPrevious, RetireOffers, BindWithCode, LockGate, RevokeFind, RevokeRow, DispatchCheck,
       DispatchSend
  <2>2. RowsForward
    BY <1>1, RowsMoveForward DEF Next
  <2> QED
    BY <1>1, <2>1, <2>2, RegistryFrame
<1>2. ASSUME NEW h \in Handlers, HandlerStops(h) PROVE Registry'
  BY <1>2, RegistryFrame DEF HandlerStops, rowVars, RowsForward
<1>3. ASSUME NEW s \in Sites, Handoff(s) \/ LoseLink(s) \/ Converge(s) \/ SiteRestarts(s) \/ Unbind(s)
      PROVE  Registry'
  BY <1>3, RegistryFrame DEF Handoff, LoseLink, Converge, SiteRestarts, Unbind, rowVars, RowsForward
<1>4. ASSUME NEW c \in Conns, Deliver(c) PROVE Registry'
  BY <1>4, RegistryFrame DEF Deliver, rowVars, RowsForward
<1>5. ASSUME NEW c \in Conns, ConnStep(c) \/ AdmitFails(c) \/ EnginePanics(c) PROVE Registry'
  BY <1>5, RegistryEnds, RegistryMoves, RegistryEngineEnds, RegistryRegister DEF ConnStep
<1>6. CASE CenterCrash
  BY <1>6 DEF CenterCrash, rowVars, Registry, GenerationsDiffer, EntryHasTask, AdmittedWasBound,
     LiveIsKnown, WatchIsOwn, EndedIsNotCurrent, LivePcs
<1>7. CASE UNCHANGED vars
  BY <1>7, RegistryFrame DEF vars, rowVars, RowsForward
<1> QED
  BY <1>1, <1>2, <1>3, <1>4, <1>5, <1>6, <1>7, RegistryRevoke, RegistryDial DEF Next

\* The inductive invariant holds in every reachable state.
THEOREM Inductive == Spec => []IInv
<1>1. Init => IInv
  BY ControlInit, GateInit, RegistryInit DEF IInv
<1>2. IInv /\ [Next]_vars => IInv'
  BY ControlStep, GateStep, RegistryStep DEF IInv
<1> QED
  BY <1>1, <1>2, PTL DEF Spec

\* Every registry entry belongs to a task that will remove it
\* (DisconnectOnDrop).
THEOREM EntriesHaveTasks == Spec => []EntryHasTask
<1>1. IInv => EntryHasTask
  BY DEF IInv, Registry
<1> QED
  BY <1>1, Inductive, PTL

\* A running session of a bound site is registered: no clean-up of another
\* connection removes its entry (mark_disconnected, disconnect).
THEOREM RunningStaysRegistered == Spec => []RunningIsRegistered
<1>1. IInv => RunningIsRegistered
  BY DEF IInv, Registry, LiveIsKnown, LivePcs, RunningIsRegistered, is_current
<1> QED
  BY <1>1, Inductive, PTL

\* Once a revocation has returned, a session of the site that still runs
\* delivers nothing more and has its disconnect signal pending
\* (run_center_connection, revoke_center_binding).
THEOREM RevokedGoesOffline == Spec => []RevokedIsOffline
<1>1. IInv => RevokedIsOffline
  BY DEF IInv, Registry, LiveIsKnown, WatchIsOwn, EndedIsNotCurrent, LivePcs, RevokedIsOffline,
     is_current
<1> QED
  BY <1>1, Inductive, PTL
=============================================================================
