------------------------------ MODULE CenterLink -----------------------------
(***************************************************************************)
(* A site and its center: SiteSync and CenterDispatch over a connection    *)
(* that can break at any moment, with crashes and failed store calls on    *)
(* both sides, expiring offers and operators who repeat their requests.    *)
(***************************************************************************)
EXTENDS CenterDispatch

CONSTANTS
    MaxRequests,     \* bound: the dispatch requests of a behaviour
    MaxFaults        \* bound: crashes, failed calls and lost connections

ASSUME BoundsAssumption == MaxRequests \in Nat /\ MaxFaults \in Nat

VARIABLES requests, faults

linkVars == <<siteVars, wireVars, centerVars, requests, faults>>

TypeOK ==
    /\ inbox \in [Ops -> InboxStates]
    /\ row \in [Ops -> RowStates \cup {"Absent"}]
    /\ tracking \in [Ops -> PersistedStates \cup TerminalStates \cup {"Absent"}]
    /\ tracked \in [Ops -> OperationStates \cup {Untracked, NotReported}]
    /\ ssent \in 0 .. Len(replies)
    /\ dop \in Ops \cup {0}
    /\ candidates \subseteq Ops

Init ==
    /\ SiteInit
    /\ CenterInit
    /\ toSite = <<>>
    /\ toCenter = <<>>
    /\ requests = 0
    /\ faults = 0

TakeFault == faults < MaxFaults /\ faults' = faults + 1

\* An operator asks for a write, for the first time or again.
Request(t) ==
    /\ requests < MaxRequests
    /\ requests' = requests + 1
    /\ Dispatch(t)
    /\ UNCHANGED <<siteVars, wireVars, faults>>

\* CENTER_OFFER_TTL passes for an offer: the oldest first, all have the same.
Expire(offer) ==
    /\ offer.seq \notin expired
    /\ \A other \in offers : other.seq < offer.seq => other.seq \in expired
    /\ expired' = expired \cup {offer.seq}
    /\ UNCHANGED <<siteVars, wireVars, tracking, offers, dispatchVars, sessionVars,
                   requests, faults>>

\* connect_loop and mark_connected: a site holds one connection at a time.
\* The engine starts with its report.
Connect ==
    /\ spc = "down"
    /\ ~session
    /\ spc' = IF discovered THEN "known" ELSE "discover"
    /\ known' = IF discovered THEN {o \in Ops : tracked[o] # Untracked} ELSE {}
    /\ session' = TRUE
    /\ toSite' = <<>>
    /\ toCenter' = <<>>
    /\ UNCHANGED <<inbox, row, replies, tracked, discovered, scan, todo, ssent,
                   peerAcked, tracking, offers, expired, dispatchVars, csent,
                   handling, requests, faults>>

\* One end notices that the other has gone, at its next receive or send and
\* never inside a handler; until then it works on what is left on the wire.
Close ==
    /\ \/ /\ spc = "down" /\ session
          /\ handling = <<>>
          /\ EndSession
          /\ UNCHANGED siteVars
       \/ /\ ~session
          /\ todo = <<>>
          /\ spc \in {"loop", "flush"}
          /\ SiteDisconnected
          /\ UNCHANGED <<inbox, row, replies, tracked, discovered, sessionVars>>
    /\ UNCHANGED <<wireVars, tracking, offers, expired, dispatchVars, requests,
                   faults>>

\* Nothing is queued or on its way.
Quiet ==
    /\ spc = "loop"
    /\ toSite = <<>> /\ toCenter = <<>> /\ handling = <<>>
    /\ Pending(offers) = {} /\ replies = <<>>

\* The connection ends: while nothing is on its way, or in the middle of
\* things.  A failed store or transport call of the site's handler ends it too.
SiteLosesConnection ==
    /\ spc # "down"
    /\ IF Quiet THEN UNCHANGED faults ELSE TakeFault
    /\ SiteDisconnected
    /\ UNCHANGED <<inbox, row, replies, tracked, discovered, wireVars, centerVars,
                   requests>>

CenterLosesConnection ==
    /\ session
    /\ TakeFault
    /\ EndSession
    /\ UNCHANGED <<siteVars, wireVars, tracking, offers, expired, dispatchVars,
                   requests>>

\* A store call of the dispatch fails and the request is answered with an
\* error.
DispatchFails ==
    /\ dpc # "idle"
    /\ TakeFault
    /\ EndDispatch
    /\ UNCHANGED <<siteVars, wireVars, tracking, offers, expired, sessionVars,
                   requests>>

\* The site process dies: the progress map and the discovery flag go with it.
SiteCrash ==
    /\ TakeFault
    /\ SiteDisconnected
    /\ tracked' = [o \in Ops |-> Untracked]
    /\ discovered' = FALSE
    /\ UNCHANGED <<inbox, row, replies, wireVars, centerVars, requests>>

CenterCrash ==
    /\ TakeFault
    /\ EndDispatch
    /\ EndSession
    /\ UNCHANGED <<siteVars, wireVars, tracking, offers, expired, requests>>

Site == SiteStep /\ UNCHANGED <<centerVars, requests, faults>>
Executes(o) == SiteExecute(o) /\ UNCHANGED <<centerVars, requests, faults>>
Dispatching == DispatchStep /\ UNCHANGED <<siteVars, wireVars, requests, faults>>
Session == SessionStep /\ UNCHANGED <<siteVars, requests, faults>>

Next ==
    \/ \E t \in Targets : Request(t)
    \/ \E offer \in offers : Expire(offer)
    \/ \E o \in Ops : Executes(o)
    \/ Connect \/ Close
    \/ SiteLosesConnection \/ CenterLosesConnection \/ DispatchFails
    \/ SiteCrash \/ CenterCrash
    \/ Site \/ Dispatching \/ Session

Spec == Init /\ [][Next]_linkVars

(***************************************************************************)
(* Safety                                                                  *)
(***************************************************************************)

\* The target the center believes an operation is about.
TargetOf(o) == OfferOf(o).msg
Undecided(o) == tracking[o] \in PersistedStates
Offered(o) == RowsOf(offers, o) # {}

\* What the center records as succeeded, cancelled or unknown is what the
\* site's own row says, whatever was resent, scored late or answered from a
\* duplicate (CenterOperationTracking::on_reply).
CenterVerdictIsTrue ==
    \A o \in Ops : tracking[o] \in {"Succeeded", "Cancelled", "Unknown"} => row[o] = tracking[o]

\* The site closes an inbox entry only with the final reply in its outbox,
\* and the reply leaves the outbox only once the center has scored it: a
\* closed entry is never re-reported, so a reply lost here is lost for good
\* (decide_and_record, report_open_entry, on_reply before the ack).
ReplyNeverLost ==
    \A o \in Ops : inbox[o] \in {"Rejected", "Completed"} =>
        \/ tracking[o] \in TerminalStates
        \/ \E i \in DOMAIN replies : /\ replies[i].op = o
                                     /\ replies[i].msg.kind \in {"rejected", "completed"}

\* An offer the center holds settled without having expired has reached the
\* site's inbox: the site's acknowledgement covers no offer before its insert,
\* and settling duplicates leaves the one that is still to be delivered.
OfferNeverLost ==
    \A o \in Ops : Offered(o) =>
        \/ PendingOf(o) # {}
        \/ inbox[o] # "none"
        \/ Newest(RowsOf(offers, o)).seq \in expired

\* At most one offer row of an operation is waiting for delivery: the gate and
\* the retirement of stale rows before a retry keep it so, which makes the
\* settlement of duplicates the pure defence its comment says it is.
OnePendingOffer == \A o \in Ops : Cardinality(PendingOf(o)) <= 1

\* At most one undecided operation per target is on offer: repeating a request
\* never starts a second one, although replies move the records while
\* find_undecided scans them state by state.
OneLiveIdPerTarget ==
    \A o, p \in Ops :
        (o # p /\ Undecided(o) /\ Undecided(p) /\ Offered(o) /\ Offered(p))
            => TargetOf(o) # TargetOf(p)

\* Once offered, an operation keeps an offer row and its target: the center
\* tells a retry from a new request by nothing else, so pruning, settling and
\* retiring must leave one row, and a retry must not offer the operation for
\* another target (prune_acked_operation_history, resolve_candidate).
TargetIsRemembered ==
    [][\A o \in Ops : Offered(o) => Offered(o)' /\ TargetOf(o)' = TargetOf(o)]_offers

\* The center's record, its states before the verdict not told apart, and the
\* targets on an operation's offer rows.
Verdict ==
    [o \in Ops |-> IF tracking[o] = "Absent" THEN "none"
                   ELSE IF Undecided(o) THEN "open" ELSE tracking[o]]
Aim == [o \in Ops |-> {offer.msg : offer \in RowsOf(offers, o)}]

Contract == INSTANCE LinkContract WITH verdict <- Verdict, aim <- Aim

\* Site and center keep the contract of LinkContract: over all retries,
\* redeliveries and restarts one target, one beginning and one verdict, and
\* nothing begun or decided that was not offered (find_undecided,
\* handle_offer, on_reply).
ImplementsContract == Contract!ContractSpec

(***************************************************************************)
(* Liveness                                                                *)
(***************************************************************************)

\* The site's engine and the center's session go on, and a lost connection is
\* noticed and dialled again.  Nothing here makes an operator ask, an
\* operation end or a dispatch return.
Progress ==
    /\ WF_linkVars(Site)
    /\ WF_linkVars(Session)
    /\ WF_linkVars(Connect \/ Close)

FairSpec == Spec /\ Progress

\* An operation the site has finished is finished at the center in the end,
\* wherever a crash or a lost connection fell, provided that the site is
\* without a connection again and again: report_center_operations runs once
\* per connection and nothing ends a quiet one, so on a connection that
\* lasts the center may wait for ever.
CompletionReachesCenter ==
    []<>(spc = "down") =>
        \A o \in Ops : row[o] \in TerminalStates ~> tracking[o] \in TerminalStates
==============================================================================
