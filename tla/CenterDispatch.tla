---------------------------- MODULE CenterDispatch ---------------------------
(***************************************************************************)
(* The center's half: the dispatch of operator requests, serial per site   *)
(* under its dispatch gate, and the inbound session that sends the queued  *)
(* offers and scores the site's replies.  All requests carry the same      *)
(* endpoint and command and differ in their target, the part of the key    *)
(* only the offer rows record.                                             *)
(***************************************************************************)
EXTENDS SiteSync, CenterOutbox

CONSTANT Targets       \* the resources an operator addresses

\* Operation ids are minted in order, as (created_at, id) orders them.
ASSUME OpsAssumption == Ops \subseteq Nat \ {0} /\ IsFiniteSet(Ops)

VARIABLES
    tracking,      \* the center's record of each operation
    offers,        \* the center's outbox
    expired,       \* the offers whose TTL has passed
    dpc,           \* where the dispatch under the gate is
    dtarget,       \* the target it is about
    dscan,         \* the next state of its idempotency scan
    candidates,    \* the undecided operations the scan has found
    dop,           \* the operation it creates or offers again
    dtodo,         \* the offer rows it has still to retire
    session,       \* a connection is registered for the site
    csent,         \* the offers sent on it
    handling       \* the reply being processed, if any (at most one)

dispatchVars == <<dpc, dtarget, dscan, candidates, dop, dtodo>>
sessionVars == <<session, csent, handling>>
centerVars == <<tracking, offers, expired, dispatchVars, sessionVars>>

CenterInit ==
    /\ tracking = [o \in Ops |-> "Absent"]
    /\ offers = {}
    /\ expired = {}
    /\ dpc = "idle"
    /\ dtarget = "none"
    /\ dscan = 1
    /\ candidates = {}
    /\ dop = 0
    /\ dtodo = {}
    /\ session = FALSE
    /\ csent = {}
    /\ handling = <<>>

-----------------------------------------------------------------------------
(* CenterOperationDispatch::dispatch.                                      *)

\* The dispatch returns and leaves the gate.
EndDispatch ==
    /\ dpc' = "idle"
    /\ dtarget' = "none"
    /\ dscan' = 1
    /\ candidates' = {}
    /\ dop' = 0
    /\ dtodo' = {}

\* A request the authorization and projection checks let through.
Dispatch(t) ==
    /\ dpc = "idle"
    /\ dpc' = "scan"
    /\ dtarget' = t
    /\ UNCHANGED <<tracking, offers, expired, dscan, candidates, dop, dtodo,
                   sessionVars>>

\* The undecided states on_reply persists.
PersistedStates == {"Queued", "Running", "WaitingRemote"}

\* Mutant: the scan runs against the direction operations move in.
ScanStatesBackward == <<"WaitingRemote", "Running", "Queued">>

\* IDEMPOTENCY_CANDIDATE_STATES, less the two that are never persisted:
\* listing them finds nothing.
ScanStates == <<"Queued", "Running", "WaitingRemote">>

\* find_undecided lists one state after the other, while replies come in.
ScanState ==
    /\ dpc = "scan"
    /\ candidates' = candidates \cup {o \in Ops : tracking[o] = ScanStates[dscan]}
    /\ IF dscan = Len(ScanStates)
       THEN dpc' = "resolve" /\ UNCHANGED dscan
       ELSE dscan' = dscan + 1 /\ UNCHANGED dpc
    /\ UNCHANGED <<tracking, offers, expired, dtarget, dop, dtodo, sessionVars>>

PendingOf(o) == RowsOf(Pending(offers), o)

\* The offer that speaks for an operation: its newest pending row, else the
\* newest row the directed read finds.
OfferOf(o) == Newest(IF PendingOf(o) # {} THEN PendingOf(o) ELSE RowsOf(offers, o))

\* Mutant: the lookup knows only the acknowledged history.
CandidateVerdictHistoryOnly(o) ==
    IF RowsOf(offers, o) \ Pending(offers) = {} THEN "NeverEnqueued"
    ELSE IF OfferOf(o).msg # dtarget THEN "DifferentTarget" ELSE "Resolved"

\* resolve_candidate.
CandidateVerdict(o) ==
    IF RowsOf(offers, o) = {} THEN "NeverEnqueued"
    ELSE IF OfferOf(o).msg # dtarget THEN "DifferentTarget" ELSE "Resolved"

\* The candidates that own the retry.  A record without any offer is a
\* stranded dispatch; it is repaired only when it is the single candidate.
Owners ==
    {o \in candidates :
        \/ CandidateVerdict(o) = "Resolved"
        \/ CandidateVerdict(o) = "NeverEnqueued" /\ Cardinality(candidates) = 1}

\* find_undecided: return the owner in flight, offer it again when its offer
\* expired or was never queued, or go on to a fresh id.
Resolve ==
    /\ dpc = "resolve"
    /\ IF Owners = {}
       THEN dpc' = "unknown" /\ UNCHANGED <<dop, dtodo>>
       ELSE /\ dop' = Min(Owners)
            /\ CASE CandidateVerdict(dop') = "NeverEnqueued" ->
                       dpc' = "enqueue" /\ UNCHANGED dtodo
                 [] CandidateVerdict(dop') = "Resolved"
                    /\ OfferOf(dop').seq \in expired ->
                       /\ dpc' = "retire"
                       /\ dtodo' = Seqs(PendingOf(dop') \cup {OfferOf(dop')})
                 [] OTHER -> dpc' = "settle" /\ UNCHANGED dtodo
    /\ UNCHANGED <<tracking, offers, expired, dtarget, dscan, candidates,
                   sessionVars>>

\* The stale rows are acknowledged one by one; a row that was pruned
\* meanwhile fails the dispatch.
RetireStale ==
    /\ dpc = "retire"
    /\ IF Min(dtodo) \notin Seqs(offers)
       THEN EndDispatch /\ UNCHANGED offers
       ELSE /\ offers' = Acknowledge(offers, Min(dtodo))
            /\ dtodo' = dtodo \ {Min(dtodo)}
            /\ dpc' = IF dtodo' = {} THEN "enqueue" ELSE "retire"
            /\ UNCHANGED <<dtarget, dscan, candidates, dop>>
    /\ UNCHANGED <<tracking, expired, sessionVars>>

\* find_unknown_outcome: the outcome of this key's last write is unknown.
BlockedByUnknown ==
    \E o \in Ops : /\ tracking[o] = "Unknown"
                   /\ RowsOf(offers, o) # {}
                   /\ Newest(RowsOf(offers, o)).msg = dtarget

\* The ids this instance has left to mint (a bound, not in the code).
Unused == {o \in Ops : tracking[o] = "Absent"}

\* No unknown outcome refuses the request: a fresh id, whose tracking record
\* precedes the offer (create_operation).
CreateTracking ==
    /\ dpc = "unknown"
    /\ IF BlockedByUnknown \/ Unused = {}
       THEN EndDispatch /\ UNCHANGED tracking
       ELSE /\ dop' = Min(Unused)
            /\ tracking' = [tracking EXCEPT ![dop'] = "Queued"]
            /\ dpc' = "enqueue"
            /\ UNCHANGED <<dtarget, dscan, candidates, dtodo>>
    /\ UNCHANGED <<offers, expired, sessionVars>>

\* enqueue_offer.
EnqueueOffer ==
    /\ dpc = "enqueue"
    /\ offers' = Enqueue(offers, dop, dtarget)
    /\ dpc' = "settle"
    /\ UNCHANGED <<tracking, expired, dtarget, dscan, candidates, dop, dtodo,
                   sessionVars>>

\* settle_duplicate_offers: every pending row of the operation but the newest
\* is acknowledged.  The code keeps it as a defence; OnePendingOffer says it
\* never finds one.
SettleDuplicates ==
    /\ dpc = "settle"
    /\ offers' = AcknowledgeAll(offers, Seqs(PendingOf(dop)) \ {OfferOf(dop).seq})
    /\ EndDispatch
    /\ UNCHANGED <<tracking, expired, sessionVars>>

DispatchStep ==
    \/ ScanState \/ Resolve \/ RetireStale \/ CreateTracking \/ EnqueueOffer
    \/ SettleDuplicates

-----------------------------------------------------------------------------
(* CenterOperationTracking: what a reply does to the tracking record.      *)

\* Mutant: a state the center does not list is taken for an unknown outcome.
ReplyTargetUnlisted(msg) ==
    CASE msg.kind = "accepted" -> "Running"
      [] msg.kind = "rejected" -> "Failed"
      [] msg.kind = "progress" ->
            IF msg.reported = "WaitingRemote" THEN "WaitingRemote" ELSE "Running"
      [] msg.kind = "completed" ->
            IF msg.reported \in {"Succeeded", "Cancelled"} THEN msg.reported ELSE "Unknown"

\* reply_target.
ReplyTarget(msg) ==
    CASE msg.kind = "accepted" -> "Running"
      [] msg.kind = "rejected" -> "Failed"
      [] msg.kind = "progress" ->
            IF msg.reported = "WaitingRemote" THEN "WaitingRemote" ELSE "Running"
      [] msg.kind = "completed" ->
            IF msg.reported \in {"Succeeded", "Cancelled", "Unknown"}
            THEN msg.reported ELSE "Failed"

\* An event the record's state refuses is absorbed.
Absorb(s, event) == IF transition(s, event) = Invalid THEN s ELSE transition(s, event)

\* The lead-in of most targets.
Started(s) == Absorb(Absorb(s, "ValidationStarted"), "ValidationPassed")

\* Mutant: the lead-in of Succeeded without RemoteTaskCompleted.
ApplyEventsNoTask(s, target) ==
    CASE target = "Running" -> Started(s)
      [] target = "WaitingRemote" -> Absorb(Started(s), "RemoteTaskStarted")
      [] target = "Failed" -> Absorb(s, "Failed")
      [] target = "Cancelled" -> Absorb(s, "CancellationRequested")
      [] target = "Unknown" -> Absorb(Started(s), "OutcomeUnknown")
      [] target = "Succeeded" ->
            Absorb(Absorb(Started(s), "ExecutionAccepted"), "VerificationPassed")

\* The state of a record in state s after a reply with the given target:
\* ReplyTarget::events, applied one after the other.
ApplyEvents(s, target) ==
    CASE target = "Running" -> Started(s)
      [] target = "WaitingRemote" -> Absorb(Started(s), "RemoteTaskStarted")
      [] target = "Failed" -> Absorb(s, "Failed")
      [] target = "Cancelled" -> Absorb(s, "CancellationRequested")
      [] target = "Unknown" -> Absorb(Started(s), "OutcomeUnknown")
      [] target = "Succeeded" ->
            Absorb(Absorb(Absorb(Started(s), "RemoteTaskCompleted"),
                          "ExecutionAccepted"),
                   "VerificationPassed")

-----------------------------------------------------------------------------
(* CenterInboundEngine.                                                    *)

\* The connection task is over and its registration gone.
EndSession ==
    /\ session' = FALSE
    /\ csent' = {}
    /\ handling' = <<>>

\* flush_outbox: the next pending offer not sent on this connection is sent,
\* or retired unsent when it has expired.  The flush follows every frame, the
\* site's heartbeats included.
CenterFlush ==
    /\ session
    /\ handling = <<>>
    /\ LET unsent == {offer \in Pending(offers) : offer.seq \notin csent}
           next == CHOOSE offer \in unsent : offer.seq = Min(Seqs(unsent))
       IN /\ unsent # {}
          /\ IF next.seq \in expired
             THEN /\ offers' = Acknowledge(offers, next.seq)
                  /\ UNCHANGED <<csent, toSite>>
             ELSE /\ toSite' = Append(toSite, [kind |-> "offer", seq |-> next.seq,
                                               op |-> next.op])
                  /\ csent' = csent \cup {next.seq}
                  /\ UNCHANGED offers
    /\ UNCHANGED <<tracking, expired, dispatchVars, session, handling, toCenter>>

\* on_reply: the reply is scored before it is acknowledged.
ScoreReply ==
    /\ session
    /\ handling = <<>>
    /\ toCenter # <<>>
    /\ LET frame == Head(toCenter)
       IN /\ tracking' = [tracking EXCEPT ![frame.op] = ApplyEvents(@, ReplyTarget(frame.msg))]
          /\ handling' = <<frame>>
    /\ toCenter' = Tail(toCenter)
    /\ UNCHANGED <<offers, expired, dispatchVars, session, csent, toSite>>

\* Mutant: any reply settles everything sent.
CoveredAll(frame) == csent

\* The sent offers a frame acknowledges.
Covered(frame) == {seq \in csent : seq <= frame.acked}

\* The offers the frame acknowledges are settled, lowest first, and the frame
\* is acknowledged.  An offer row that was pruned meanwhile ends the session.
AckReply ==
    /\ handling # <<>>
    /\ LET frame == handling[1]
           pruned == Covered(frame) \ Seqs(offers)
           settled == {seq \in Covered(frame) : \A p \in pruned : seq < p}
       IN /\ offers' = AcknowledgeAll(offers, settled)
          /\ IF pruned # {}
             THEN EndSession /\ UNCHANGED toSite
             ELSE /\ csent' = csent \ Covered(frame)
                  /\ toSite' = Append(toSite, [kind |-> "ack"])
                  /\ handling' = <<>>
                  /\ UNCHANGED session
    /\ UNCHANGED <<tracking, expired, dispatchVars, toCenter>>

SessionStep == CenterFlush \/ ScoreReply \/ AckReply
==============================================================================
