------------------------------- MODULE SiteSync ------------------------------
(***************************************************************************)
(* The site's half of the center protocol (CenterSync): it answers         *)
(* operation offers, reports on center-sourced operations when a           *)
(* connection is established, and resends its unacknowledged replies.  The *)
(* engine is one thread.  A handler reads and decides in one step and then *)
(* performs its store writes one by one (`todo'): a crash or an error      *)
(* between two of them is what the redelivery paths repair.                *)
(***************************************************************************)
EXTENDS Operation, Sequences, FiniteSetsExt

CONSTANT RowStates     \* the operation states an instance tells apart

\* Queued is where an accepted operation starts; without the states left out
\* its row is simply never observed there.
ASSUME RowStatesAssumption == "Queued" \in RowStates /\ RowStates \subseteq OperationStates

VARIABLES
    inbox,         \* the inbox entry of each operation, "none" before insert
    row,           \* the site's operation rows
    replies,       \* the pending rows of the site's outbox, in sequence order
    ssent,         \* how many of them were sent on this connection
    tracked,       \* last_progress: the state last reported (in memory)
    discovered,    \* discovery_done: the process has scanned once (in memory)
    spc,           \* where the engine is
    scan,          \* the next state of the discovery scan
    known,         \* the operations the report has still to visit
    todo,          \* the writes the current handler has still to perform
    peerAcked,     \* the highest offer sequence received on this connection
    toSite,        \* frames on the wire to the site
    toCenter       \* frames on the wire to the center

siteVars == <<inbox, row, replies, tracked, discovered, spc, scan, known, todo,
              ssent, peerAcked>>
wireVars == <<toSite, toCenter>>

InboxStates == {"none", "Received", "Accepted", "Rejected", "Completed"}
Untracked == "untracked"
NotReported == "None"

\* A reply is its kind and, for progress and completion, the reported state.
Reply(kind, reported) == [kind |-> kind, reported |-> reported]

\* One store write of a handler, with the progress-map update that follows
\* it without an await ("keep" for none).
Write(do, o, arg, track) == [do |-> do, op |-> o, arg |-> arg, track |-> track]

\* CENTER_REPORT_IN_FLIGHT_STATES followed by CENTER_REPORT_TERMINAL_STATES.
ReportStates ==
    <<"Queued", "Validating", "Running", "WaitingRemote", "Verifying",
      "Succeeded", "Failed", "Unknown", "Cancelled">>

SiteInit ==
    /\ inbox = [o \in Ops |-> "none"]
    /\ row = [o \in Ops |-> "Absent"]
    /\ replies = <<>>
    /\ tracked = [o \in Ops |-> Untracked]
    /\ discovered = FALSE
    /\ spc = "down"
    /\ scan = 1
    /\ known = {}
    /\ todo = <<>>
    /\ ssent = 0
    /\ peerAcked = 0

-----------------------------------------------------------------------------
(* The writes a handler decides on.                                        *)

\* Mutant: a rejection is recorded before its reply is queued.
DecideAndRecordRejectFirst(o, accept) ==
    IF accept
    THEN <<Write("create", o, "Queued", NotReported),
           Write("enqueue", o, Reply("accepted", "none"), "keep"),
           Write("advance", o, "Accepted", "keep")>>
    ELSE <<Write("advance", o, "Rejected", "keep"),
           Write("enqueue", o, Reply("rejected", "none"), "keep")>>

\* decide_and_record.
DecideAndRecord(o, accept) ==
    IF accept
    THEN <<Write("create", o, "Queued", NotReported),
           Write("enqueue", o, Reply("accepted", "none"), "keep"),
           Write("advance", o, "Accepted", "keep")>>
    ELSE <<Write("enqueue", o, Reply("rejected", "none"), "keep"),
           Write("advance", o, "Rejected", "keep")>>

\* reply_to_in_progress_duplicate, for an operation that exists.
ReplyInProgress(o) ==
    IF row[o] \in TerminalStates
    THEN <<Write("enqueue", o, Reply("completed", row[o]), "keep"),
           Write("advance", o, "Accepted", "keep"),
           Write("advance", o, "Completed", Untracked)>>
    ELSE <<Write("enqueue", o, Reply("progress", row[o]), "keep"),
           Write("advance", o, "Accepted", row[o])>>

\* reply_to_resolved_duplicate: a rejection stays one; a completed operation
\* is answered from its row.
ReplyResolved(o) ==
    <<Write("enqueue", o,
            IF inbox[o] = "Rejected" THEN Reply("rejected", "none")
            ELSE Reply("completed", IF row[o] = "Absent" THEN "Failed" ELSE row[o]),
            "keep")>>

\* handle_offer, after the insert.  `accept' is decide_offer's verdict: it
\* depends on the site's endpoints, capabilities, credentials and clock.
AnswerOffer(o, accept) ==
    IF inbox[o] \in {"Rejected", "Completed"} THEN ReplyResolved(o)
    ELSE IF row[o] = "Absent" THEN DecideAndRecord(o, accept)
    ELSE ReplyInProgress(o)

\* report_open_entry for an operation read in state s.
ReportOpenEntry(o, s) ==
    IF inbox[o] \in {"none", "Rejected", "Completed"} THEN <<>>
    ELSE (IF inbox[o] = "Received"
          THEN <<Write("advance", o, "Accepted", "keep")>> ELSE <<>>) \o
         (IF s \in TerminalStates
          THEN <<Write("enqueue", o, Reply("completed", s), "keep"),
                 Write("advance", o, "Completed", Untracked)>>
          ELSE IF tracked[o] = s THEN <<>>
          ELSE <<Write("enqueue", o, Reply("progress", s), s)>>)

-----------------------------------------------------------------------------
(* The engine.                                                             *)

\* The connection is gone; the handler stops where it is.
SiteDisconnected ==
    /\ spc' = "down"
    /\ scan' = 1
    /\ known' = {}
    /\ todo' = <<>>
    /\ ssent' = 0
    /\ peerAcked' = 0

InboxFrom(event) == IF event = "Completed" THEN "Accepted" ELSE "Received"

\* advance_inbox_entry refuses any other state than the event's own two.
StateConflict(o, event) == inbox[o] \notin {InboxFrom(event), event}

\* The next store write of the handler.
SiteWrite ==
    /\ todo # <<>>
    /\ LET w == Head(todo)
       IN IF w.do = "advance" /\ StateConflict(w.op, w.arg)
          THEN SiteDisconnected /\ UNCHANGED <<inbox, row, replies, tracked>>
          ELSE /\ inbox' = IF w.do = "advance" THEN [inbox EXCEPT ![w.op] = w.arg]
                                               ELSE inbox
               /\ row' = IF w.do = "create" /\ row[w.op] = "Absent"
                         THEN [row EXCEPT ![w.op] = "Queued"] ELSE row
               /\ replies' = IF w.do = "enqueue" THEN Append(replies, [op |-> w.op, msg |-> w.arg])
                                                 ELSE replies
               /\ tracked' = IF w.track = "keep" THEN tracked
                             ELSE [tracked EXCEPT ![w.op] = w.track]
               /\ todo' = Tail(todo)
               /\ UNCHANGED <<spc, scan, known, ssent, peerAcked>>
    /\ UNCHANGED <<discovered, wireVars>>

\* flush_outbox has something to send, or the engine waits for a frame.
FlushNext(sent, pending) == IF sent < Len(pending) THEN "flush" ELSE "loop"

\* report_center_operations, first time: list the next state's operations.
\* An operation that moves on meanwhile is found again under its later state.
Discover ==
    /\ spc = "discover"
    /\ todo = <<>>
    /\ known = {}
    /\ IF scan > Len(ReportStates)
       THEN /\ discovered' = TRUE
            /\ spc' = FlushNext(ssent, replies)
            /\ UNCHANGED <<scan, known>>
       ELSE /\ known' = {o \in Ops : row[o] = ReportStates[scan]}
            /\ scan' = scan + 1
            /\ UNCHANGED <<discovered, spc>>
    /\ UNCHANGED <<inbox, row, replies, tracked, todo, ssent, peerAcked, wireVars>>

\* The listed operations, one by one, in the state they were listed in.
ReportListed ==
    /\ spc = "discover"
    /\ todo = <<>>
    /\ \E o \in known : /\ known' = known \ {o}
                        /\ todo' = ReportOpenEntry(o, ReportStates[scan - 1])
    /\ UNCHANGED <<inbox, row, replies, tracked, discovered, spc, scan, ssent,
                   peerAcked, wireVars>>

\* report_center_operations, later: the tracked operations, one by one.
ReportKnown ==
    /\ spc = "known"
    /\ todo = <<>>
    /\ \/ /\ known = {}
          /\ spc' = FlushNext(ssent, replies)
          /\ UNCHANGED <<known, todo, tracked>>
       \/ \E o \in known :
             /\ known' = known \ {o}
             /\ IF inbox[o] \in {"none", "Rejected", "Completed"} \/ row[o] = "Absent"
                THEN tracked' = [tracked EXCEPT ![o] = Untracked] /\ UNCHANGED todo
                ELSE todo' = ReportOpenEntry(o, row[o]) /\ UNCHANGED tracked
             /\ UNCHANGED spc
    /\ UNCHANGED <<inbox, row, replies, discovered, scan, ssent, peerAcked, wireVars>>

\* flush_outbox: the pending replies not sent on this connection yet, in
\* sequence order, each carrying the acknowledgement of the offers received.
SiteFlush ==
    /\ spc = "flush"
    /\ todo = <<>>
    /\ toCenter' = Append(toCenter, [op |-> replies[ssent + 1].op,
                                     msg |-> replies[ssent + 1].msg,
                                     acked |-> peerAcked])
    /\ ssent' = ssent + 1
    /\ spc' = FlushNext(ssent', replies)
    /\ UNCHANGED <<inbox, row, replies, tracked, discovered, scan, known, todo,
                   peerAcked, toSite>>

\* handle_offer: the inbox insert and the decision.
ReceiveOffer ==
    /\ spc = "loop"
    /\ toSite # <<>>
    /\ Head(toSite).kind = "offer"
    /\ LET o == Head(toSite).op
       IN /\ inbox' = [inbox EXCEPT ![o] = IF @ = "none" THEN "Received" ELSE @]
          /\ \E accept \in BOOLEAN : todo' = AnswerOffer(o, accept)
    /\ peerAcked' = Max({peerAcked, Head(toSite).seq})
    /\ toSite' = Tail(toSite)
    /\ spc' = "flush"
    /\ UNCHANGED <<row, replies, tracked, discovered, scan, known, ssent, toCenter>>

\* Mutant: the acknowledged row leaves the outbox and stays counted as sent.
ReceiveAckStillCounted ==
    /\ spc = "loop"
    /\ toSite # <<>>
    /\ Head(toSite).kind = "ack"
    /\ replies' = Tail(replies)
    /\ toSite' = Tail(toSite)
    /\ spc' = FlushNext(ssent, replies')
    /\ UNCHANGED <<inbox, row, tracked, discovered, scan, known, todo, ssent,
                   peerAcked, toCenter>>

\* ack_outbox: the center acknowledges each reply in the order it was sent,
\* so an acknowledgement settles the oldest one.
ReceiveAck ==
    /\ spc = "loop"
    /\ toSite # <<>>
    /\ Head(toSite).kind = "ack"
    /\ replies' = Tail(replies)
    /\ ssent' = ssent - 1
    /\ toSite' = Tail(toSite)
    /\ spc' = FlushNext(ssent', replies')
    /\ UNCHANGED <<inbox, row, tracked, discovered, scan, known, todo, peerAcked,
                   toCenter>>

\* The site's own scheduler moves a row on (OperationContract).
SiteExecute(o) ==
    /\ \E to \in Later(row[o]) \cap RowStates : row' = [row EXCEPT ![o] = to]
    /\ UNCHANGED <<inbox, replies, tracked, discovered, spc, scan, known, todo,
                   ssent, peerAcked, wireVars>>

SiteStep ==
    \/ SiteWrite \/ Discover \/ ReportListed \/ ReportKnown \/ SiteFlush
    \/ ReceiveOffer \/ ReceiveAck
==============================================================================
