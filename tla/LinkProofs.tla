------------------------------ MODULE LinkProofs -----------------------------
(***************************************************************************)
(* The site-to-center link for any number of operations, targets, requests *)
(* and faults: TypeOK, ReplyNeverLost, CenterVerdictIsTrue,                *)
(* OnePendingOffer, TargetIsRemembered, OfferNeverLost, OneLiveIdPerTarget *)
(* and the contract of LinkContract.                                       *)
(***************************************************************************)
EXTENDS CenterLink, LinkLemmas

-----------------------------------------------------------------------------
(* Control: what the variables hold, that the center has a record of every  *)
(* operation named anywhere, and which replies the two ends have exchanged. *)

SiteWrites ==
    [do : {"create"}, op : Ops, arg : {"Queued"}, track : {NotReported}]
    \cup [do : {"advance"}, op : Ops, arg : {"Accepted", "Rejected", "Completed"},
          track : OperationStates \cup {"keep", Untracked}]
    \cup [do : {"enqueue"}, op : Ops, arg : Messages,
          track : OperationStates \cup {"keep"}]
SiteReplies == [op : Ops, msg : Messages]
SiteFrames == [kind : {"offer"}, seq : Nat \ {0}, op : Ops] \cup [kind : {"ack"}]
CenterFrames == [op : Ops, msg : Messages, acked : Nat]

SiteTypes ==
    /\ inbox \in [Ops -> InboxStates]
    /\ row \in [Ops -> RowStates \cup {"Absent"}]
    /\ tracked \in [Ops -> OperationStates \cup {Untracked, NotReported}]
    /\ replies \in Seq(SiteReplies)
    /\ ssent \in Nat
    /\ scan \in 1 .. 10
    /\ spc = "discover" /\ known # {} => scan > 1
    /\ known \subseteq Ops
    /\ todo \in Seq(SiteWrites)
    /\ peerAcked \in Nat
    /\ toSite \in Seq(SiteFrames)
    /\ toCenter \in Seq(CenterFrames)

CenterTypes ==
    /\ tracking \in [Ops -> PersistedStates \cup TerminalStates \cup {"Absent"}]
    /\ offers \subseteq OfferRows /\ IsFiniteSet(offers)
    /\ dop \in Ops \cup {0}
    /\ candidates \subseteq Ops
    /\ dpc # "idle" => dtarget \in Targets
    /\ dpc \in {"retire", "enqueue", "settle"} => dop \in Ops
    /\ dpc \in {"idle", "scan", "resolve", "unknown", "retire", "enqueue", "settle"}
    /\ dscan \in 1 .. 3
    /\ csent \subseteq Nat \ {0}
    /\ handling \in Seq(CenterFrames) /\ Len(handling) <= 1

\* The center has a record of the operation.
Recorded(o) == tracking[o] # "Absent"

Named ==
    /\ \A offer \in offers : Recorded(offer.op)
    /\ \A o \in candidates : Recorded(o)
    /\ dpc \in {"retire", "enqueue", "settle"} => Recorded(dop)
    /\ \A o \in Ops : inbox[o] # "none" => Recorded(o)
    /\ \A i \in DOMAIN todo : Recorded(todo[i].op)
    /\ \A i \in DOMAIN replies : Recorded(replies[i].op)
    /\ \A i \in DOMAIN toSite : toSite[i].kind = "offer" => Recorded(toSite[i].op)
    /\ \A i \in DOMAIN toCenter : Recorded(toCenter[i].op)

\* The acknowledgements on the wire.
Acks == Cardinality(AckPositions(toSite))

\* A final reply and, of one that was scored, what it has left.
IsFinal(msg) == msg.kind \in {"rejected", "completed"}
IsScored(reply) == IsFinal(reply.msg) => tracking[reply.op] \in TerminalStates

\* The outbox begins with the replies whose acknowledgement is on the wire;
\* the one in hand and those on the wire to the center follow.
Exchange ==
    /\ spc = "down" => ssent = 0 /\ peerAcked = 0
    /\ ~session => csent = {} /\ handling = <<>>
    /\ ssent <= Len(replies)
    /\ spc = "flush" => \/ ssent < Len(replies)
                        \/ \E i \in DOMAIN todo : todo[i].do = "enqueue"
    /\ spc # "down" => /\ Acks <= ssent
                       /\ \A i \in 1 .. Acks : IsScored(replies[i])
    /\ spc # "down" /\ session =>
          /\ ssent = Acks + Len(handling) + Len(toCenter)
          /\ \A i \in DOMAIN toCenter :
                LET reply == replies[Acks + Len(handling) + i]
                IN toCenter[i].op = reply.op /\ toCenter[i].msg = reply.msg
          /\ handling # <<>> => IsScored(replies[Acks + 1])

Control == SiteTypes /\ CenterTypes /\ Named /\ Exchange

-----------------------------------------------------------------------------
(* Replies: a handler queues the final reply before it closes the entry.    *)

\* The operation's outcome is at the center or in the outbox.
Answered(o) ==
    \/ tracking[o] \in TerminalStates
    \/ \E i \in DOMAIN replies : replies[i].op = o /\ IsFinal(replies[i].msg)

Closes(w) == w.do = "advance" /\ w.arg \in {"Rejected", "Completed"}

ClosingIsAnswered ==
    \A i \in DOMAIN todo : Closes(todo[i]) =>
        \/ Answered(todo[i].op)
        \/ \E j \in 1 .. i - 1 : /\ todo[j].do = "enqueue"
                                 /\ todo[j].op = todo[i].op
                                 /\ IsFinal(todo[j].arg)

Answers == ReplyNeverLost /\ ClosingIsAnswered

-----------------------------------------------------------------------------
(* Verdicts: a completion that is on its way tells the truth.               *)

IsTrue(o, msg) ==
    msg.kind = "completed" /\ msg.reported \in {"Succeeded", "Cancelled", "Unknown"}
        => row[o] = msg.reported

ListedAsFinished ==
    spc = "discover" =>
        \A o \in known : ReportStates[scan - 1] \in TerminalStates
                            => row[o] = ReportStates[scan - 1]

Verdicts ==
    /\ CenterVerdictIsTrue
    /\ ListedAsFinished
    /\ \A i \in DOMAIN todo : todo[i].do = "enqueue" => IsTrue(todo[i].op, todo[i].arg)
    /\ \A i \in DOMAIN replies : IsTrue(replies[i].op, replies[i].msg)
    /\ \A i \in DOMAIN toCenter : IsTrue(toCenter[i].op, toCenter[i].msg)

-----------------------------------------------------------------------------
(* Offers: what the rows of one operation agree on, and what the dispatch   *)
(* relies on between its steps.                                             *)

RowsAgree ==
    /\ UniqueSeqs(offers)
    /\ \A r, s \in offers : r.op = s.op => r.msg = s.msg
    /\ \A r, s \in Pending(offers) : r.op = s.op => r = s

DispatchKnows ==
    /\ dpc \in {"retire", "enqueue"} => \A r \in RowsOf(offers, dop) : r.msg = dtarget
    /\ dpc = "enqueue" => PendingOf(dop) = {}
    /\ dpc = "retire" => /\ dtodo # {} /\ dtodo \subseteq expired
                         /\ dtodo \subseteq Nat \ {0}
                         /\ Seqs(PendingOf(dop)) \subseteq dtodo
                         /\ RowsOf(offers, dop) # {}

Offers == RowsAgree /\ DispatchKnows

-----------------------------------------------------------------------------
(* Delivery: which offers the site has received.                            *)

\* The offer with this number, if it still has a row, is in the inbox.
Got(seq) == \A r \in offers : r.seq = seq => inbox[r.op] # "none"

\* The number was given out already.
Below(n) == n = 0 \/ \E r \in offers : n <= r.seq

\* What the center has been told is received.
Told == {toCenter[i].acked : i \in DOMAIN toCenter}
           \cup {handling[i].acked : i \in DOMAIN handling} \cup {peerAcked}

\* Every number the ends hold was given out.
Numbered == \A n \in csent \cup Told : Below(n)

WireOrder ==
    /\ Ascending(toSite)
    /\ \A f \in OffersIn(toSite) : Below(f.seq) /\ \A r \in offers : r.seq = f.seq => r.op = f.op

\* What the center takes for received was.
ToldIsGot == \A n \in Told : \A seq \in csent : seq <= n => Got(seq)

\* What was sent has arrived or is on the wire.
SentArrives ==
    spc # "down" => \A seq \in csent : Got(seq) \/ \E f \in OffersIn(toSite) : f.seq = seq

\* What is still to be sent is newer than all that was.
UnsentIsNewer ==
    session => \A r \in Pending(offers) : r.seq \notin csent =>
        /\ \A n \in Told : n < r.seq
        /\ \A f \in OffersIn(toSite) : f.seq < r.seq

\* An acknowledged row was delivered, has expired or was followed by another.
AckedIsGot ==
    \A r \in offers : r.acked =>
        \/ inbox[r.op] # "none"
        \/ r.seq \in expired
        \/ \E s \in offers : s.op = r.op /\ s.seq > r.seq

Delivery ==
    /\ Numbered /\ WireOrder /\ ToldIsGot /\ SentArrives /\ UnsentIsNewer
    /\ AckedIsGot

-----------------------------------------------------------------------------
(* Scan: the dispatch misses no undecided operation.                        *)

\* No two undecided operations are on offer for the same target.
TargetsDiffer ==
    \A r, s \in offers : (r.op # s.op /\ Undecided(r.op) /\ Undecided(s.op)) => r.msg # s.msg

\* An operation the scan has not found yet is in a state it will come to.
ScanCovers ==
    /\ dpc = "idle" => dscan = 1
    /\ dpc = "scan" => \A o \in Ops : Undecided(o) =>
          o \in candidates \/ \E i \in dscan .. 3 : tracking[o] = ScanStates[i]
    /\ dpc \in {"resolve", "unknown"} => \A o \in Ops : Undecided(o) => o \in candidates

\* No other undecided operation is on offer for the target of the request.
TargetIsFree ==
    /\ dpc = "unknown" => \A r \in offers : Undecided(r.op) => r.msg # dtarget
    /\ dpc = "enqueue" /\ Undecided(dop) =>
          \A r \in offers : r.op # dop /\ Undecided(r.op) => r.msg # dtarget

Scan == TargetsDiffer /\ ScanCovers /\ TargetIsFree

IInv == Control /\ Answers /\ Verdicts /\ Offers /\ Delivery /\ Scan

-----------------------------------------------------------------------------
(* The writes a handler of the site decides on.                             *)

HandlerWrites(o, ws) ==
    /\ ws \in Seq(SiteWrites)
    /\ \A i \in DOMAIN ws : ws[i].op = o
    /\ \A i \in DOMAIN ws : Closes(ws[i]) =>
          \E j \in 1 .. i - 1 : ws[j].do = "enqueue" /\ IsFinal(ws[j].arg)
    /\ \A i \in DOMAIN ws : ws[i].do = "enqueue" => IsTrue(o, ws[i].arg)

LEMMA WriteTypes ==
    ASSUME NEW o \in Ops
    PROVE  /\ Write("create", o, "Queued", NotReported) \in SiteWrites
           /\ \A a \in {"Accepted", "Rejected", "Completed"}, t \in OperationStates \cup {"keep", Untracked} :
                 Write("advance", o, a, t) \in SiteWrites
           /\ \A m \in Messages, t \in OperationStates \cup {"keep"} :
                 Write("enqueue", o, m, t) \in SiteWrites
BY DEF Write, SiteWrites

LEMMA WriteFields ==
    ASSUME NEW d, NEW o, NEW a, NEW t
    PROVE  /\ Write(d, o, a, t).do = d /\ Write(d, o, a, t).op = o
           /\ Write(d, o, a, t).arg = a /\ Write(d, o, a, t).track = t
BY DEF Write

LEMMA ReplyTypes ==
    ASSUME NEW s \in OperationStates \cup {"none"},
           NEW k \in {"accepted", "rejected", "progress", "completed"}
    PROVE  Reply(k, s) \in Messages /\ Reply(k, s).kind = k /\ Reply(k, s).reported = s
BY DEF Reply, Messages

\* A completion is queued before its entry is closed, the entry advanced
\* first or not.
LEMMA CompletionWrites ==
    ASSUME NEW o \in Ops, NEW a, NEW b, NEW c, NEW msg \in Messages, IsFinal(msg),
           IsTrue(o, msg), NEW t \in OperationStates \cup {Untracked, "keep"},
           a = Write("advance", o, "Accepted", "keep"),
           b = Write("enqueue", o, msg, "keep"),
           \E e \in {"Rejected", "Completed"} : c = Write("advance", o, e, t)
    PROVE  /\ HandlerWrites(o, <<b>>)
           /\ HandlerWrites(o, <<b, c>>)
           /\ HandlerWrites(o, <<a, b, c>>)
           /\ HandlerWrites(o, <<b, a, c>>)
<1>1. a \in SiteWrites /\ b \in SiteWrites /\ c \in SiteWrites
  BY WriteTypes
<1>2. /\ a.op = o /\ a.do = "advance" /\ a.arg = "Accepted"
      /\ b.op = o /\ b.do = "enqueue" /\ b.arg = msg
      /\ c.op = o /\ c.do = "advance"
  BY WriteFields
<1>3. ~Closes(a) /\ ~Closes(b) /\ IsFinal(b.arg) /\ IsTrue(o, b.arg)
  BY <1>2 DEF Closes
<1>4. HandlerWrites(o, <<b>>)
  BY <1>1, <1>2, <1>3 DEF HandlerWrites
<1>5. HandlerWrites(o, <<b, c>>)
  <2> DEFINE ws == <<b, c>>
  <2>1. ws \in Seq(SiteWrites) /\ DOMAIN ws = 1 .. 2 /\ ws[1] = b /\ ws[2] = c
    BY <1>1
  <2> HIDE DEF ws
  <2>2. \A i \in DOMAIN ws : /\ ws[i].op = o
                             /\ ws[i].do = "enqueue" => IsTrue(o, ws[i].arg)
                             /\ Closes(ws[i]) => i = 2
    BY <2>1, <1>2, <1>3
  <2>3. 1 \in 1 .. 2 - 1 /\ ws[1].do = "enqueue" /\ IsFinal(ws[1].arg)
    BY <2>1, <1>2, <1>3
  <2>4. \A i \in DOMAIN ws : Closes(ws[i]) =>
           \E j \in 1 .. i - 1 : ws[j].do = "enqueue" /\ IsFinal(ws[j].arg)
    BY <2>2, <2>3
  <2>5. HandlerWrites(o, ws)
    BY <2>1, <2>2, <2>4 DEF HandlerWrites
  <2> QED
    BY <2>5 DEF ws
<1>6. HandlerWrites(o, <<a, b, c>>)
  <2> DEFINE ws == <<a, b, c>>
  <2>1. ws \in Seq(SiteWrites) /\ DOMAIN ws = 1 .. 3 /\ ws[1] = a /\ ws[2] = b /\ ws[3] = c
    BY <1>1
  <2> HIDE DEF ws
  <2>2. \A i \in DOMAIN ws : /\ ws[i].op = o
                             /\ ws[i].do = "enqueue" => IsTrue(o, ws[i].arg)
                             /\ Closes(ws[i]) => i = 3
    BY <2>1, <1>2, <1>3
  <2>3. 2 \in 1 .. 3 - 1 /\ ws[2].do = "enqueue" /\ IsFinal(ws[2].arg)
    BY <2>1, <1>2, <1>3
  <2>4. \A i \in DOMAIN ws : Closes(ws[i]) =>
           \E j \in 1 .. i - 1 : ws[j].do = "enqueue" /\ IsFinal(ws[j].arg)
    BY <2>2, <2>3
  <2>5. HandlerWrites(o, ws)
    BY <2>1, <2>2, <2>4 DEF HandlerWrites
  <2> QED
    BY <2>5 DEF ws
<1>7. HandlerWrites(o, <<b, a, c>>)
  <2> DEFINE ws == <<b, a, c>>
  <2>1. ws \in Seq(SiteWrites) /\ DOMAIN ws = 1 .. 3 /\ ws[1] = b /\ ws[2] = a /\ ws[3] = c
    BY <1>1
  <2> HIDE DEF ws
  <2>2. \A i \in DOMAIN ws : /\ ws[i].op = o
                             /\ ws[i].do = "enqueue" => IsTrue(o, ws[i].arg)
                             /\ Closes(ws[i]) => i = 3
    BY <2>1, <1>2, <1>3
  <2>3. 1 \in 1 .. 3 - 1 /\ ws[1].do = "enqueue" /\ IsFinal(ws[1].arg)
    BY <2>1, <1>2, <1>3
  <2>4. \A i \in DOMAIN ws : Closes(ws[i]) =>
           \E j \in 1 .. i - 1 : ws[j].do = "enqueue" /\ IsFinal(ws[j].arg)
    BY <2>2, <2>3
  <2>5. HandlerWrites(o, ws)
    BY <2>1, <2>2, <2>4 DEF HandlerWrites
  <2> QED
    BY <2>5 DEF ws
<1> QED
  BY <1>4, <1>5, <1>6, <1>7

\* Writes that close nothing and report no completion.
LEMMA ProgressWrites ==
    ASSUME NEW o \in Ops, NEW ws \in Seq(SiteWrites),
           \A i \in DOMAIN ws : /\ ws[i].op = o /\ ~Closes(ws[i])
                                /\ ws[i].do = "enqueue" => ws[i].arg.kind # "completed"
    PROVE  HandlerWrites(o, ws)
BY DEF HandlerWrites, IsTrue

\* handle_offer's writes: one of them queues a reply.
LEMMA AnswerOfferWrites ==
    ASSUME SiteTypes, NEW o \in Ops, NEW accept \in BOOLEAN
    PROVE  /\ HandlerWrites(o, AnswerOffer(o, accept))
           /\ \E i \in DOMAIN AnswerOffer(o, accept) : AnswerOffer(o, accept)[i].do = "enqueue"
<1> DEFINE ws == AnswerOffer(o, accept)
<1>0. row[o] \in OperationStates \cup {"Absent"}
  BY RowStatesAssumption DEF SiteTypes
<1>1. CASE inbox[o] \in {"Rejected", "Completed"}
  <2> DEFINE msg == IF inbox[o] = "Rejected" THEN Reply("rejected", "none")
                    ELSE Reply("completed", IF row[o] = "Absent" THEN "Failed" ELSE row[o])
  <2>1. ws = <<Write("enqueue", o, msg, "keep")>>
    BY <1>1 DEF AnswerOffer, ReplyResolved
  <2>2. msg \in Messages /\ IsFinal(msg) /\ IsTrue(o, msg)
    BY <1>0, ReplyTypes DEF IsFinal, IsTrue, OperationStates, TerminalStates
  <2> HIDE DEF msg
  <2>3. HandlerWrites(o, <<Write("enqueue", o, msg, "keep")>>)
    BY <2>2, CompletionWrites DEF OperationStates
  <2>4. 1 \in DOMAIN ws /\ ws[1].do = "enqueue"
    BY <2>1, WriteFields
  <2> QED
    BY <2>1, <2>3, <2>4
<1>2. CASE inbox[o] \notin {"Rejected", "Completed"} /\ row[o] = "Absent" /\ accept
  <2> DEFINE a == Write("create", o, "Queued", NotReported)
             b == Write("enqueue", o, Reply("accepted", "none"), "keep")
             c == Write("advance", o, "Accepted", "keep")
  <2>1. ws = <<a, b, c>>
    BY <1>2 DEF AnswerOffer, DecideAndRecord
  <2>2. Reply("accepted", "none") \in Messages /\ Reply("accepted", "none").kind = "accepted"
    BY ReplyTypes
  <2>3. a \in SiteWrites /\ b \in SiteWrites /\ c \in SiteWrites
    BY <2>2, WriteTypes
  <2>4. /\ a.op = o /\ b.op = o /\ c.op = o /\ a.do = "create" /\ b.do = "enqueue"
        /\ c.do = "advance" /\ c.arg = "Accepted" /\ b.arg.kind = "accepted"
    BY <2>2, WriteFields
  <2> HIDE DEF a, b, c, ws
  <2>5. ws \in Seq(SiteWrites) /\ DOMAIN ws = 1 .. 3 /\ ws[1] = a /\ ws[2] = b /\ ws[3] = c
    BY <2>1, <2>3
  <2>6. \A i \in DOMAIN ws : /\ ws[i].op = o /\ ~Closes(ws[i])
                             /\ ws[i].do = "enqueue" => ws[i].arg.kind # "completed"
    BY <2>4, <2>5 DEF Closes
  <2>7. HandlerWrites(o, ws)
    BY <2>5, <2>6, ProgressWrites
  <2> QED
    BY <2>4, <2>5, <2>7 DEF ws
<1>3. CASE inbox[o] \notin {"Rejected", "Completed"} /\ row[o] = "Absent" /\ ~accept
  <2> DEFINE msg == Reply("rejected", "none")
  <2>1. ws = <<Write("enqueue", o, msg, "keep"), Write("advance", o, "Rejected", "keep")>>
    BY <1>3 DEF AnswerOffer, DecideAndRecord
  <2>2. msg \in Messages /\ IsFinal(msg) /\ IsTrue(o, msg)
    BY ReplyTypes DEF IsFinal, IsTrue
  <2> HIDE DEF msg
  <2>3. HandlerWrites(o, <<Write("enqueue", o, msg, "keep"), Write("advance", o, "Rejected", "keep")>>)
    BY <2>2, CompletionWrites DEF OperationStates
  <2>4. 1 \in DOMAIN ws /\ ws[1].do = "enqueue"
    BY <2>1, WriteFields
  <2> QED
    BY <2>1, <2>3, <2>4
<1>4. CASE /\ inbox[o] \notin {"Rejected", "Completed"} /\ row[o] # "Absent"
           /\ row[o] \in TerminalStates
  <2> DEFINE msg == Reply("completed", row[o])
             a == Write("advance", o, "Accepted", "keep")
             b == Write("enqueue", o, msg, "keep")
             c == Write("advance", o, "Completed", Untracked)
  <2>1. ws = <<b, a, c>>
    BY <1>4 DEF AnswerOffer, ReplyInProgress
  <2>2. msg \in Messages /\ IsFinal(msg) /\ IsTrue(o, msg)
    BY <1>0, <1>4, ReplyTypes DEF IsFinal, IsTrue
  <2> HIDE DEF msg
  <2>3. HandlerWrites(o, <<b, a, c>>)
    BY <2>2, CompletionWrites
  <2>4. 1 \in DOMAIN ws /\ ws[1].do = "enqueue"
    BY <2>1, WriteFields
  <2> QED
    BY <2>1, <2>3, <2>4
<1>5. CASE /\ inbox[o] \notin {"Rejected", "Completed"} /\ row[o] # "Absent"
           /\ row[o] \notin TerminalStates
  <2> DEFINE b == Write("enqueue", o, Reply("progress", row[o]), "keep")
             c == Write("advance", o, "Accepted", row[o])
  <2>1. ws = <<b, c>>
    BY <1>5 DEF AnswerOffer, ReplyInProgress
  <2>2. /\ Reply("progress", row[o]) \in Messages
        /\ Reply("progress", row[o]).kind = "progress"
    BY <1>0, <1>5, ReplyTypes
  <2>3. b \in SiteWrites /\ c \in SiteWrites
    BY <1>0, <1>5, <2>2, WriteTypes
  <2>4. /\ b.op = o /\ c.op = o /\ b.do = "enqueue"
        /\ c.do = "advance" /\ c.arg = "Accepted" /\ b.arg.kind = "progress"
    BY <2>2, WriteFields
  <2> HIDE DEF b, c, ws
  <2>5. ws \in Seq(SiteWrites) /\ DOMAIN ws = 1 .. 2 /\ ws[1] = b /\ ws[2] = c
    BY <2>1, <2>3
  <2>6. \A i \in DOMAIN ws : /\ ws[i].op = o /\ ~Closes(ws[i])
                             /\ ws[i].do = "enqueue" => ws[i].arg.kind # "completed"
    BY <2>4, <2>5 DEF Closes
  <2>7. HandlerWrites(o, ws)
    BY <2>5, <2>6, ProgressWrites
  <2> QED
    BY <2>4, <2>5, <2>7 DEF ws
<1> QED
  BY <1>1, <1>2, <1>3, <1>4, <1>5

\* report_open_entry's writes, for the state the operation is or was in.
LEMMA ReportWrites ==
    ASSUME NEW o \in Ops, NEW s \in OperationStates, s \in TerminalStates => row[o] = s
    PROVE  HandlerWrites(o, ReportOpenEntry(o, s))
<1> DEFINE ws == ReportOpenEntry(o, s)
           a == Write("advance", o, "Accepted", "keep")
           b == Write("enqueue", o, Reply("completed", s), "keep")
           c == Write("advance", o, "Completed", Untracked)
           d == Write("enqueue", o, Reply("progress", s), s)
<1>0. /\ <<>> \o <<>> = <<>> /\ <<a>> \o <<>> = <<a>> /\ <<a>> \o <<d>> = <<a, d>>
      /\ <<>> \o <<d>> = <<d>> /\ <<>> \o <<b, c>> = <<b, c>>
      /\ <<a>> \o <<b, c>> = <<a, b, c>>
  <2> HIDE DEF a, b, c, d
  <2>1. <<>> \o <<>> = <<>> /\ <<a>> \o <<>> = <<a>>
    OBVIOUS
  <2>2. <<a>> \o <<d>> = <<a, d>>
    BY ConcatTwo
  <2>3. <<>> \o <<d>> = <<d>>
    OBVIOUS
  <2>4. <<>> \o <<b, c>> = <<b, c>>
    OBVIOUS
  <2>5. <<a>> \o <<b, c>> = <<a, b, c>>
    BY ConcatThree
  <2> QED
    BY <2>1, <2>2, <2>3, <2>4, <2>5
<1>1. ws \in {<<>>, <<a>>, <<d>>, <<a, d>>} \/ (s \in TerminalStates /\ ws \in {<<b, c>>, <<a, b, c>>})
  <2> DEFINE p == IF inbox[o] = "Received" THEN <<a>> ELSE <<>>
             q == IF s \in TerminalStates THEN <<b, c>> ELSE IF tracked[o] = s THEN <<>> ELSE <<d>>
  <2>1. ws = <<>> \/ ws = p \o q
    BY DEF ReportOpenEntry
  <2>2. p \in {<<>>, <<a>>} /\ (q \in {<<>>, <<d>>} \/ (s \in TerminalStates /\ q = <<b, c>>))
    OBVIOUS
  <2> HIDE DEF a, b, c, d, p, q, ws
  <2> QED
    BY <1>0, <2>1, <2>2
<1>2. /\ Reply("completed", s) \in Messages /\ IsFinal(Reply("completed", s))
      /\ s \in TerminalStates => IsTrue(o, Reply("completed", s))
      /\ Reply("progress", s) \in Messages /\ Reply("progress", s).kind = "progress"
  BY ReplyTypes DEF IsFinal, IsTrue
<1>3. s \in TerminalStates => HandlerWrites(o, <<b, c>>) /\ HandlerWrites(o, <<a, b, c>>)
  BY <1>2, CompletionWrites
<1>4. a \in SiteWrites /\ d \in SiteWrites
  BY <1>2, WriteTypes
<1>5. /\ a.op = o /\ a.do = "advance" /\ a.arg = "Accepted"
      /\ d.op = o /\ d.do = "enqueue" /\ d.arg.kind = "progress"
  BY <1>2, WriteFields
<1> HIDE DEF a, b, c, d, ws
<1>6. ASSUME ws \in {<<>>, <<a>>, <<d>>, <<a, d>>} PROVE HandlerWrites(o, ws)
  <2>1. ws \in Seq(SiteWrites) /\ \A i \in DOMAIN ws : ws[i] \in {a, d}
    <3>1. CASE ws = <<>>
      BY <3>1
    <3>2. CASE ws = <<a>>
      BY <1>4, <3>2
    <3>3. CASE ws = <<d>>
      BY <1>4, <3>3
    <3>4. CASE ws = <<a, d>>
      BY <1>4, <3>4
    <3> QED
      BY <1>6, <3>1, <3>2, <3>3, <3>4
  <2>2. \A i \in DOMAIN ws : /\ ws[i].op = o /\ ~Closes(ws[i])
                             /\ ws[i].do = "enqueue" => ws[i].arg.kind # "completed"
    BY <1>5, <2>1 DEF Closes
  <2> QED
    BY <2>1, <2>2, ProgressWrites
<1>7. HandlerWrites(o, ws)
  BY <1>1, <1>3, <1>6
<1> QED
  BY <1>7 DEF ws

-----------------------------------------------------------------------------
(* Control.                                                                 *)

\* Records are kept, and finished ones do not change.
Forward ==
    /\ tracking' \in [Ops -> PersistedStates \cup TerminalStates \cup {"Absent"}]
    /\ \A o \in Ops : /\ Recorded(o) => Recorded(o)'
                      /\ tracking[o] \in TerminalStates => tracking'[o] = tracking[o]

LEMMA ForwardStays ==
    ASSUME CenterTypes, tracking' = tracking
    PROVE  Forward
BY DEF CenterTypes, Forward, Recorded

\* The center does nothing.
LEMMA CenterStays ==
    ASSUME CenterTypes, UNCHANGED centerVars
    PROVE  CenterTypes' /\ Forward
<1>1. CenterTypes'
  BY DEF CenterTypes, centerVars, dispatchVars, sessionVars
<1> QED
  BY <1>1, ForwardStays DEF centerVars

\* What the center has in its own hands is named as before.
NamedAtCenter ==
    /\ \A offer \in offers : Recorded(offer.op)
    /\ \A o \in candidates : Recorded(o)
    /\ dpc \in {"retire", "enqueue", "settle"} => Recorded(dop)

NamedAtSite ==
    /\ \A o \in Ops : inbox[o] # "none" => Recorded(o)
    /\ \A i \in DOMAIN todo : Recorded(todo[i].op)
    /\ \A i \in DOMAIN replies : Recorded(replies[i].op)
    /\ \A i \in DOMAIN toSite : toSite[i].kind = "offer" => Recorded(toSite[i].op)
    /\ \A i \in DOMAIN toCenter : Recorded(toCenter[i].op)

LEMMA NamedSplits ==
    /\ Named <=> NamedAtCenter /\ NamedAtSite
    /\ Named' <=> NamedAtCenter' /\ NamedAtSite'
BY DEF Named, NamedAtCenter, NamedAtSite

LEMMA NamedAtCenterStays ==
    ASSUME NamedAtCenter, UNCHANGED centerVars
    PROVE  NamedAtCenter'
BY DEF NamedAtCenter, centerVars, dispatchVars, Recorded

\* What the sequences hold, element by element.
LEMMA ElementTypes ==
    ASSUME SiteTypes
    PROVE  /\ \A i \in DOMAIN todo : todo[i] \in SiteWrites /\ todo[i].op \in Ops
           /\ \A i \in DOMAIN replies : /\ replies[i] \in SiteReplies
                                        /\ replies[i].op \in Ops /\ replies[i].msg \in Messages
           /\ \A i \in DOMAIN toSite : /\ toSite[i] \in SiteFrames
                                       /\ toSite[i].kind = "offer" =>
                                             toSite[i].op \in Ops /\ toSite[i].seq \in Nat \ {0}
           /\ \A i \in DOMAIN toCenter : /\ toCenter[i] \in CenterFrames /\ toCenter[i].op \in Ops
                                         /\ toCenter[i].msg \in Messages /\ toCenter[i].acked \in Nat
<1>1. \A i \in DOMAIN todo : todo[i] \in SiteWrites
  BY ElementOfSeq DEF SiteTypes
<1>2. \A w \in SiteWrites : w.op \in Ops
  BY DEF SiteWrites
<1>3. \A i \in DOMAIN replies : replies[i] \in SiteReplies
  BY ElementOfSeq DEF SiteTypes
<1>8. \A r \in SiteReplies : r.op \in Ops /\ r.msg \in Messages
  BY DEF SiteReplies
<1>4. \A i \in DOMAIN toSite : toSite[i] \in SiteFrames
  BY DEF SiteTypes
<1>5. \A f \in SiteFrames : f.kind = "offer" => f.op \in Ops /\ f.seq \in Nat \ {0}
  BY DEF SiteFrames
<1>6. \A i \in DOMAIN toCenter : toCenter[i] \in CenterFrames
  BY DEF SiteTypes
<1>7. \A f \in CenterFrames : f.op \in Ops /\ f.msg \in Messages /\ f.acked \in Nat
  BY DEF CenterFrames
<1> QED
  BY <1>1, <1>2, <1>3, <1>4, <1>5, <1>6, <1>7, <1>8

\* The site does nothing, while the center's records move on.
LEMMA SiteStays ==
    ASSUME Control, Forward, UNCHANGED <<siteVars, wireVars>>
    PROVE  SiteTypes' /\ NamedAtSite'
<1>1. SiteTypes'
  BY DEF Control, SiteTypes, siteVars, wireVars
<1>2. NamedAtSite
  BY NamedSplits DEF Control
<1>3. /\ \A i \in DOMAIN todo : todo[i].op \in Ops
      /\ \A i \in DOMAIN replies : replies[i].op \in Ops
      /\ \A i \in DOMAIN toSite : toSite[i].kind = "offer" => toSite[i].op \in Ops
      /\ \A i \in DOMAIN toCenter : toCenter[i].op \in Ops
  BY ElementTypes DEF Control
<1>4. \A o \in Ops : Recorded(o) => Recorded(o)'
  BY DEF Forward
<1> QED
  BY <1>1, <1>2, <1>3, <1>4 DEF NamedAtSite, Recorded, siteVars, wireVars

LEMMA AcksType == ASSUME SiteTypes PROVE Acks \in Nat
BY AckPositionsType DEF SiteTypes, Acks

\* Both ends keep what they have exchanged.
LEMMA ExchangeStays ==
    ASSUME Control, Forward,
           UNCHANGED <<replies, todo, spc, ssent, peerAcked, wireVars, sessionVars>>
    PROVE  Exchange'
<1>1. \A i \in DOMAIN replies : IsScored(replies[i]) => IsScored(replies[i])'
  <2>1. \A i \in DOMAIN replies : replies[i].op \in Ops
    BY ElementTypes DEF Control
  <2> QED
    BY <2>1 DEF IsScored, Forward
<1>2. Acks' = Acks /\ Acks \in Nat /\ DOMAIN replies = 1 .. Len(replies) /\ Len(replies) \in Nat
  BY AcksType DEF Acks, wireVars, Control, SiteTypes
<1>3. Exchange /\ ssent \in Nat
  BY DEF Control, SiteTypes
<1>4. spc # "down" => \A i \in 1 .. Acks : IsScored(replies[i])'
  BY <1>1, <1>2, <1>3 DEF Exchange
<1>5. spc # "down" /\ session /\ handling # <<>> => IsScored(replies[Acks + 1])'
  <2> SUFFICES ASSUME spc # "down", session, handling # <<>>
               PROVE IsScored(replies[Acks + 1])'
    OBVIOUS
  <2>1. Len(handling) >= 1 /\ Len(handling) \in Nat /\ Len(toCenter) \in Nat
    BY DEF Control, CenterTypes, SiteTypes
  <2>2. Acks + 1 \in DOMAIN replies
    BY <1>2, <1>3, <2>1 DEF Exchange
  <2>3. IsScored(replies[Acks + 1])
    BY <1>3 DEF Exchange
  <2> QED
    BY <1>1, <1>2, <2>2, <2>3 DEF IsScored
<1> QED
  BY <1>2, <1>3, <1>4, <1>5 DEF Exchange, wireVars, sessionVars, IsScored

\* The site's end of the connection is over; its store is as it was.
LEMMA DisconnectedControl ==
    ASSUME Control, SiteDisconnected, UNCHANGED <<inbox, row, replies, wireVars, centerVars>>,
           tracked' \in [Ops -> OperationStates \cup {Untracked, NotReported}]
    PROVE  Control'
<1>1. CenterTypes' /\ Forward
  BY CenterStays DEF Control
<1>2. SiteTypes'
  BY DEF Control, SiteTypes, SiteDisconnected, wireVars
<1>3. Named'
  <2>1. NamedAtCenter' /\ NamedAtSite
    BY NamedSplits, NamedAtCenterStays DEF Control
  <2>2. NamedAtSite'
    BY <2>1 DEF NamedAtSite, SiteDisconnected, wireVars, centerVars, Recorded
  <2> QED
    BY <2>1, <2>2, NamedSplits
<1>4. Exchange'
  <2>1. Len(replies) \in Nat
    BY DEF Control, SiteTypes
  <2> QED
    BY <2>1 DEF Control, Exchange, SiteDisconnected, centerVars, sessionVars
<1> QED
  BY <1>1, <1>2, <1>3, <1>4 DEF Control

\* SiteWrite: a write is performed, or a conflict ends the connection.
LEMMA SiteWriteControl ==
    ASSUME Control, SiteWrite, UNCHANGED centerVars
    PROVE  Control'
<1> DEFINE w == Head(todo)
           conflict == w.do = "advance" /\ StateConflict(w.op, w.arg)
<1>0. CenterTypes' /\ Forward /\ NamedAtCenter' /\ NamedAtSite
  BY CenterStays, NamedSplits, NamedAtCenterStays DEF Control
<1>1. /\ todo # <<>> /\ w = todo[1] /\ w \in SiteWrites /\ 1 \in DOMAIN todo /\ w.op \in Ops
      /\ Tail(todo) \in Seq(SiteWrites) /\ DOMAIN todo = 1 .. Len(todo) /\ Len(todo) \in Nat \ {0}
      /\ DOMAIN Tail(todo) = 1 .. Len(todo) - 1
      /\ \A i \in DOMAIN Tail(todo) : i + 1 \in DOMAIN todo /\ Tail(todo)[i] = todo[i + 1]
  BY TailFacts, ElementTypes DEF SiteWrite, Control, SiteTypes
<1>2. CASE conflict
  <2>1. SiteDisconnected /\ UNCHANGED <<inbox, row, replies, tracked, wireVars>>
    BY <1>2 DEF SiteWrite
  <2>2. tracked' \in [Ops -> OperationStates \cup {Untracked, NotReported}]
    BY <2>1 DEF Control, SiteTypes
  <2> QED
    BY <2>1, <2>2, DisconnectedControl
<1>3. CASE ~conflict
  <2>1. /\ inbox' = IF w.do = "advance" THEN [inbox EXCEPT ![w.op] = w.arg] ELSE inbox
        /\ row' = IF w.do = "create" /\ row[w.op] = "Absent"
                  THEN [row EXCEPT ![w.op] = "Queued"] ELSE row
        /\ replies' = IF w.do = "enqueue" THEN Append(replies, [op |-> w.op, msg |-> w.arg])
                                          ELSE replies
        /\ tracked' = IF w.track = "keep" THEN tracked
                      ELSE [tracked EXCEPT ![w.op] = w.track]
        /\ todo' = Tail(todo)
        /\ UNCHANGED <<spc, scan, known, ssent, peerAcked, wireVars>>
    BY <1>3 DEF SiteWrite
  <2> DEFINE reply == [op |-> w.op, msg |-> w.arg]
  <2>2. /\ w.do = "advance" => w.arg \in {"Accepted", "Rejected", "Completed"}
        /\ w.do = "enqueue" => reply \in SiteReplies
        /\ w.track \in OperationStates \cup {"keep", Untracked, NotReported}
        /\ w.do \in {"create", "advance", "enqueue"}
    BY <1>1 DEF SiteWrites, SiteReplies
  <2>3. w.do = "enqueue" =>
           /\ replies' \in Seq(SiteReplies) /\ Len(replies') = Len(replies) + 1
           /\ DOMAIN replies' = 1 .. Len(replies) + 1 /\ DOMAIN replies = 1 .. Len(replies)
           /\ replies'[Len(replies) + 1] = reply
           /\ \A i \in DOMAIN replies : i \in DOMAIN replies' /\ replies'[i] = replies[i]
           /\ \A i \in DOMAIN replies' : i \in DOMAIN replies \/ i = Len(replies) + 1
    <3> HIDE DEF w, reply
    <3> QED
      BY <2>1, <2>2, AppendFacts DEF Control, SiteTypes, reply
  <2>4. Len(replies) \in Nat /\ DOMAIN replies = 1 .. Len(replies) /\ ssent \in Nat
    BY DEF Control, SiteTypes
  <2> HIDE DEF w
  <2>5. SiteTypes'
    <3>1. inbox' \in [Ops -> InboxStates]
      BY <1>1, <2>1, <2>2 DEF Control, SiteTypes, InboxStates
    <3>2. row' \in [Ops -> RowStates \cup {"Absent"}]
      BY <1>1, <2>1, RowStatesAssumption DEF Control, SiteTypes
    <3>3. tracked' \in [Ops -> OperationStates \cup {Untracked, NotReported}]
      BY <1>1, <2>1, <2>2 DEF Control, SiteTypes
    <3>4. replies' \in Seq(SiteReplies)
      BY <2>1, <2>3 DEF Control, SiteTypes
    <3>5. todo' \in Seq(SiteWrites)
      BY <1>1, <2>1
    <3> QED
      BY <2>1, <3>1, <3>2, <3>3, <3>4, <3>5 DEF Control, SiteTypes, wireVars
  <2>6. NamedAtSite'
    <3>1. \A o \in Ops : Recorded(o)' <=> Recorded(o)
      BY DEF Recorded, centerVars
    <3>2. Recorded(w.op)
      BY <1>0, <1>1 DEF NamedAtSite
    <3>3. \A o \in Ops : inbox'[o] # "none" => Recorded(o)'
      BY <1>0, <1>1, <2>1, <3>1, <3>2 DEF NamedAtSite, Control, SiteTypes
    <3>4. \A i \in DOMAIN todo' : Recorded(todo[i].op)'
      BY <1>0, <1>1, <2>1 DEF NamedAtSite, Recorded, centerVars
    <3>5. \A i \in DOMAIN replies' : Recorded(replies[i].op)'
      <4>1. CASE w.do = "enqueue"
        <5>1. reply.op = w.op
          OBVIOUS
        <5> QED
          BY <4>1, <5>1, <1>0, <2>3, <3>2 DEF NamedAtSite, Recorded, centerVars
      <4>2. CASE w.do # "enqueue"
        BY <4>2, <1>0, <2>1 DEF NamedAtSite, Recorded, centerVars
      <4> QED
        BY <4>1, <4>2
    <3> QED
      BY <3>3, <3>4, <3>5, <1>0, <2>1 DEF NamedAtSite, Recorded, centerVars, wireVars
  <2>7. Exchange'
    <3>1. /\ Len(replies') \in Nat /\ Len(replies) <= Len(replies')
          /\ w.do = "enqueue" => Len(replies) < Len(replies')
          /\ \A i \in 1 .. Len(replies) : replies'[i] = replies[i]
      BY <2>1, <2>3, <2>4
    <3>2. Acks' = Acks /\ Acks \in Nat
      BY <2>1, AcksType DEF Acks, wireVars, Control
    <3>3. UNCHANGED <<session, csent, handling, tracking, spc, ssent, peerAcked, toCenter>>
      BY <2>1 DEF centerVars, sessionVars, wireVars
    <3>4. Exchange
      BY DEF Control
    <3>5. spc = "flush" => \/ ssent < Len(replies')
                           \/ \E i \in DOMAIN todo' : todo'[i].do = "enqueue"
      <4> SUFFICES ASSUME spc = "flush", ~(ssent < Len(replies'))
                   PROVE  \E i \in DOMAIN todo' : todo'[i].do = "enqueue"
        OBVIOUS
      <4>1. w.do # "enqueue" /\ ~(ssent < Len(replies))
        BY <2>4, <3>1, <3>4 DEF Exchange
      <4>2. PICK i \in DOMAIN todo : todo[i].do = "enqueue"
        BY <4>1, <3>4 DEF Exchange
      <4>3. i # 1 /\ i \in Nat /\ i <= Len(todo) /\ i >= 1
        BY <4>1, <4>2, <1>1
      <4>4. i - 1 \in DOMAIN todo' /\ todo'[i - 1] = todo[i]
        <5>1. i - 1 \in DOMAIN Tail(todo) /\ (i - 1) + 1 = i
          BY <4>3, <1>1
        <5> QED
          BY <5>1, <1>1, <2>1
      <4> QED
        BY <4>2, <4>4
    <3>6. spc # "down" => Acks <= ssent /\ \A i \in 1 .. Acks : IsScored(replies[i])'
      <4>1. spc # "down" => \A i \in 1 .. Acks : i \in 1 .. Len(replies)
        BY <2>4, <3>2, <3>4 DEF Exchange
      <4> QED
        BY <4>1, <3>1, <3>3, <3>4 DEF Exchange, IsScored
    <3>7. spc # "down" /\ session =>
             /\ \A i \in DOMAIN toCenter :
                   Acks + Len(handling) + i \in 1 .. Len(replies)
             /\ handling # <<>> => Acks + 1 \in 1 .. Len(replies)
      <4>1. /\ Len(handling) \in Nat /\ (handling # <<>> => Len(handling) >= 1)
            /\ Len(toCenter) \in Nat /\ DOMAIN toCenter = 1 .. Len(toCenter)
        BY DEF Control, CenterTypes, SiteTypes
      <4> QED
        BY <4>1, <2>4, <3>2, <3>4 DEF Exchange
    <3> QED
      BY <2>4, <3>1, <3>2, <3>3, <3>4, <3>5, <3>6, <3>7 DEF Exchange, IsScored
  <2> QED
    BY <1>0, <2>5, <2>6, <2>7, NamedSplits DEF Control
<1> QED
  BY <1>2, <1>3

\* The engine goes on to its next operation, state or phase.
LEMMA TurnControl ==
    ASSUME Control, UNCHANGED <<inbox, row, replies, ssent, peerAcked, wireVars, centerVars>>,
           tracked' \in [Ops -> OperationStates \cup {Untracked, NotReported}],
           scan' \in 1 .. 10, known' \subseteq Ops, todo' \in Seq(SiteWrites),
           spc' = "discover" /\ known' # {} => scan' > 1,
           spc # "down", spc' # "down", spc' = "flush" => ssent < Len(replies),
           \A i \in DOMAIN todo' : Recorded(todo'[i].op)
    PROVE  Control'
<1>1. CenterTypes' /\ Forward /\ NamedAtCenter' /\ NamedAtSite
  BY CenterStays, NamedSplits, NamedAtCenterStays DEF Control
<1>2. SiteTypes'
  BY DEF Control, SiteTypes, wireVars
<1>3. NamedAtSite'
  BY <1>1 DEF NamedAtSite, Recorded, wireVars, centerVars
<1>4. Exchange'
  BY DEF Control, Exchange, IsScored, Acks, wireVars, centerVars, sessionVars
<1> QED
  BY <1>1, <1>2, <1>3, <1>4, NamedSplits DEF Control

LEMMA FlushNextFacts ==
    ASSUME NEW n, NEW pending
    PROVE  /\ FlushNext(n, pending) \in {"flush", "loop"}
           /\ FlushNext(n, pending) = "flush" <=> n < Len(pending)
BY DEF FlushNext

LEMMA ReportStateTypes ==
    /\ Len(ReportStates) = 9
    /\ \A i \in 1 .. 9 : ReportStates[i] \in OperationStates
BY DEF ReportStates, OperationStates, TerminalStates

LEMMA DiscoverControl ==
    ASSUME Control, Discover, UNCHANGED centerVars
    PROVE  Control'
<1>1. /\ UNCHANGED <<inbox, row, replies, tracked, todo, ssent, peerAcked, wireVars>>
      /\ spc = "discover" /\ todo = <<>>
  BY DEF Discover
<1>2. scan' \in 1 .. 10 /\ known' \subseteq Ops /\ (spc' = "discover" /\ known' # {} => scan' > 1)
  <2>1. scan \in 1 .. 10 /\ known \subseteq Ops /\ known = {}
    BY DEF Discover, Control, SiteTypes
  <2>2. CASE scan > Len(ReportStates)
    BY <2>1, <2>2 DEF Discover
  <2>3. CASE ~(scan > Len(ReportStates))
    <3>1. known' = {o \in Ops : row[o] = ReportStates[scan]} /\ scan' = scan + 1
      BY <2>3 DEF Discover
    <3> QED
      BY <2>1, <2>3, <3>1, ReportStateTypes
  <2> QED
    BY <2>2, <2>3
<1>3. spc' # "down" /\ (spc' = "flush" => ssent < Len(replies))
  BY FlushNextFacts DEF Discover
<1>4. /\ tracked' \in [Ops -> OperationStates \cup {Untracked, NotReported}]
      /\ todo' \in Seq(SiteWrites)
  BY <1>1 DEF Control, SiteTypes
<1> QED
  BY <1>1, <1>2, <1>3, <1>4, TurnControl

\* What a report of one operation leaves to do.
LEMMA ReportNamed ==
    ASSUME Control, NEW o \in Ops, NEW s \in OperationStates,
           s \in TerminalStates => row[o] = s
    PROVE  /\ ReportOpenEntry(o, s) \in Seq(SiteWrites)
           /\ \A i \in DOMAIN ReportOpenEntry(o, s) : Recorded(ReportOpenEntry(o, s)[i].op)
<1>1. HandlerWrites(o, ReportOpenEntry(o, s))
  BY ReportWrites
<1>2. CASE inbox[o] = "none"
  <2>1. ReportOpenEntry(o, s) = <<>>
    BY <1>2 DEF ReportOpenEntry
  <2> QED
    BY <2>1
<1>3. CASE inbox[o] # "none"
  <2>1. Recorded(o)
    BY <1>3 DEF Control, Named
  <2> QED
    BY <1>1, <2>1 DEF HandlerWrites
<1> QED
  BY <1>2, <1>3

LEMMA ReportListedControl ==
    ASSUME Control, ListedAsFinished, ReportListed, UNCHANGED centerVars
    PROVE  Control'
<1>1. /\ UNCHANGED <<inbox, row, replies, tracked, spc, scan, ssent, peerAcked, wireVars>>
      /\ spc = "discover"
  BY DEF ReportListed
<1>2. PICK o \in known : /\ known' = known \ {o}
                         /\ todo' = ReportOpenEntry(o, ReportStates[scan - 1])
  BY DEF ReportListed
<1>3. o \in Ops /\ scan - 1 \in 1 .. 9
  BY <1>1, <1>2 DEF Control, SiteTypes
<1> DEFINE s == ReportStates[scan - 1]
<1>4. s \in OperationStates /\ (s \in TerminalStates => row[o] = s)
  BY <1>1, <1>2, <1>3, ReportStateTypes DEF ListedAsFinished
<1> HIDE DEF s
<1>5. todo' \in Seq(SiteWrites) /\ \A i \in DOMAIN todo' : Recorded(todo'[i].op)
  BY <1>2, <1>3, <1>4, ReportNamed DEF s
<1>6. /\ tracked' \in [Ops -> OperationStates \cup {Untracked, NotReported}]
      /\ scan' \in 1 .. 10 /\ known' \subseteq Ops
      /\ spc' = "discover" /\ known' # {} => scan' > 1
      /\ spc' # "down" /\ spc' # "flush"
  BY <1>1, <1>2 DEF Control, SiteTypes
<1> QED
  BY <1>1, <1>5, <1>6, TurnControl

LEMMA ReportKnownControl ==
    ASSUME Control, ReportKnown, UNCHANGED centerVars
    PROVE  Control'
<1>1. /\ UNCHANGED <<inbox, row, replies, scan, ssent, peerAcked, wireVars>>
      /\ spc = "known" /\ todo = <<>> /\ scan \in 1 .. 10 /\ known \subseteq Ops
      /\ tracked \in [Ops -> OperationStates \cup {Untracked, NotReported}]
      /\ row \in [Ops -> OperationStates \cup {"Absent"}]
  BY RowStatesAssumption DEF ReportKnown, Control, SiteTypes
<1>2. CASE known = {} /\ spc' = FlushNext(ssent, replies) /\ UNCHANGED <<known, todo, tracked>>
  <2>1. todo' \in Seq(SiteWrites) /\ DOMAIN todo' = {}
    BY <1>1, <1>2
  <2>2. spc' # "down" /\ (spc' = "flush" => ssent < Len(replies)) /\ spc' # "discover"
    BY <1>2, FlushNextFacts
  <2>3. \A i \in DOMAIN todo' : Recorded(todo'[i].op)
    BY <2>1
  <2> QED
    BY <1>1, <1>2, <2>1, <2>2, <2>3, TurnControl
<1>3. ASSUME NEW o \in known, known' = known \ {o}, UNCHANGED spc,
             UNCHANGED todo, tracked' = [tracked EXCEPT ![o] = Untracked]
      PROVE Control'
  <2>1. todo' \in Seq(SiteWrites) /\ \A i \in DOMAIN todo' : Recorded(todo'[i].op)
    BY <1>1, <1>3
  <2>2. /\ tracked' \in [Ops -> OperationStates \cup {Untracked, NotReported}]
        /\ known' \subseteq Ops /\ spc' \notin {"down", "flush", "discover"}
    BY <1>1, <1>3
  <2> QED
    BY <1>1, <2>1, <2>2, TurnControl
<1>4. ASSUME NEW o \in known, known' = known \ {o}, UNCHANGED spc, row[o] # "Absent",
             todo' = ReportOpenEntry(o, row[o]), UNCHANGED tracked
      PROVE Control'
  <2>1. o \in Ops /\ row[o] \in OperationStates
    BY <1>1, <1>4
  <2>2. todo' \in Seq(SiteWrites) /\ \A i \in DOMAIN todo' : Recorded(todo'[i].op)
    BY <2>1, <1>4, ReportNamed
  <2>3. /\ tracked' \in [Ops -> OperationStates \cup {Untracked, NotReported}]
        /\ known' \subseteq Ops /\ spc' \notin {"down", "flush", "discover"}
    BY <1>1, <1>4
  <2> QED
    BY <1>1, <2>2, <2>3, TurnControl
<1> QED
  BY <1>2, <1>3, <1>4 DEF ReportKnown

LEMMA ExecuteControl ==
    ASSUME Control, NEW o \in Ops, SiteExecute(o), UNCHANGED centerVars
    PROVE  Control'
<1>1. CenterTypes' /\ Forward
  BY CenterStays DEF Control
<1>2. row' \in [Ops -> RowStates \cup {"Absent"}]
  BY DEF Control, SiteTypes, SiteExecute
<1>3. SiteTypes'
  BY <1>2 DEF Control, SiteTypes, SiteExecute, wireVars
<1>4. Named'
  BY DEF Control, Named, SiteExecute, Recorded, wireVars, centerVars, dispatchVars
<1>5. Exchange'
  BY <1>1, ExchangeStays DEF SiteExecute, centerVars
<1> QED
  BY <1>1, <1>3, <1>4, <1>5 DEF Control

LEMMA SiteFlushControl ==
    ASSUME Control, SiteFlush, UNCHANGED centerVars
    PROVE  Control'
<1> DEFINE frame == [op |-> replies[ssent + 1].op, msg |-> replies[ssent + 1].msg,
                     acked |-> peerAcked]
<1>0. CenterTypes' /\ Forward /\ NamedAtCenter' /\ NamedAtSite /\ Exchange /\ SiteTypes
  BY CenterStays, NamedSplits, NamedAtCenterStays DEF Control
<1>1. /\ UNCHANGED <<inbox, row, replies, tracked, scan, known, todo, peerAcked, toSite>>
      /\ spc = "flush" /\ todo = <<>> /\ ssent' = ssent + 1
      /\ toCenter' = Append(toCenter, frame) /\ spc' = FlushNext(ssent + 1, replies)
  BY DEF SiteFlush
<1>2. /\ ssent \in Nat /\ Len(replies) \in Nat /\ DOMAIN replies = 1 .. Len(replies)
      /\ toCenter \in Seq(CenterFrames) /\ peerAcked \in Nat
  BY <1>0 DEF SiteTypes
<1>3. ssent < Len(replies) /\ ssent + 1 \in DOMAIN replies
  BY <1>0, <1>1, <1>2 DEF Exchange
<1>4. frame \in CenterFrames
  BY <1>0, <1>2, <1>3, ElementTypes DEF CenterFrames
<1> HIDE DEF frame
<1>5. /\ toCenter' \in Seq(CenterFrames) /\ Len(toCenter') = Len(toCenter) + 1
      /\ Len(toCenter) \in Nat
      /\ DOMAIN toCenter = 1 .. Len(toCenter) /\ DOMAIN toCenter' = 1 .. Len(toCenter) + 1
      /\ toCenter'[Len(toCenter) + 1] = frame
      /\ \A i \in DOMAIN toCenter : toCenter'[i] = toCenter[i]
      /\ \A i \in DOMAIN toCenter' : i \in DOMAIN toCenter \/ i = Len(toCenter) + 1
  BY <1>1, <1>2, <1>4, AppendFacts
<1>6. spc' \in {"flush", "loop"} /\ (spc' = "flush" => ssent' < Len(replies))
  BY <1>1, FlushNextFacts
<1>7. SiteTypes'
  BY <1>0, <1>1, <1>2, <1>5, <1>6 DEF SiteTypes
<1>8. frame.op = replies[ssent + 1].op /\ frame.msg = replies[ssent + 1].msg
  BY DEF frame
<1>9. NamedAtSite'
  <2>1. Recorded(frame.op)
    BY <1>0, <1>3, <1>8 DEF NamedAtSite
  <2>2. \A i \in DOMAIN toCenter' : Recorded(toCenter[i].op)'
    BY <1>0, <1>5, <2>1 DEF NamedAtSite, Recorded, centerVars
  <2> QED
    BY <1>0, <1>1, <2>2 DEF NamedAtSite, Recorded, centerVars
<1>10. Exchange'
  <2>1. Acks' = Acks /\ Acks \in Nat
    BY <1>0, <1>1, AcksType DEF Acks
  <2>2. UNCHANGED <<session, csent, handling, tracking>>
    BY DEF centerVars, sessionVars
  <2>3. session => ssent = Acks + Len(handling) + Len(toCenter)
    BY <1>0, <1>1 DEF Exchange
  <2>4. Len(handling) \in Nat
    BY DEF Control, CenterTypes
  <2>5. Acks <= ssent' /\ \A i \in 1 .. Acks : IsScored(replies[i])'
    BY <1>0, <1>1, <1>2, <2>1, <2>2 DEF Exchange, IsScored
  <2>6. session => /\ ssent' = Acks + Len(handling) + Len(toCenter')
                   /\ \A i \in DOMAIN toCenter' :
                        /\ toCenter'[i].op = replies[Acks + Len(handling) + i].op
                        /\ toCenter'[i].msg = replies[Acks + Len(handling) + i].msg
    <3> SUFFICES ASSUME session
                 PROVE  /\ ssent' = Acks + Len(handling) + Len(toCenter')
                        /\ \A i \in DOMAIN toCenter' :
                             /\ toCenter'[i].op = replies[Acks + Len(handling) + i].op
                             /\ toCenter'[i].msg = replies[Acks + Len(handling) + i].msg
      OBVIOUS
    <3>1. Acks + Len(handling) + (Len(toCenter) + 1) = ssent + 1
      BY <1>5, <2>1, <2>3, <2>4
    <3>2. \A i \in DOMAIN toCenter :
             /\ toCenter[i].op = replies[Acks + Len(handling) + i].op
             /\ toCenter[i].msg = replies[Acks + Len(handling) + i].msg
      BY <1>0, <1>1 DEF Exchange
    <3>3. \A i \in DOMAIN toCenter' :
             /\ toCenter'[i].op = replies[Acks + Len(handling) + i].op
             /\ toCenter'[i].msg = replies[Acks + Len(handling) + i].msg
      BY <1>5, <1>8, <3>1, <3>2
    <3> QED
      BY <1>1, <1>5, <3>1, <3>3
  <2>7. session /\ handling # <<>> => IsScored(replies[Acks + 1])'
    BY <1>0, <1>1, <2>1, <2>2 DEF Exchange, IsScored
  <2> QED
    BY <1>0, <1>1, <1>2, <1>3, <1>6, <2>1, <2>2, <2>5, <2>6, <2>7 DEF Exchange
<1> QED
  BY <1>0, <1>7, <1>9, <1>10, NamedSplits DEF Control

\* The frame the site takes from the wire.
LEMMA SiteHead ==
    ASSUME SiteTypes, toSite # <<>>
    PROVE  /\ Head(toSite) = toSite[1] /\ 1 \in DOMAIN toSite /\ toSite[1] \in SiteFrames
           /\ Tail(toSite) \in Seq(SiteFrames)
           /\ \A i \in DOMAIN Tail(toSite) : /\ i + 1 \in DOMAIN toSite
                                             /\ Tail(toSite)[i] = toSite[i + 1]
           /\ Cardinality(AckPositions(Tail(toSite))) =
                 Acks - (IF toSite[1].kind = "ack" THEN 1 ELSE 0)
<1>1. toSite \in Seq(SiteFrames)
  BY DEF SiteTypes
<1> QED
  BY <1>1, TailFacts, AckPositionsTail DEF Acks

LEMMA ReceiveOfferControl ==
    ASSUME Control, ReceiveOffer, UNCHANGED centerVars
    PROVE  Control'
<1> DEFINE o == Head(toSite).op
<1>0. CenterTypes' /\ Forward /\ NamedAtCenter' /\ NamedAtSite /\ Exchange /\ SiteTypes
  BY CenterStays, NamedSplits, NamedAtCenterStays DEF Control
<1>1. /\ spc = "loop" /\ toSite # <<>> /\ Head(toSite).kind = "offer"
      /\ inbox' = [inbox EXCEPT ![o] = IF @ = "none" THEN "Received" ELSE @]
      /\ peerAcked' = Max({peerAcked, Head(toSite).seq})
      /\ toSite' = Tail(toSite) /\ spc' = "flush"
      /\ UNCHANGED <<row, replies, tracked, discovered, scan, known, ssent, toCenter>>
  BY DEF ReceiveOffer
<1>2. PICK accept \in BOOLEAN : todo' = AnswerOffer(o, accept)
  BY DEF ReceiveOffer
<1>3. o \in Ops /\ Head(toSite).seq \in Nat /\ Recorded(o)
  BY <1>0, <1>1, SiteHead, ElementTypes DEF NamedAtSite
<1>4. HandlerWrites(o, todo') /\ \E i \in DOMAIN todo' : todo'[i].do = "enqueue"
  BY <1>0, <1>2, <1>3, AnswerOfferWrites
<1>5. /\ toSite' \in Seq(SiteFrames) /\ Acks' = Acks /\ Acks \in Nat
      /\ \A i \in DOMAIN toSite' : i + 1 \in DOMAIN toSite /\ toSite'[i] = toSite[i + 1]
  <2>1. Acks \in Nat
    BY <1>0, AcksType
  <2> QED
    BY <1>0, <1>1, <2>1, SiteHead DEF Acks
<1>6. SiteTypes'
  <2>1. peerAcked' \in Nat
    BY <1>0, <1>1, <1>3, MaxOfTwo DEF SiteTypes
  <2>2. inbox' \in [Ops -> InboxStates]
    BY <1>0, <1>1 DEF SiteTypes, InboxStates
  <2> QED
    BY <1>0, <1>1, <1>4, <1>5, <2>1, <2>2 DEF SiteTypes, HandlerWrites
<1>7. NamedAtSite'
  <2>1. \A p \in Ops : Recorded(p)' <=> Recorded(p)
    BY DEF Recorded, centerVars
  <2>2. \A p \in Ops : inbox'[p] # "none" => Recorded(p)'
    BY <1>0, <1>1, <1>3, <2>1 DEF NamedAtSite, SiteTypes
  <2>3. \A i \in DOMAIN todo' : Recorded(todo[i].op)'
    BY <1>3, <1>4, <2>1 DEF HandlerWrites
  <2>4. \A i \in DOMAIN toSite' : toSite'[i].kind = "offer" => Recorded(toSite[i].op)'
    BY <1>0, <1>5 DEF NamedAtSite, Recorded, centerVars
  <2> QED
    BY <1>0, <1>1, <2>2, <2>3, <2>4 DEF NamedAtSite, Recorded, centerVars
<1>8. Exchange'
  BY <1>0, <1>1, <1>4, <1>5 DEF Exchange, IsScored, centerVars, sessionVars
<1> QED
  BY <1>0, <1>6, <1>7, <1>8, NamedSplits DEF Control

LEMMA ReceiveAckControl ==
    ASSUME Control, ReceiveAck, UNCHANGED centerVars
    PROVE  Control'
<1>0. CenterTypes' /\ Forward /\ NamedAtCenter' /\ NamedAtSite /\ Exchange /\ SiteTypes
  BY CenterStays, NamedSplits, NamedAtCenterStays DEF Control
<1>1. /\ spc = "loop" /\ toSite # <<>> /\ Head(toSite).kind = "ack"
      /\ replies' = Tail(replies) /\ ssent' = ssent - 1
      /\ toSite' = Tail(toSite) /\ spc' = FlushNext(ssent - 1, replies')
      /\ UNCHANGED <<inbox, row, tracked, scan, known, todo, peerAcked, toCenter>>
  BY DEF ReceiveAck
<1>2. /\ toSite' \in Seq(SiteFrames) /\ Acks \in Nat /\ Acks' = Acks - 1
      /\ \A i \in DOMAIN toSite' : i + 1 \in DOMAIN toSite /\ toSite'[i] = toSite[i + 1]
  <2>1. Acks \in Nat
    BY <1>0, AcksType
  <2> QED
    BY <1>0, <1>1, <2>1, SiteHead DEF Acks
<1>3. /\ Acks' \in Nat /\ ssent \in Nat /\ Len(replies) \in Nat /\ replies \in Seq(SiteReplies)
  <2>1. Acks' \in Nat
    BY <1>2, AckPositionsType DEF Acks
  <2> QED
    BY <1>0, <2>1 DEF SiteTypes
<1>4. Acks >= 1 /\ Acks <= ssent /\ ssent <= Len(replies)
  BY <1>0, <1>1, <1>2, <1>3 DEF Exchange
<1>5. /\ replies # <<>> /\ replies' \in Seq(SiteReplies) /\ Len(replies') = Len(replies) - 1
      /\ DOMAIN replies = 1 .. Len(replies) /\ DOMAIN replies' = 1 .. Len(replies) - 1
      /\ \A i \in DOMAIN replies' : i + 1 \in DOMAIN replies /\ replies'[i] = replies[i + 1]
  <2>1. replies # <<>>
    BY <1>2, <1>3, <1>4
  <2> QED
    BY <1>1, <1>3, <2>1, TailFacts
<1>6. spc' \in {"flush", "loop"} /\ (spc' = "flush" => ssent' < Len(replies'))
  BY <1>1, FlushNextFacts
<1>7. SiteTypes'
  <2>1. ssent' \in Nat
    BY <1>1, <1>2, <1>3, <1>4
  <2> QED
    BY <1>0, <1>1, <1>2, <1>5, <1>6, <2>1 DEF SiteTypes
<1>8. NamedAtSite'
  <2>1. \A i \in DOMAIN replies' : Recorded(replies[i].op)'
    BY <1>0, <1>5 DEF NamedAtSite, Recorded, centerVars
  <2>2. \A i \in DOMAIN toSite' : toSite'[i].kind = "offer" => Recorded(toSite[i].op)'
    BY <1>0, <1>2 DEF NamedAtSite, Recorded, centerVars
  <2> QED
    BY <1>0, <1>1, <2>1, <2>2 DEF NamedAtSite, Recorded, centerVars
<1>9. Exchange'
  <2>1. UNCHANGED <<session, csent, handling, tracking>>
    BY DEF centerVars, sessionVars
  <2>2. /\ Len(handling) \in Nat /\ (handling # <<>> => Len(handling) >= 1)
        /\ Len(toCenter) \in Nat /\ DOMAIN toCenter = 1 .. Len(toCenter)
    BY DEF Control, CenterTypes, SiteTypes
  <2>3. ssent' <= Len(replies') /\ Acks' <= ssent'
    BY <1>1, <1>2, <1>3, <1>4, <1>5
  <2>4. \A i \in 1 .. Acks' : IsScored(replies[i])'
    <3>1. \A i \in 1 .. Acks' : i + 1 \in 1 .. Acks /\ i \in DOMAIN replies'
      BY <1>2, <1>3, <1>4, <1>5
    <3>2. \A i \in 1 .. Acks : IsScored(replies[i])
      BY <1>0, <1>1 DEF Exchange
    <3> QED
      BY <1>5, <2>1, <3>1, <3>2 DEF IsScored
  <2>5. session => /\ ssent = Acks + Len(handling) + Len(toCenter)
                   /\ \A i \in DOMAIN toCenter :
                        /\ toCenter[i].op = replies[Acks + Len(handling) + i].op
                        /\ toCenter[i].msg = replies[Acks + Len(handling) + i].msg
                   /\ handling # <<>> => IsScored(replies[Acks + 1])
    BY <1>0, <1>1 DEF Exchange
  <2>6. session => \A i \in DOMAIN toCenter :
           /\ toCenter[i].op = replies'[Acks' + Len(handling) + i].op
           /\ toCenter[i].msg = replies'[Acks' + Len(handling) + i].msg
    <3> SUFFICES ASSUME session, NEW i \in DOMAIN toCenter
                 PROVE  replies'[Acks' + Len(handling) + i] = replies[Acks + Len(handling) + i]
      BY <2>5
    <3>1. /\ Acks' + Len(handling) + i \in DOMAIN replies'
          /\ (Acks' + Len(handling) + i) + 1 = Acks + Len(handling) + i
      BY <1>2, <1>3, <1>4, <1>5, <2>2, <2>5
    <3> QED
      BY <3>1, <1>5
  <2>7. session /\ handling # <<>> => IsScored(replies[Acks + 1])'
    <3> SUFFICES ASSUME session, handling # <<>> PROVE IsScored(replies[Acks + 1])'
      OBVIOUS
    <3>1. Acks' + 1 = Acks /\ Acks \in DOMAIN replies' /\ Acks + 1 \in DOMAIN replies
      BY <1>2, <1>3, <1>4, <1>5, <2>2, <2>5
    <3>2. replies'[Acks' + 1] = replies[Acks + 1]
      BY <3>1, <1>5
    <3> QED
      BY <3>2, <2>1, <2>5 DEF IsScored
  <2>8. session => ssent' = Acks' + Len(handling) + Len(toCenter)
    BY <1>1, <1>2, <1>3, <2>2, <2>5
  <2>9. ~session => csent = {} /\ handling = <<>>
    BY <1>0 DEF Exchange
  <2> QED
    BY <1>1, <1>6, <2>1, <2>3, <2>4, <2>6, <2>7, <2>8, <2>9 DEF Exchange
<1> QED
  BY <1>0, <1>7, <1>8, <1>9, NamedSplits DEF Control

\* A step of the center that leaves the connection alone.
LEMMA CenterOnlyControl ==
    ASSUME Control, Forward, UNCHANGED <<siteVars, wireVars, sessionVars>>,
           CenterTypes', NamedAtCenter'
    PROVE  Control'
<1>1. SiteTypes' /\ NamedAtSite'
  BY SiteStays
<1>2. Exchange'
  BY ExchangeStays DEF siteVars
<1> QED
  BY <1>1, <1>2, NamedSplits DEF Control

\* Acknowledging keeps the rows what they are.
LEMMA SettledRows ==
    ASSUME Control, NEW seqs, Settles(offers, offers', seqs), Forward
    PROVE  /\ offers' \subseteq OfferRows /\ IsFiniteSet(offers')
           /\ \A offer \in offers' : Recorded(offer.op)'
<1>1. \A r \in offers : r.op \in Ops /\ Recorded(r.op)
  BY DEF Control, CenterTypes, OfferRows, Named
<1> QED
  BY <1>1 DEF Settles, Forward

LEMMA RequestControl ==
    ASSUME Control, NEW t \in Targets, Dispatch(t), UNCHANGED <<siteVars, wireVars>>
    PROVE  Control'
<1>1. Forward
  BY ForwardStays DEF Control, Dispatch
<1>2. CenterTypes'
  BY DEF Control, CenterTypes, Dispatch, sessionVars
<1>3. NamedAtCenter'
  BY DEF Control, Named, NamedAtCenter, Dispatch, Recorded
<1> QED
  BY <1>1, <1>2, <1>3, CenterOnlyControl DEF Dispatch

LEMMA ScanStateTypes ==
    Len(ScanStates) = 3 /\ \A i \in 1 .. 3 : ScanStates[i] \in PersistedStates
BY DEF ScanStates, PersistedStates

LEMMA ScanStateControl ==
    ASSUME Control, ScanState, UNCHANGED <<siteVars, wireVars>>
    PROVE  Control'
<1>1. Forward
  BY ForwardStays DEF Control, ScanState
<1>2. /\ candidates' = candidates \cup {o \in Ops : tracking[o] = ScanStates[dscan]}
      /\ UNCHANGED <<tracking, offers, expired, dtarget, dop, dtodo, sessionVars>>
      /\ dpc = "scan" /\ dscan \in 1 .. 3
  BY DEF ScanState, Control, CenterTypes
<1>3. dpc' \in {"scan", "resolve"} /\ dscan' \in 1 .. 3
  BY <1>2, ScanStateTypes DEF ScanState
<1>4. CenterTypes'
  BY <1>2, <1>3 DEF Control, CenterTypes, sessionVars
<1>5. NamedAtCenter'
  <2>1. \A o \in candidates' : Recorded(o)
    BY <1>2, ScanStateTypes DEF Control, Named, Recorded, PersistedStates
  <2> QED
    BY <1>2, <1>3, <2>1 DEF Control, Named, NamedAtCenter, Recorded
<1> QED
  BY <1>1, <1>2, <1>4, <1>5, CenterOnlyControl

\* The owner of a retry is a candidate.
LEMMA OwnerIsCandidate ==
    ASSUME CenterTypes, Owners # {}
    PROVE  Min(Owners) \in Owners /\ Min(Owners) \in candidates /\ Min(Owners) \in Ops
<1>1. Owners \subseteq candidates /\ candidates \subseteq Ops /\ Ops \subseteq Nat
  BY OpsAssumption DEF Owners, CenterTypes
<1>2. Min(Owners) \in Owners
  BY <1>1, MinProperties
<1> QED
  BY <1>1, <1>2

LEMMA ResolveFacts ==
    ASSUME Control, Resolve
    PROVE  /\ dpc = "resolve"
           /\ UNCHANGED <<tracking, offers, expired, dtarget, dscan, candidates, sessionVars>>
           /\ \/ Owners = {} /\ dpc' = "unknown" /\ UNCHANGED <<dop, dtodo>>
              \/ /\ dop' \in Owners /\ dop' \in candidates /\ dop' \in Ops
                 /\ \/ /\ CandidateVerdict(dop') = "NeverEnqueued" /\ dpc' = "enqueue"
                       /\ UNCHANGED dtodo
                    \/ /\ CandidateVerdict(dop') = "Resolved" /\ OfferOf(dop').seq \in expired
                       /\ dpc' = "retire"
                       /\ dtodo' = Seqs(PendingOf(dop') \cup {OfferOf(dop')})
                    \/ /\ CandidateVerdict(dop') = "Resolved"
                       /\ dpc' = "settle" /\ UNCHANGED dtodo
<1>1. /\ dpc = "resolve"
      /\ UNCHANGED <<tracking, offers, expired, dtarget, dscan, candidates, sessionVars>>
  BY DEF Resolve
<1>2. CASE Owners = {}
  BY <1>1, <1>2 DEF Resolve
<1>3. CASE Owners # {}
  <2>1. dop' = Min(Owners)
    BY <1>3 DEF Resolve
  <2>2. dop' \in Owners /\ dop' \in candidates /\ dop' \in Ops
    BY <1>3, <2>1, OwnerIsCandidate DEF Control
  <2>3. CandidateVerdict(dop') \in {"NeverEnqueued", "Resolved"}
    BY <2>2 DEF Owners
  <2> QED
    BY <1>1, <1>3, <2>2, <2>3 DEF Resolve
<1> QED
  BY <1>2, <1>3

LEMMA ResolveControl ==
    ASSUME Control, Resolve, UNCHANGED <<siteVars, wireVars>>
    PROVE  Control'
<1>1. Forward
  BY ForwardStays DEF Control, Resolve
<1>2. /\ dpc = "resolve"
      /\ UNCHANGED <<tracking, offers, expired, dtarget, dscan, candidates, sessionVars>>
      /\ \/ dpc' = "unknown" /\ dop' = dop
         \/ dpc' \in {"retire", "enqueue", "settle"} /\ dop' \in candidates /\ dop' \in Ops
  BY ResolveFacts
<1>3. CenterTypes'
  BY <1>2 DEF Control, CenterTypes, sessionVars
<1>4. NamedAtCenter'
  BY <1>2 DEF Control, Named, NamedAtCenter, Recorded
<1> QED
  BY <1>1, <1>2, <1>3, <1>4, CenterOnlyControl

\* The dispatch is over.
LEMMA EndDispatchTypes ==
    ASSUME Control, EndDispatch, offers' \subseteq OfferRows, IsFiniteSet(offers'), Forward,
           \A offer \in offers' : Recorded(offer.op)', UNCHANGED sessionVars
    PROVE  CenterTypes' /\ NamedAtCenter'
<1>1. CenterTypes'
  BY DEF Control, CenterTypes, EndDispatch, sessionVars, Forward
<1> QED
  BY <1>1 DEF NamedAtCenter, EndDispatch

LEMMA OffersKeep ==
    ASSUME Control, UNCHANGED <<offers, tracking>>
    PROVE  /\ Forward /\ offers' \subseteq OfferRows /\ IsFiniteSet(offers')
           /\ \A offer \in offers' : Recorded(offer.op)'
<1>1. Forward
  BY ForwardStays DEF Control
<1> QED
  BY <1>1 DEF Control, CenterTypes, Named, Recorded

LEMMA RetireControl ==
    ASSUME Control, Offers, RetireStale, UNCHANGED <<siteVars, wireVars>>
    PROVE  Control'
<1>1. Forward /\ dpc = "retire" /\ UNCHANGED <<tracking, expired, sessionVars>>
  BY ForwardStays DEF Control, RetireStale
<1>2. CASE Min(dtodo) \notin Seqs(offers)
  <2>1. EndDispatch /\ UNCHANGED offers
    BY <1>2 DEF RetireStale
  <2> QED
    BY <1>1, <2>1, OffersKeep, EndDispatchTypes, CenterOnlyControl
<1>3. CASE Min(dtodo) \in Seqs(offers)
  <2>1. /\ offers' = Acknowledge(offers, Min(dtodo))
        /\ dpc' \in {"enqueue", "retire"} /\ UNCHANGED <<dtarget, dscan, candidates, dop>>
    BY <1>3 DEF RetireStale
  <2>2. Settles(offers, offers', {Min(dtodo)})
    BY <1>3, <2>1, AcknowledgeSettles DEF Control, CenterTypes, Offers, RowsAgree
  <2>3. /\ offers' \subseteq OfferRows /\ IsFiniteSet(offers')
        /\ \A offer \in offers' : Recorded(offer.op)'
    BY <1>1, <2>2, SettledRows
  <2>4. CenterTypes'
    BY <1>1, <2>1, <2>3 DEF Control, CenterTypes, sessionVars, Forward
  <2>5. NamedAtCenter'
    BY <1>1, <2>1, <2>3 DEF Control, Named, NamedAtCenter, Recorded
  <2> QED
    BY <1>1, <2>4, <2>5, CenterOnlyControl
<1> QED
  BY <1>2, <1>3

LEMMA CreateFacts ==
    ASSUME Control, CreateTracking
    PROVE  /\ dpc = "unknown" /\ Forward /\ UNCHANGED <<offers, expired, sessionVars>>
           /\ \/ EndDispatch /\ UNCHANGED tracking
              \/ /\ dop' \in Ops /\ ~Recorded(dop') /\ dpc' = "enqueue"
                 /\ tracking' = [tracking EXCEPT ![dop'] = "Queued"]
                 /\ UNCHANGED <<dtarget, dscan, candidates, dtodo>>
<1>1. dpc = "unknown" /\ UNCHANGED <<offers, expired, sessionVars>>
  BY DEF CreateTracking
<1>2. CASE BlockedByUnknown \/ Unused = {}
  <2>1. EndDispatch /\ UNCHANGED tracking
    BY <1>2 DEF CreateTracking
  <2> QED
    BY <1>1, <2>1, ForwardStays DEF Control
<1>3. CASE ~(BlockedByUnknown \/ Unused = {})
  <2>1. /\ dop' = Min(Unused) /\ tracking' = [tracking EXCEPT ![dop'] = "Queued"]
        /\ dpc' = "enqueue" /\ UNCHANGED <<dtarget, dscan, candidates, dtodo>>
    BY <1>3 DEF CreateTracking
  <2>2. Unused \subseteq Ops /\ Unused \in SUBSET Nat /\ Unused # {}
    BY <1>3, OpsAssumption DEF Unused
  <2>3. dop' \in Unused
    BY <2>1, <2>2, MinProperties
  <2>4. dop' \in Ops /\ ~Recorded(dop')
    BY <2>3 DEF Unused, Recorded
  <2>5. Forward
    BY <2>1, <2>4 DEF Forward, Control, CenterTypes, Recorded, PersistedStates, TerminalStates
  <2> QED
    BY <1>1, <2>1, <2>4, <2>5
<1> QED
  BY <1>2, <1>3

LEMMA CreateControl ==
    ASSUME Control, CreateTracking, UNCHANGED <<siteVars, wireVars>>
    PROVE  Control'
<1>1. dpc = "unknown" /\ Forward /\ UNCHANGED <<offers, expired, sessionVars>>
  BY CreateFacts
<1>2. CASE EndDispatch /\ UNCHANGED tracking
  BY <1>1, <1>2, OffersKeep, EndDispatchTypes, CenterOnlyControl
<1>3. CASE /\ dop' \in Ops /\ ~Recorded(dop') /\ dpc' = "enqueue"
           /\ tracking' = [tracking EXCEPT ![dop'] = "Queued"]
           /\ UNCHANGED <<dtarget, dscan, candidates, dtodo>>
  <2>1. CenterTypes'
    BY <1>1, <1>3 DEF Control, CenterTypes, sessionVars, Forward
  <2>2. \A o \in Ops : Recorded(o) => Recorded(o)'
    BY <1>1 DEF Forward
  <2>3. Recorded(dop)'
    BY <1>3 DEF Recorded, Control, CenterTypes
  <2>4. (\A r \in offers : r.op \in Ops) /\ candidates \subseteq Ops
    BY DEF Control, CenterTypes, OfferRows
  <2>5. NamedAtCenter'
    BY <1>1, <1>3, <2>2, <2>3, <2>4 DEF Control, Named, NamedAtCenter, Recorded
  <2> QED
    BY <1>1, <2>1, <2>5, CenterOnlyControl
<1> QED
  BY <1>2, <1>3, CreateFacts

LEMMA EnqueueFacts ==
    ASSUME Control, EnqueueOffer
    PROVE  /\ dpc = "enqueue" /\ dpc' = "settle" /\ dop \in Ops /\ dtarget \in Targets
           /\ UNCHANGED <<tracking, expired, dtarget, dscan, candidates, dop, dtodo, sessionVars>>
           /\ \E r \in OfferRows : /\ offers' = offers \cup {r}
                                   /\ r.op = dop /\ r.msg = dtarget /\ ~r.acked
                                   /\ \A s \in offers : s.seq < r.seq
           /\ IsFiniteSet(offers')
<1>1. /\ dpc = "enqueue" /\ dpc' = "settle" /\ dop \in Ops /\ dtarget \in Targets
      /\ UNCHANGED <<tracking, expired, dtarget, dscan, candidates, dop, dtodo, sessionVars>>
  BY DEF EnqueueOffer, Control, CenterTypes
<1> DEFINE r == [seq |-> NextSequence(offers), op |-> dop, msg |-> dtarget, acked |-> FALSE]
<1>2. offers' = offers \cup {r}
  BY DEF EnqueueOffer, Enqueue
<1>3. offers \in SUBSET OfferRows /\ IsFiniteSet(offers)
  BY DEF Control, CenterTypes
<1>4. NextSequence(offers) \in Nat \ {0} /\ \A s \in offers : s.seq < NextSequence(offers)
  BY <1>3, NextSequenceIsNew
<1>5. r \in OfferRows /\ r.op = dop /\ r.msg = dtarget /\ ~r.acked /\ \A s \in offers : s.seq < r.seq
  BY <1>1, <1>4 DEF OfferRows
<1> HIDE DEF r
<1>6. IsFiniteSet(offers')
  BY <1>2, <1>3, FS_AddElement
<1> QED
  BY <1>1, <1>2, <1>5, <1>6

LEMMA EnqueueControl ==
    ASSUME Control, EnqueueOffer, UNCHANGED <<siteVars, wireVars>>
    PROVE  Control'
<1>1. /\ dpc = "enqueue" /\ dpc' = "settle" /\ dop \in Ops /\ dtarget \in Targets
      /\ UNCHANGED <<tracking, expired, dtarget, dscan, candidates, dop, dtodo, sessionVars>>
      /\ IsFiniteSet(offers')
  BY EnqueueFacts
<1>2. PICK r \in OfferRows : offers' = offers \cup {r} /\ r.op = dop
  BY EnqueueFacts
<1>3. Forward
  BY <1>1, ForwardStays DEF Control
<1>4. CenterTypes'
  BY <1>1, <1>2 DEF Control, CenterTypes, sessionVars
<1>5. NamedAtCenter'
  BY <1>1, <1>2 DEF Control, Named, NamedAtCenter, Recorded
<1> QED
  BY <1>1, <1>3, <1>4, <1>5, CenterOnlyControl

LEMMA SettleControl ==
    ASSUME Control, Offers, SettleDuplicates, UNCHANGED <<siteVars, wireVars>>
    PROVE  Control'
<1>1. Forward /\ EndDispatch /\ UNCHANGED <<tracking, expired, sessionVars>>
  BY ForwardStays DEF Control, SettleDuplicates
<1> DEFINE seqs == Seqs(PendingOf(dop)) \ {OfferOf(dop).seq}
<1>2. offers' = AcknowledgeAll(offers, seqs)
  BY DEF SettleDuplicates
<1> HIDE DEF seqs
<1>3. Settles(offers, offers', seqs)
  BY <1>2, AcknowledgeAllSettles DEF Control, CenterTypes, Offers, RowsAgree
<1> QED
  BY <1>1, <1>3, SettledRows, EndDispatchTypes, CenterOnlyControl

\* The offer a flush picks.
LEMMA FlushFacts ==
    ASSUME Control, CenterFlush
    PROVE  /\ session /\ handling = <<>>
           /\ UNCHANGED <<tracking, expired, dispatchVars, session, handling, toCenter>>
           /\ \E offer \in Pending(offers) :
                 /\ offer.seq \notin csent
                 /\ \A r \in Pending(offers) : r.seq \notin csent => offer.seq <= r.seq
                 /\ \/ /\ offer.seq \in expired
                       /\ offers' = Acknowledge(offers, offer.seq)
                       /\ UNCHANGED <<csent, toSite>>
                    \/ /\ toSite' = Append(toSite, [kind |-> "offer", seq |-> offer.seq,
                                                    op |-> offer.op])
                       /\ csent' = csent \cup {offer.seq}
                       /\ UNCHANGED offers
<1> DEFINE unsent == {offer \in Pending(offers) : offer.seq \notin csent}
           next == CHOOSE offer \in unsent : offer.seq = Min(Seqs(unsent))
<1>1. /\ session /\ handling = <<>> /\ unsent # {}
      /\ UNCHANGED <<tracking, expired, dispatchVars, session, handling, toCenter>>
  BY DEF CenterFlush
<1>2. \/ /\ next.seq \in expired /\ offers' = Acknowledge(offers, next.seq)
         /\ UNCHANGED <<csent, toSite>>
      \/ /\ toSite' = Append(toSite, [kind |-> "offer", seq |-> next.seq, op |-> next.op])
         /\ csent' = csent \cup {next.seq}
         /\ UNCHANGED offers
  BY DEF CenterFlush
<1>3. Seqs(unsent) \in SUBSET Nat /\ Seqs(unsent) # {}
  BY <1>1 DEF Seqs, Pending, Control, CenterTypes, OfferRows
<1> HIDE DEF unsent
<1>4. Min(Seqs(unsent)) \in Seqs(unsent) /\ \A q \in Seqs(unsent) : Min(Seqs(unsent)) <= q
  BY <1>3, MinProperties
<1>5. next \in unsent /\ next.seq = Min(Seqs(unsent))
  BY <1>4 DEF Seqs
<1>6. \A r \in unsent : next.seq <= r.seq
  BY <1>4, <1>5 DEF Seqs
<1>7. next \in Pending(offers) /\ next.seq \notin csent
  BY <1>5 DEF unsent
<1>8. \A r \in Pending(offers) : r.seq \notin csent => next.seq <= r.seq
  BY <1>6 DEF unsent
<1> HIDE DEF next
<1> QED
  BY <1>1, <1>2, <1>7, <1>8

LEMMA CenterFlushControl ==
    ASSUME Control, Offers, CenterFlush, UNCHANGED siteVars
    PROVE  Control'
<1>0. NamedAtCenter /\ NamedAtSite /\ Exchange /\ SiteTypes
  BY NamedSplits DEF Control
<1>1. /\ session /\ handling = <<>>
      /\ UNCHANGED <<tracking, expired, dispatchVars, session, handling, toCenter>>
  BY FlushFacts
<1>2. PICK offer \in Pending(offers) :
         \/ /\ offers' = Acknowledge(offers, offer.seq)
            /\ UNCHANGED <<csent, toSite>>
         \/ /\ toSite' = Append(toSite, [kind |-> "offer", seq |-> offer.seq, op |-> offer.op])
            /\ csent' = csent \cup {offer.seq}
            /\ UNCHANGED offers
  BY FlushFacts
<1>3. Forward
  BY <1>1, ForwardStays DEF Control
<1>4. /\ offer \in offers /\ offer.seq \in Seqs(offers) /\ offer.seq \in Nat \ {0}
      /\ offer.op \in Ops /\ Recorded(offer.op)
  BY <1>0 DEF Pending, Seqs, Control, CenterTypes, OfferRows, NamedAtCenter
<1>5. CASE offers' = Acknowledge(offers, offer.seq) /\ UNCHANGED <<csent, toSite>>
  <2>1. Settles(offers, offers', {offer.seq})
    BY <1>4, <1>5, AcknowledgeSettles DEF Control, CenterTypes, Offers, RowsAgree
  <2>2. /\ offers' \subseteq OfferRows /\ IsFiniteSet(offers')
        /\ \A r \in offers' : Recorded(r.op)'
    BY <1>3, <2>1, SettledRows
  <2>3. CenterTypes'
    BY <1>1, <1>5, <2>2 DEF Control, CenterTypes, dispatchVars
  <2>4. NamedAtCenter'
    BY <1>0, <1>1, <2>2 DEF NamedAtCenter, Recorded, dispatchVars
  <2> QED
    BY <1>1, <1>3, <1>5, <2>3, <2>4, CenterOnlyControl DEF wireVars, sessionVars
<1>6. CASE /\ toSite' = Append(toSite, [kind |-> "offer", seq |-> offer.seq, op |-> offer.op])
           /\ csent' = csent \cup {offer.seq}
           /\ UNCHANGED offers
  <2> DEFINE frame == [kind |-> "offer", seq |-> offer.seq, op |-> offer.op]
  <2>1. frame \in SiteFrames /\ frame.kind = "offer" /\ frame.op = offer.op
    BY <1>4 DEF SiteFrames
  <2> HIDE DEF frame
  <2>2. /\ toSite \in Seq(SiteFrames) /\ toSite' = Append(toSite, frame)
    BY <1>0, <1>6 DEF SiteTypes, frame
  <2>3. /\ toSite' \in Seq(SiteFrames)
        /\ \A i \in DOMAIN toSite : toSite'[i] = toSite[i]
        /\ toSite'[Len(toSite) + 1] = frame
        /\ \A i \in DOMAIN toSite' : i \in DOMAIN toSite \/ i = Len(toSite) + 1
    BY <2>1, <2>2, AppendFacts
  <2>4. Acks' = Acks /\ Acks \in Nat
    <3>1. Acks \in Nat
      BY <1>0, AcksType
    <3>2. Cardinality(AckPositions(Append(toSite, frame))) = Acks + 0
      BY <2>1, <2>2, AckPositionsAppend DEF Acks
    <3> QED
      BY <2>2, <3>1, <3>2 DEF Acks
  <2>5. SiteTypes'
    BY <1>0, <1>1, <2>3 DEF SiteTypes, siteVars
  <2>6. CenterTypes'
    BY <1>1, <1>4, <1>6 DEF Control, CenterTypes, dispatchVars
  <2>7. NamedAtCenter'
    BY <1>0, <1>1, <1>6 DEF NamedAtCenter, Recorded, dispatchVars
  <2>8. NamedAtSite'
    <3>1. \A i \in DOMAIN toSite' : toSite'[i].kind = "offer" => Recorded(toSite[i].op)'
      BY <1>0, <1>1, <1>4, <2>1, <2>3 DEF NamedAtSite, Recorded
    <3> QED
      BY <1>0, <1>1, <3>1 DEF NamedAtSite, Recorded, siteVars
  <2>9. Exchange'
    BY <1>0, <1>1, <2>4 DEF Exchange, IsScored, siteVars
  <2> QED
    BY <2>5, <2>6, <2>7, <2>8, <2>9, NamedSplits DEF Control
<1> QED
  BY <1>2, <1>5, <1>6

\* What scoring the next reply does to the records.
LEMMA ScoreFacts ==
    ASSUME Control, ScoreReply
    PROVE  /\ session /\ handling = <<>> /\ toCenter # <<>>
           /\ 1 \in DOMAIN toCenter /\ toCenter[1] \in CenterFrames
           /\ toCenter[1].op \in Ops /\ toCenter[1].msg \in Messages
           /\ handling' = <<toCenter[1]>> /\ toCenter' = Tail(toCenter)
           /\ toCenter' \in Seq(CenterFrames) /\ Len(toCenter') = Len(toCenter) - 1
           /\ Len(toCenter) \in Nat \ {0}
           /\ DOMAIN toCenter = 1 .. Len(toCenter) /\ DOMAIN toCenter' = 1 .. Len(toCenter) - 1
           /\ \A i \in DOMAIN toCenter' : i + 1 \in DOMAIN toCenter /\ toCenter'[i] = toCenter[i + 1]
           /\ UNCHANGED <<offers, expired, dispatchVars, session, csent, toSite>>
           /\ LET o == toCenter[1].op
                  t == ReplyTarget(toCenter[1].msg)
              IN /\ Recorded(o) /\ t \in ReplyTargets
                 /\ tracking[o] \in PersistedStates \cup TerminalStates
                 /\ tracking' = [tracking EXCEPT ![o] = ApplyEvents(tracking[o], t)]
           /\ Forward
<1>1. /\ session /\ handling = <<>> /\ toCenter # <<>>
      /\ tracking' = [tracking EXCEPT ![Head(toCenter).op] =
                         ApplyEvents(tracking[Head(toCenter).op], ReplyTarget(Head(toCenter).msg))]
      /\ handling' = <<Head(toCenter)>> /\ toCenter' = Tail(toCenter)
      /\ UNCHANGED <<offers, expired, dispatchVars, session, csent, toSite>>
  BY DEF ScoreReply
<1>2. toCenter \in Seq(CenterFrames)
  BY DEF Control, SiteTypes
<1>3. /\ Head(toCenter) = toCenter[1] /\ 1 \in DOMAIN toCenter /\ toCenter[1] \in CenterFrames
      /\ toCenter' \in Seq(CenterFrames) /\ Len(toCenter') = Len(toCenter) - 1
      /\ Len(toCenter) \in Nat \ {0}
      /\ DOMAIN toCenter = 1 .. Len(toCenter) /\ DOMAIN toCenter' = 1 .. Len(toCenter) - 1
      /\ \A i \in DOMAIN toCenter' : i + 1 \in DOMAIN toCenter /\ toCenter'[i] = toCenter[i + 1]
  BY <1>1, <1>2, TailFacts
<1> DEFINE o == toCenter[1].op
           t == ReplyTarget(toCenter[1].msg)
<1>4. o \in Ops /\ toCenter[1].msg \in Messages /\ Recorded(o)
  BY <1>3, ElementTypes DEF Control, Named
<1>5. t \in ReplyTargets
  BY <1>4, ReplyTargetSound
<1>6. tracking[o] \in PersistedStates \cup TerminalStates
  BY <1>4 DEF Control, CenterTypes, Recorded
<1>7. tracking' = [tracking EXCEPT ![o] = ApplyEvents(tracking[o], t)]
  BY <1>1, <1>3
<1> HIDE DEF o, t
<1>8. /\ ApplyEvents(tracking[o], t) \in PersistedStates \cup TerminalStates
      /\ tracking[o] \in TerminalStates => ApplyEvents(tracking[o], t) = tracking[o]
  BY <1>5, <1>6, ScoringMovesForward
<1>9. Forward
  <2>1. "Absent" \notin PersistedStates \cup TerminalStates
    BY DEF PersistedStates, TerminalStates
  <2>2. tracking \in [Ops -> PersistedStates \cup TerminalStates \cup {"Absent"}]
    BY DEF Control, CenterTypes
  <2> QED
    BY <1>4, <1>7, <1>8, <2>1, <2>2 DEF Forward, Recorded
<1> QED
  BY <1>1, <1>3, <1>4, <1>5, <1>6, <1>7, <1>9 DEF o, t

LEMMA ScoreControl ==
    ASSUME Control, ScoreReply, UNCHANGED siteVars
    PROVE  Control'
<1>0. NamedAtCenter /\ NamedAtSite /\ Exchange /\ SiteTypes /\ CenterTypes
  BY NamedSplits DEF Control
<1> DEFINE o == toCenter[1].op
           t == ReplyTarget(toCenter[1].msg)
<1>1. /\ session /\ handling = <<>> /\ 1 \in DOMAIN toCenter /\ toCenter[1] \in CenterFrames
      /\ o \in Ops /\ toCenter[1].msg \in Messages /\ handling' = <<toCenter[1]>>
      /\ toCenter' \in Seq(CenterFrames) /\ Len(toCenter') = Len(toCenter) - 1
      /\ Len(toCenter) \in Nat \ {0}
      /\ DOMAIN toCenter = 1 .. Len(toCenter) /\ DOMAIN toCenter' = 1 .. Len(toCenter) - 1
      /\ \A i \in DOMAIN toCenter' : i + 1 \in DOMAIN toCenter /\ toCenter'[i] = toCenter[i + 1]
      /\ UNCHANGED <<offers, expired, dispatchVars, session, csent, toSite>>
  BY ScoreFacts
<1>2. /\ t \in ReplyTargets /\ tracking[o] \in PersistedStates \cup TerminalStates
      /\ tracking' = [tracking EXCEPT ![o] = ApplyEvents(tracking[o], t)]
      /\ Forward
  BY ScoreFacts
<1> HIDE DEF t
<1>3. SiteTypes'
  BY <1>0, <1>1 DEF SiteTypes, siteVars
<1>4. CenterTypes'
  <2>1. handling' \in Seq(CenterFrames) /\ Len(handling') <= 1
    BY <1>1
  <2> QED
    BY <1>0, <1>1, <1>2, <2>1 DEF CenterTypes, dispatchVars, Forward
<1>5. \A p \in Ops : Recorded(p) => Recorded(p)'
  BY <1>2 DEF Forward
<1>6. NamedAtCenter'
  <2>1. /\ \A r \in offers : r.op \in Ops
        /\ candidates \subseteq Ops
        /\ dpc \in {"retire", "enqueue", "settle"} => dop \in Ops
    BY <1>0 DEF CenterTypes, OfferRows
  <2> QED
    BY <1>0, <1>1, <1>5, <2>1 DEF NamedAtCenter, Recorded, dispatchVars
<1>7. NamedAtSite'
  <2>1. /\ \A i \in DOMAIN todo : todo[i].op \in Ops
        /\ \A i \in DOMAIN replies : replies[i].op \in Ops
        /\ \A i \in DOMAIN toSite : toSite[i].kind = "offer" => toSite[i].op \in Ops
        /\ \A i \in DOMAIN toCenter : toCenter[i].op \in Ops
    BY <1>0, ElementTypes
  <2>2. \A i \in DOMAIN toCenter' : Recorded(toCenter[i].op)'
    BY <1>0, <1>1, <1>5, <2>1 DEF NamedAtSite, Recorded
  <2> QED
    BY <1>0, <1>1, <1>5, <2>1, <2>2 DEF NamedAtSite, Recorded, siteVars
<1>8. Exchange'
  <2>1. Acks' = Acks /\ Acks \in Nat
    BY <1>0, <1>1, AcksType DEF Acks
  <2>2. Len(handling) = 0 /\ Len(handling') = 1 /\ handling' # <<>>
    BY <1>1
  <2>3. /\ ssent \in Nat /\ Len(replies) \in Nat /\ DOMAIN replies = 1 .. Len(replies)
        /\ ssent <= Len(replies)
        /\ \A i \in DOMAIN replies : replies[i].op \in Ops
    BY <1>0, ElementTypes DEF SiteTypes, Exchange
  <2>4. \A i \in DOMAIN replies : IsScored(replies[i]) => IsScored(replies[i])'
    BY <1>2, <2>3 DEF IsScored, Forward, siteVars
  <2>5. spc # "down" => Acks <= ssent /\ \A i \in 1 .. Acks : IsScored(replies[i])'
    BY <1>0, <2>1, <2>3, <2>4 DEF Exchange
  <2>6. spc # "down" =>
           /\ ssent = Acks + Len(toCenter)
           /\ \A i \in DOMAIN toCenter : /\ toCenter[i].op = replies[Acks + i].op
                                         /\ toCenter[i].msg = replies[Acks + i].msg
    <3>1. \A i \in DOMAIN toCenter : Acks + 0 + i = Acks + i
      BY <1>1, <2>1
    <3>2. Acks + 0 + Len(toCenter) = Acks + Len(toCenter)
      BY <1>1, <2>1
    <3> QED
      BY <1>0, <1>1, <2>2, <3>1, <3>2 DEF Exchange
  <2>7. spc # "down" =>
           /\ ssent = Acks + 1 + Len(toCenter')
           /\ \A i \in DOMAIN toCenter' : /\ toCenter'[i].op = replies[Acks + 1 + i].op
                                          /\ toCenter'[i].msg = replies[Acks + 1 + i].msg
    <3>1. \A i \in DOMAIN toCenter' : Acks + (i + 1) = Acks + 1 + i
      BY <1>1, <2>1
    <3>2. Acks + Len(toCenter) = Acks + 1 + Len(toCenter')
      BY <1>1, <2>1
    <3> QED
      BY <1>1, <2>6, <3>1, <3>2
  <2>8. spc # "down" => IsScored(replies[Acks + 1])'
    <3> SUFFICES ASSUME spc # "down", IsFinal(replies[Acks + 1].msg)
                 PROVE  tracking'[replies[Acks + 1].op] \in TerminalStates
      BY <2>1 DEF IsScored, siteVars
    <3>1. toCenter[1].op = replies[Acks + 1].op /\ toCenter[1].msg = replies[Acks + 1].msg
      BY <1>1, <2>6
    <3>2. t \in TerminalStates
      BY <1>1, <3>1, ReplyTargetSound DEF IsFinal, t
    <3>3. ApplyEvents(tracking[o], t) \in TerminalStates
      BY <1>2, <3>2, ScoringMovesForward
    <3>4. tracking'[o] = ApplyEvents(tracking[o], t)
      BY <1>0, <1>1, <1>2 DEF CenterTypes
    <3> QED
      BY <3>1, <3>3, <3>4
  <2> QED
    BY <1>0, <1>1, <2>1, <2>2, <2>5, <2>7, <2>8 DEF Exchange, siteVars
<1> QED
  BY <1>3, <1>4, <1>6, <1>7, <1>8, NamedSplits DEF Control

\* What acknowledging the reply in hand does.
LEMMA AckFacts ==
    ASSUME Control, Offers, AckReply
    PROVE  /\ session /\ handling # <<>> /\ 1 \in DOMAIN handling /\ handling[1] \in CenterFrames
           /\ Len(handling) = 1
           /\ UNCHANGED <<tracking, expired, dispatchVars, toCenter>>
           /\ \E settled \in SUBSET Covered(handling[1]) :
                 /\ Settles(offers, offers', settled)
                 /\ \/ EndSession /\ UNCHANGED toSite
                    \/ /\ settled = Covered(handling[1])
                       /\ csent' = csent \ Covered(handling[1])
                       /\ toSite' = Append(toSite, [kind |-> "ack"])
                       /\ handling' = <<>> /\ UNCHANGED session
<1> DEFINE frame == handling[1]
           pruned == Covered(frame) \ Seqs(offers)
           settled == {seq \in Covered(frame) : \A q \in pruned : seq < q}
<1>1. handling # <<>> /\ UNCHANGED <<tracking, expired, dispatchVars, toCenter>>
  BY DEF AckReply
<1>2. session
  BY <1>1 DEF Control, Exchange
<1>3. 1 \in DOMAIN handling /\ handling[1] \in CenterFrames /\ Len(handling) = 1
  <2>1. handling \in Seq(CenterFrames) /\ Len(handling) <= 1
    BY DEF Control, CenterTypes
  <2>2. Len(handling) \in Nat \ {0} /\ 1 \in DOMAIN handling /\ handling[1] \in CenterFrames
    BY <1>1, <2>1, TailFacts
  <2> DEFINE n == Len(handling)
  <2>3. n \in Nat \ {0} /\ n <= 1
    BY <2>1, <2>2
  <2> HIDE DEF n
  <2>4. n = 1
    BY <2>3
  <2> QED
    BY <2>2, <2>4 DEF n
<1>4. /\ offers' = AcknowledgeAll(offers, settled)
      /\ IF pruned # {}
         THEN EndSession /\ UNCHANGED toSite
         ELSE /\ csent' = csent \ Covered(frame)
              /\ toSite' = Append(toSite, [kind |-> "ack"])
              /\ handling' = <<>>
              /\ UNCHANGED session
  BY DEF AckReply
<1>5. pruned = {} => settled = Covered(frame)
  OBVIOUS
<1>6. settled \in SUBSET Covered(frame)
  OBVIOUS
<1> HIDE DEF settled, pruned
<1>7. Settles(offers, offers', settled)
  BY <1>4, AcknowledgeAllSettles DEF Control, CenterTypes, Offers, RowsAgree
<1>8. \/ EndSession /\ UNCHANGED toSite
      \/ /\ settled = Covered(handling[1])
         /\ csent' = csent \ Covered(handling[1])
         /\ toSite' = Append(toSite, [kind |-> "ack"])
         /\ handling' = <<>> /\ UNCHANGED session
  BY <1>4, <1>5
<1> QED
  BY <1>1, <1>2, <1>3, <1>6, <1>7, <1>8

\* The center's end of the connection is over, whatever became of its offers
\* and its dispatch.
LEMMA EndSessionControl ==
    ASSUME Control, EndSession, Forward, tracking' = tracking,
           UNCHANGED <<siteVars, wireVars>>, CenterTypes', NamedAtCenter'
    PROVE  Control'
<1>1. SiteTypes' /\ NamedAtSite'
  BY SiteStays
<1>2. Exchange'
  BY DEF Control, Exchange, IsScored, Acks, EndSession, siteVars, wireVars
<1> QED
  BY <1>1, <1>2, NamedSplits DEF Control

LEMMA AckControl ==
    ASSUME Control, Offers, AckReply, UNCHANGED siteVars
    PROVE  Control'
<1>0. NamedAtCenter /\ NamedAtSite /\ Exchange /\ SiteTypes /\ CenterTypes
  BY NamedSplits DEF Control
<1>1. /\ session /\ handling # <<>> /\ Len(handling) = 1
      /\ UNCHANGED <<tracking, expired, dispatchVars, toCenter>>
  BY AckFacts
<1>2. PICK settled \in SUBSET Covered(handling[1]) :
         /\ Settles(offers, offers', settled)
         /\ \/ EndSession /\ UNCHANGED toSite
            \/ /\ csent' = csent \ Covered(handling[1])
               /\ toSite' = Append(toSite, [kind |-> "ack"])
               /\ handling' = <<>> /\ UNCHANGED session
  BY AckFacts
<1>3. Forward
  BY <1>0, <1>1, ForwardStays
<1>4. /\ offers' \subseteq OfferRows /\ IsFiniteSet(offers')
      /\ \A r \in offers' : Recorded(r.op)'
  BY <1>2, <1>3, SettledRows
<1>5. NamedAtCenter'
  BY <1>0, <1>1, <1>4 DEF NamedAtCenter, Recorded, dispatchVars
<1>6. CenterTypes'
  <2>1. csent' \subseteq Nat \ {0} /\ handling' \in Seq(CenterFrames) /\ Len(handling') <= 1
    <3>1. csent \subseteq Nat \ {0}
      BY <1>0 DEF CenterTypes
    <3>2. csent' \subseteq csent /\ handling' = <<>>
      BY <1>2 DEF EndSession
    <3> QED
      BY <3>1, <3>2
  <2> QED
    BY <1>0, <1>1, <1>4, <2>1 DEF CenterTypes, dispatchVars
<1>7. CASE EndSession /\ UNCHANGED toSite
  BY <1>1, <1>3, <1>5, <1>6, <1>7, EndSessionControl DEF wireVars
<1>8. CASE /\ toSite' = Append(toSite, [kind |-> "ack"])
           /\ handling' = <<>> /\ UNCHANGED session
  <2> DEFINE frame == [kind |-> "ack"]
  <2>1. frame \in SiteFrames /\ frame.kind = "ack"
    BY DEF SiteFrames
  <2> HIDE DEF frame
  <2>2. toSite \in Seq(SiteFrames) /\ toSite' = Append(toSite, frame)
    BY <1>0, <1>8 DEF SiteTypes, frame
  <2>3. /\ toSite' \in Seq(SiteFrames)
        /\ \A j \in DOMAIN toSite : toSite'[j] = toSite[j]
        /\ toSite'[Len(toSite) + 1] = frame
        /\ \A j \in DOMAIN toSite' : j \in DOMAIN toSite \/ j = Len(toSite) + 1
    BY <2>1, <2>2, AppendFacts
  <2>4. Acks' = Acks + 1 /\ Acks \in Nat
    <3>1. Acks \in Nat
      BY <1>0, AcksType
    <3>2. Cardinality(AckPositions(Append(toSite, frame))) = Acks + 1
      BY <2>1, <2>2, AckPositionsAppend DEF Acks
    <3> QED
      BY <2>2, <3>1, <3>2 DEF Acks
  <2>5. SiteTypes'
    BY <1>0, <1>1, <2>3 DEF SiteTypes, siteVars
  <2>6. NamedAtSite'
    <3>1. \A j \in DOMAIN toSite' : toSite'[j].kind = "offer" => Recorded(toSite[j].op)'
      BY <1>0, <1>1, <2>1, <2>3 DEF NamedAtSite, Recorded
    <3> QED
      BY <1>0, <1>1, <3>1 DEF NamedAtSite, Recorded, siteVars
  <2>7. Exchange'
    <3>1. Len(handling') = 0 /\ handling' = <<>>
      BY <1>8
    <3>2. /\ ssent \in Nat /\ Len(toCenter) \in Nat /\ DOMAIN toCenter = 1 .. Len(toCenter)
      BY <1>0 DEF SiteTypes
    <3>3. spc # "down" =>
             /\ ssent = Acks + 1 + Len(toCenter)
             /\ \A j \in DOMAIN toCenter : /\ toCenter[j].op = replies[Acks + 1 + j].op
                                           /\ toCenter[j].msg = replies[Acks + 1 + j].msg
             /\ IsScored(replies[Acks + 1])
             /\ \A j \in 1 .. Acks : IsScored(replies[j])
      BY <1>0, <1>1 DEF Exchange
    <3>4. spc # "down" => Acks' <= ssent
      BY <2>4, <3>2, <3>3
    <3>5. spc # "down" => \A j \in 1 .. Acks' : IsScored(replies[j])'
      <4>1. \A j \in 1 .. Acks + 1 : j \in 1 .. Acks \/ j = Acks + 1
        BY <2>4
      <4> QED
        BY <1>1, <2>4, <3>3, <4>1 DEF IsScored, siteVars
    <3>6. spc # "down" =>
             /\ ssent = Acks' + 0 + Len(toCenter)
             /\ \A j \in DOMAIN toCenter : /\ toCenter[j].op = replies[Acks' + 0 + j].op
                                           /\ toCenter[j].msg = replies[Acks' + 0 + j].msg
      <4>1. Acks' + 0 = Acks + 1
        BY <2>4
      <4> QED
        BY <3>3, <4>1
    <3> QED
      BY <1>0, <1>1, <1>8, <3>1, <3>4, <3>5, <3>6 DEF Exchange, siteVars
  <2> QED
    BY <1>5, <1>6, <2>5, <2>6, <2>7, NamedSplits DEF Control
<1> QED
  BY <1>2, <1>7, <1>8

\* Connect: both ends start afresh.
LEMMA ConnectControl ==
    ASSUME Control, Connect
    PROVE  Control'
<1>0. NamedAtCenter /\ NamedAtSite /\ Exchange /\ SiteTypes /\ CenterTypes
  BY NamedSplits DEF Control
<1>1. Forward
  BY <1>0, ForwardStays DEF Connect
<1>2. SiteTypes'
  <2>1. known' \subseteq Ops /\ (spc' = "discover" => known' = {})
    BY DEF Connect
  <2> QED
    BY <1>0, <2>1 DEF SiteTypes, Connect
<1>3. CenterTypes'
  BY <1>0 DEF CenterTypes, Connect, dispatchVars
<1>4. NamedAtCenter'
  BY <1>0 DEF NamedAtCenter, Connect, dispatchVars, Recorded
<1>5. NamedAtSite'
  BY <1>0 DEF NamedAtSite, Connect, Recorded
<1>6. Exchange'
  <2>1. ssent = 0 /\ handling = <<>> /\ csent = {} /\ Len(replies) \in Nat
    BY <1>0 DEF Exchange, Connect, SiteTypes
  <2>2. Acks' = 0
    BY NoAckPositions DEF Acks, Connect
  <2>3. /\ spc' \in {"known", "discover"} /\ session' /\ toCenter' = <<>>
        /\ UNCHANGED <<ssent, peerAcked, replies, handling, csent>>
    BY DEF Connect
  <2>4. Len(handling') = 0 /\ Len(toCenter') = 0 /\ DOMAIN toCenter' = {}
    BY <2>1, <2>3
  <2> QED
    BY <2>1, <2>2, <2>3, <2>4 DEF Exchange
<1> QED
  BY <1>2, <1>3, <1>4, <1>5, <1>6, NamedSplits DEF Control

LEMMA CloseControl ==
    ASSUME Control, Close
    PROVE  Control'
<1>0. NamedAtCenter /\ SiteTypes /\ CenterTypes
  BY NamedSplits DEF Control
<1>1. UNCHANGED <<wireVars, tracking, offers, expired, dispatchVars>> /\ Forward
  BY <1>0, ForwardStays DEF Close
<1>2. CASE EndSession /\ UNCHANGED siteVars
  <2>1. CenterTypes'
    BY <1>0, <1>1, <1>2 DEF CenterTypes, EndSession, dispatchVars
  <2>2. NamedAtCenter'
    BY <1>0, <1>1 DEF NamedAtCenter, Recorded, dispatchVars
  <2> QED
    BY <1>1, <1>2, <2>1, <2>2, EndSessionControl
<1>3. CASE SiteDisconnected /\ UNCHANGED <<inbox, row, replies, tracked, discovered, sessionVars>>
  <2>1. tracked' \in [Ops -> OperationStates \cup {Untracked, NotReported}]
    BY <1>0, <1>3 DEF SiteTypes
  <2>2. UNCHANGED centerVars
    BY <1>1, <1>3 DEF centerVars
  <2> QED
    BY <1>1, <1>3, <2>1, <2>2, DisconnectedControl
<1> QED
  BY <1>2, <1>3 DEF Close

LEMMA BreakControl ==
    ASSUME Control,
           SiteLosesConnection \/ CenterLosesConnection \/ DispatchFails \/ SiteCrash \/ CenterCrash
    PROVE  Control'
<1>0. NamedAtCenter /\ SiteTypes /\ CenterTypes
  BY NamedSplits DEF Control
<1>1. CASE SiteLosesConnection
  <2>1. tracked' \in [Ops -> OperationStates \cup {Untracked, NotReported}]
    BY <1>0, <1>1 DEF SiteTypes, SiteLosesConnection
  <2> QED
    BY <1>1, <2>1, DisconnectedControl DEF SiteLosesConnection
<1>2. CASE SiteCrash
  <2>1. tracked' \in [Ops -> OperationStates \cup {Untracked, NotReported}]
    BY <1>2 DEF SiteCrash
  <2> QED
    BY <1>2, <2>1, DisconnectedControl DEF SiteCrash
<1>3. CASE CenterLosesConnection
  <2>1. Forward
    BY <1>0, <1>3, ForwardStays DEF CenterLosesConnection
  <2>2. CenterTypes'
    BY <1>0, <1>3 DEF CenterTypes, CenterLosesConnection, EndSession, dispatchVars
  <2>3. NamedAtCenter'
    BY <1>0, <1>3 DEF NamedAtCenter, CenterLosesConnection, Recorded, dispatchVars
  <2> QED
    BY <1>3, <2>1, <2>2, <2>3, EndSessionControl DEF CenterLosesConnection
<1>4. CASE DispatchFails
  BY <1>4, OffersKeep, EndDispatchTypes, CenterOnlyControl DEF DispatchFails
<1>5. CASE CenterCrash
  <2>1. Forward
    BY <1>0, <1>5, ForwardStays DEF CenterCrash
  <2>2. CenterTypes'
    BY <1>0, <1>5 DEF CenterTypes, CenterCrash, EndSession, EndDispatch
  <2>3. NamedAtCenter'
    BY <1>0, <1>5 DEF NamedAtCenter, CenterCrash, Recorded, EndDispatch
  <2> QED
    BY <1>5, <2>1, <2>2, <2>3, EndSessionControl DEF CenterCrash
<1> QED
  BY <1>1, <1>2, <1>3, <1>4, <1>5

LEMMA ExpireControl ==
    ASSUME Control, NEW offer \in offers, Expire(offer)
    PROVE  Control'
<1>1. UNCHANGED <<siteVars, wireVars, tracking, offers, dispatchVars, sessionVars>>
  BY DEF Expire
<1>2. Forward
  BY <1>1, ForwardStays DEF Control
<1>3. CenterTypes'
  BY <1>1 DEF Control, CenterTypes, dispatchVars, sessionVars
<1>4. NamedAtCenter'
  BY <1>1, NamedSplits DEF Control, NamedAtCenter, Recorded, dispatchVars
<1> QED
  BY <1>1, <1>2, <1>3, <1>4, CenterOnlyControl

\* Every step keeps Control.
LEMMA NextControl ==
    ASSUME Control, Offers, ListedAsFinished, Next
    PROVE  Control'
<1>1. ASSUME NEW t \in Targets, Request(t) PROVE Control'
  BY <1>1, RequestControl DEF Request
<1>2. ASSUME NEW offer \in offers, Expire(offer) PROVE Control'
  BY <1>2, ExpireControl
<1>3. ASSUME NEW o \in Ops, Executes(o) PROVE Control'
  BY <1>3, ExecuteControl DEF Executes
<1>4. CASE Site
  BY <1>4, SiteWriteControl, DiscoverControl, ReportListedControl, ReportKnownControl,
     SiteFlushControl, ReceiveOfferControl, ReceiveAckControl DEF Site, SiteStep
<1>5. CASE Dispatching
  BY <1>5, ScanStateControl, ResolveControl, RetireControl, CreateControl, EnqueueControl,
     SettleControl DEF Dispatching, DispatchStep
<1>6. CASE Session
  BY <1>6, CenterFlushControl, ScoreControl, AckControl DEF Session, SessionStep
<1> QED
  BY <1>1, <1>2, <1>3, <1>4, <1>5, <1>6, ConnectControl, CloseControl, BreakControl DEF Next

-----------------------------------------------------------------------------
(* Offers.                                                                  *)

\* The rows that speak for an operation.
LEMMA OfferOfIsIn ==
    ASSUME Control, NEW o, Offered(o)
    PROVE  /\ OfferOf(o) \in RowsOf(offers, o)
           /\ PendingOf(o) # {} => OfferOf(o) \in PendingOf(o)
           /\ Newest(RowsOf(offers, o)) \in RowsOf(offers, o)
           /\ \A r \in RowsOf(offers, o) : Newest(RowsOf(offers, o)).seq >= r.seq
<1> DEFINE rows == RowsOf(offers, o)
           pending == PendingOf(o)
<1>1. rows \in SUBSET OfferRows /\ pending \in SUBSET OfferRows /\ pending \subseteq rows /\ rows # {}
  BY DEF RowsOf, PendingOf, Pending, Control, CenterTypes, Offered
<1>2. IsFiniteSet(rows) /\ IsFiniteSet(pending)
  <2>1. rows \in SUBSET offers /\ pending \in SUBSET offers /\ IsFiniteSet(offers)
    BY DEF RowsOf, PendingOf, Pending, Control, CenterTypes
  <2> HIDE DEF rows, pending
  <2> QED
    BY <2>1, FS_Subset
<1>3. OfferOf(o) = Newest(IF pending # {} THEN pending ELSE rows)
  BY DEF OfferOf
<1> HIDE DEF rows, pending
<1>4. Newest(rows) \in rows /\ \A r \in rows : Newest(rows).seq >= r.seq
  BY <1>1, <1>2, NewestIsIn
<1>5. pending # {} => Newest(pending) \in pending
  BY <1>1, <1>2, NewestIsIn
<1> QED
  BY <1>1, <1>3, <1>4, <1>5 DEF rows, pending

\* Rows that agree still do once some are acknowledged.
LEMMA SettledAgree ==
    ASSUME RowsAgree, NEW seqs, Settles(offers, offers', seqs)
    PROVE  RowsAgree'
<1>1. UniqueSeqs(offers')
  BY DEF Settles
<1>2. \A r, s \in offers' : r.op = s.op => r.msg = s.msg
  BY DEF Settles, RowsAgree
<1>3. Pending(offers') \subseteq Pending(offers)
  BY SettledPending
<1> QED
  BY <1>1, <1>2, <1>3 DEF RowsAgree

\* What the dispatch knows survives the session's acknowledgements.
LEMMA SettledKnows ==
    ASSUME DispatchKnows, NEW seqs, Settles(offers, offers', seqs),
           UNCHANGED <<dispatchVars, expired>>
    PROVE  DispatchKnows'
<1>1. UNCHANGED <<dpc, dtarget, dop, dtodo, expired>>
  BY DEF dispatchVars
<1>2. \A t \in RowsOf(offers', dop) : \E r \in RowsOf(offers, dop) : t.msg = r.msg
  BY DEF Settles, RowsOf
<1>3. PendingOf(dop)' \subseteq PendingOf(dop)
  BY <1>1, SettledPending DEF PendingOf, RowsOf
<1>4. RowsOf(offers, dop) # {} => RowsOf(offers', dop) # {}
  BY DEF Settles, RowsOf
<1> QED
  BY <1>1, <1>2, <1>3, <1>4 DEF DispatchKnows, Seqs

LEMMA OffersStay ==
    ASSUME Offers, UNCHANGED <<offers, dispatchVars, expired>>
    PROVE  Offers'
BY DEF Offers, RowsAgree, DispatchKnows, dispatchVars, PendingOf

\* Between its steps and its end a dispatch knows nothing.
LEMMA OffersUndisturbed ==
    ASSUME RowsAgree, UNCHANGED offers, dpc' \notin {"retire", "enqueue"}
    PROVE  Offers'
<1>1. RowsAgree'
  BY DEF RowsAgree
<1> QED
  BY <1>1 DEF Offers, DispatchKnows

LEMMA ResolveOffers ==
    ASSUME Control, Offers, Resolve
    PROVE  Offers'
<1>0. UNCHANGED <<offers, dtarget, expired>> /\ RowsAgree
  BY ResolveFacts DEF Offers
<1>1. CASE dpc' \notin {"retire", "enqueue"}
  BY <1>0, <1>1, OffersUndisturbed
<1>2. RowsAgree'
  BY <1>0 DEF RowsAgree
<1> DEFINE o == dop'
<1>3. CASE dpc' = "enqueue"
  <2>1. CandidateVerdict(o) = "NeverEnqueued"
    BY <1>3, ResolveFacts
  <2>2. RowsOf(offers, o) = {}
    BY <2>1 DEF CandidateVerdict
  <2>3. RowsOf(offers', dop') = {} /\ PendingOf(dop)' = {}
    BY <1>0, <2>2 DEF RowsOf, PendingOf, Pending
  <2> QED
    BY <1>2, <1>3, <2>3 DEF Offers, DispatchKnows
<1>4. CASE dpc' = "retire"
  <2>1. /\ CandidateVerdict(o) = "Resolved" /\ OfferOf(o).seq \in expired
        /\ dtodo' = Seqs(PendingOf(o) \cup {OfferOf(o)})
    BY <1>4, ResolveFacts
  <2>2. Offered(o) /\ OfferOf(o).msg = dtarget
    BY <2>1 DEF CandidateVerdict, Offered
  <2> HIDE DEF o
  <2>3. OfferOf(o) \in RowsOf(offers, o) /\ (PendingOf(o) # {} => OfferOf(o) \in PendingOf(o))
    BY <2>2, OfferOfIsIn
  <2>4. \A r \in PendingOf(o) : r = OfferOf(o)
    <3> SUFFICES ASSUME NEW r \in PendingOf(o) PROVE r = OfferOf(o)
      OBVIOUS
    <3>1. OfferOf(o) \in PendingOf(o)
      BY <2>3
    <3> HIDE DEF OfferOf
    <3> QED
      BY <3>1, <1>0 DEF PendingOf, RowsOf, RowsAgree
  <2>5. dtodo' = {OfferOf(o).seq}
    BY <2>1, <2>4 DEF Seqs
  <2>6. OfferOf(o).seq \in Nat \ {0}
    BY <2>3 DEF RowsOf, Control, CenterTypes, OfferRows
  <2>7. \A r \in RowsOf(offers, o) : r.msg = dtarget
    BY <2>2, <2>3, <1>0 DEF RowsOf, RowsAgree
  <2>8. Seqs(PendingOf(o)) \subseteq dtodo' /\ RowsOf(offers, o) # {}
    BY <2>3, <2>4, <2>5 DEF Seqs
  <2>9. RowsOf(offers', dop') = RowsOf(offers, o) /\ PendingOf(dop)' = PendingOf(o)
    BY <1>0 DEF PendingOf, o
  <2> QED
    BY <1>0, <1>2, <1>4, <2>1, <2>5, <2>6, <2>7, <2>8, <2>9 DEF Offers, DispatchKnows
<1> QED
  BY <1>1, <1>3, <1>4

LEMMA RetireOffers ==
    ASSUME Control, Offers, RetireStale
    PROVE  Offers'
<1>1. CASE Min(dtodo) \notin Seqs(offers)
  BY <1>1, OffersUndisturbed DEF RetireStale, EndDispatch, Offers
<1>2. CASE Min(dtodo) \in Seqs(offers)
  <2>1. /\ offers' = Acknowledge(offers, Min(dtodo)) /\ dpc = "retire"
        /\ dtodo' = dtodo \ {Min(dtodo)}
        /\ dpc' = IF dtodo' = {} THEN "enqueue" ELSE "retire"
        /\ UNCHANGED <<dtarget, dscan, candidates, dop, expired>>
    BY <1>2 DEF RetireStale
  <2>2. Settles(offers, offers', {Min(dtodo)})
    BY <1>2, <2>1, AcknowledgeSettles DEF Control, CenterTypes, Offers, RowsAgree
  <2>3. RowsAgree'
    BY <2>2, SettledAgree DEF Offers
  <2>4. DispatchKnows
    BY DEF Offers
  <2>5. \A t \in RowsOf(offers', dop) : \E r \in RowsOf(offers, dop) : t.msg = r.msg
    BY <2>2 DEF Settles, RowsOf
  <2>6. \A t \in PendingOf(dop)' : t \in PendingOf(dop) /\ t.seq # Min(dtodo)
    BY <2>1, <2>2, SettledPending DEF PendingOf, RowsOf
  <2>7. Seqs(PendingOf(dop)') \subseteq dtodo'
    BY <2>1, <2>4, <2>6 DEF DispatchKnows, Seqs
  <2>8. RowsOf(offers', dop) # {}
    BY <2>1, <2>2, <2>4 DEF Settles, RowsOf, DispatchKnows
  <2>9. dtodo' = {} => PendingOf(dop)' = {}
    BY <2>7 DEF Seqs
  <2> QED
    BY <2>1, <2>3, <2>4, <2>5, <2>7, <2>8, <2>9 DEF Offers, DispatchKnows
<1> QED
  BY <1>1, <1>2

LEMMA CreateOffers ==
    ASSUME Control, Offers, CreateTracking
    PROVE  Offers'
<1>1. UNCHANGED offers /\ RowsAgree
  BY CreateFacts DEF Offers
<1>2. CASE EndDispatch
  BY <1>1, <1>2, OffersUndisturbed DEF EndDispatch
<1>3. CASE dop' \in Ops /\ ~Recorded(dop') /\ dpc' = "enqueue"
  <2>1. RowsOf(offers', dop') = {} /\ PendingOf(dop)' = {}
    BY <1>1, <1>3 DEF Control, Named, RowsOf, PendingOf, Pending
  <2>2. RowsAgree'
    BY <1>1 DEF RowsAgree
  <2> QED
    BY <1>3, <2>1, <2>2 DEF Offers, DispatchKnows
<1> QED
  BY <1>2, <1>3, CreateFacts

LEMMA EnqueueOffers ==
    ASSUME Control, Offers, EnqueueOffer
    PROVE  Offers'
<1>1. dpc = "enqueue" /\ dpc' = "settle"
  BY EnqueueFacts
<1>2. PICK r \in OfferRows : /\ offers' = offers \cup {r} /\ r.op = dop /\ r.msg = dtarget
                             /\ ~r.acked /\ \A s \in offers : s.seq < r.seq
  BY EnqueueFacts
<1>3. \A s \in offers : s.seq \in Nat /\ r.seq \in Nat /\ s.seq # r.seq
  BY <1>2 DEF Control, CenterTypes, OfferRows
<1>4. UniqueSeqs(offers')
  BY <1>2, <1>3 DEF Offers, RowsAgree, UniqueSeqs
<1>5. \A s \in offers : s.op = dop => s.msg = dtarget /\ s.acked
  BY <1>1 DEF Offers, DispatchKnows, RowsOf, PendingOf, Pending
<1>6. \A s, t \in offers' : s.op = t.op => s.msg = t.msg
  BY <1>2, <1>5 DEF Offers, RowsAgree
<1>7. \A s, t \in Pending(offers') : s.op = t.op => s = t
  BY <1>2, <1>5 DEF Offers, RowsAgree, Pending
<1> QED
  BY <1>1, <1>4, <1>6, <1>7 DEF Offers, RowsAgree, DispatchKnows

LEMMA SettleOffers ==
    ASSUME Control, Offers, SettleDuplicates
    PROVE  Offers'
<1> DEFINE seqs == Seqs(PendingOf(dop)) \ {OfferOf(dop).seq}
<1>1. offers' = AcknowledgeAll(offers, seqs) /\ dpc' = "idle"
  BY DEF SettleDuplicates, EndDispatch
<1> HIDE DEF seqs
<1>2. Settles(offers, offers', seqs)
  BY <1>1, AcknowledgeAllSettles DEF Control, CenterTypes, Offers, RowsAgree
<1>3. RowsAgree'
  BY <1>2, SettledAgree DEF Offers
<1> QED
  BY <1>1, <1>3 DEF Offers, DispatchKnows

LEMMA SessionOffers ==
    ASSUME Control, Offers, SessionStep
    PROVE  Offers'
<1>1. CASE CenterFlush
  <2>1. PICK offer \in Pending(offers) : \/ offers' = Acknowledge(offers, offer.seq)
                                         \/ UNCHANGED offers
    BY <1>1, FlushFacts
  <2>2. UNCHANGED <<expired, dispatchVars>>
    BY <1>1, FlushFacts
  <2>3. CASE UNCHANGED offers
    BY <2>2, <2>3, OffersStay
  <2>4. CASE offers' = Acknowledge(offers, offer.seq)
    <3>1. offer.seq \in Seqs(offers)
      BY DEF Pending, Seqs
    <3>2. Settles(offers, offers', {offer.seq})
      BY <2>4, <3>1, AcknowledgeSettles DEF Control, CenterTypes, Offers, RowsAgree
    <3> QED
      BY <2>2, <3>2, SettledAgree, SettledKnows DEF Offers
  <2> QED
    BY <2>1, <2>3, <2>4
<1>2. CASE ScoreReply
  BY <1>2, OffersStay DEF ScoreReply
<1>3. CASE AckReply
  <2>1. UNCHANGED <<expired, dispatchVars>>
    BY <1>3, AckFacts
  <2>2. PICK settled \in SUBSET Covered(handling[1]) : Settles(offers, offers', settled)
    BY <1>3, AckFacts
  <2> QED
    BY <2>1, <2>2, SettledAgree, SettledKnows DEF Offers
<1> QED
  BY <1>1, <1>2, <1>3 DEF SessionStep

LEMMA ExpireOffers ==
    ASSUME Offers, NEW offer, Expire(offer)
    PROVE  Offers'
<1>1. UNCHANGED <<offers, dispatchVars>> /\ expired \subseteq expired'
  BY DEF Expire
<1>2. RowsAgree'
  BY <1>1 DEF Offers, RowsAgree
<1>3. DispatchKnows'
  BY <1>1 DEF Offers, DispatchKnows, dispatchVars, PendingOf
<1> QED
  BY <1>2, <1>3 DEF Offers

\* Every step keeps Offers.
LEMMA NextOffers ==
    ASSUME Control, Offers, Next
    PROVE  Offers'
<1>1. ASSUME NEW t \in Targets, Request(t) PROVE Offers'
  BY <1>1, OffersUndisturbed DEF Request, Dispatch, Offers
<1>2. ASSUME NEW offer \in offers, Expire(offer) PROVE Offers'
  BY <1>2, ExpireOffers
<1>3. ASSUME NEW o \in Ops, Executes(o) PROVE Offers'
  BY <1>3, OffersStay DEF Executes, centerVars
<1>4. CASE Site
  BY <1>4, OffersStay DEF Site, centerVars
<1>5. CASE Dispatching
  <2>1. ASSUME ScanState PROVE Offers'
    <3>1. dpc' \in {"scan", "resolve"} /\ UNCHANGED offers
      BY <2>1 DEF ScanState
    <3> QED
      BY <3>1, OffersUndisturbed DEF Offers
  <2> QED
    BY <1>5, <2>1, ResolveOffers, RetireOffers, CreateOffers, EnqueueOffers, SettleOffers
       DEF Dispatching, DispatchStep
<1>6. CASE Session
  BY <1>6, SessionOffers DEF Session
<1>7. CASE Connect \/ Close \/ CenterLosesConnection
  BY <1>7, OffersStay DEF Connect, Close, CenterLosesConnection
<1>8. CASE SiteLosesConnection \/ SiteCrash
  BY <1>8, OffersStay DEF SiteLosesConnection, SiteCrash, centerVars
<1>9. CASE DispatchFails \/ CenterCrash
  BY <1>9, OffersUndisturbed DEF DispatchFails, CenterCrash, EndDispatch, Offers
<1> QED
  BY <1>1, <1>2, <1>3, <1>4, <1>5, <1>6, <1>7, <1>8, <1>9 DEF Next

-----------------------------------------------------------------------------
(* Verdicts.                                                                *)

Conclusive == {"Succeeded", "Cancelled", "Unknown"}

\* A finished operation of the site stays as it is.
RowsFinal == \A o \in Ops : row[o] \in TerminalStates => row'[o] = row[o]

\* Nothing new is in the sequence.
Kept(new, old) == \A i \in DOMAIN new : \E j \in DOMAIN old : new[i] = old[j]

TrueWrites == \A i \in DOMAIN todo : todo[i].do = "enqueue" => IsTrue(todo[i].op, todo[i].arg)
TrueReplies == \A i \in DOMAIN replies : IsTrue(replies[i].op, replies[i].msg)
TrueFrames == \A i \in DOMAIN toCenter : IsTrue(toCenter[i].op, toCenter[i].msg)

LEMMA VerdictsSplit ==
    /\ Verdicts <=> CenterVerdictIsTrue /\ ListedAsFinished /\ TrueWrites /\ TrueReplies /\ TrueFrames
    /\ Verdicts' <=> /\ CenterVerdictIsTrue' /\ ListedAsFinished' /\ TrueWrites' /\ TrueReplies'
                     /\ TrueFrames'
BY DEF Verdicts, TrueWrites, TrueReplies, TrueFrames

LEMMA ConclusiveIsFinal == Conclusive \subseteq TerminalStates
BY DEF Conclusive, TerminalStates

\* What told the truth still does.
LEMMA KeptIsTrue ==
    ASSUME Control, Verdicts, RowsFinal
    PROVE  /\ Kept(todo', todo) => TrueWrites'
           /\ Kept(replies', replies) => TrueReplies'
           /\ Kept(toCenter', toCenter) => TrueFrames'
<1>1. \A o \in Ops, v \in Conclusive : row[o] = v => row'[o] = v
  BY ConclusiveIsFinal DEF RowsFinal
<1>2. TrueWrites /\ TrueReplies /\ TrueFrames
  BY VerdictsSplit
<1>3. Kept(todo', todo) => TrueWrites'
  <2>1. \A i \in DOMAIN todo : todo[i].op \in Ops
    BY ElementTypes DEF Control
  <2> QED
    BY <1>1, <1>2, <2>1 DEF Kept, TrueWrites, IsTrue, Conclusive
<1>4. Kept(replies', replies) => TrueReplies'
  <2>1. \A i \in DOMAIN replies : replies[i].op \in Ops
    BY ElementTypes DEF Control
  <2> QED
    BY <1>1, <1>2, <2>1 DEF Kept, TrueReplies, IsTrue, Conclusive
<1>5. Kept(toCenter', toCenter) => TrueFrames'
  <2>1. \A i \in DOMAIN toCenter : toCenter[i].op \in Ops
    BY ElementTypes DEF Control
  <2> QED
    BY <1>1, <1>2, <2>1 DEF Kept, TrueFrames, IsTrue, Conclusive
<1> QED
  BY <1>3, <1>4, <1>5

LEMMA KeptTrivially ==
    ASSUME NEW old, NEW new, new = old \/ new = <<>>
    PROVE  Kept(new, old)
BY DEF Kept

\* The center's own verdicts, as long as it scores nothing.
LEMMA VerdictStays ==
    ASSUME CenterVerdictIsTrue, RowsFinal,
           \A o \in Ops : tracking'[o] \in Conclusive => tracking'[o] = tracking[o]
    PROVE  CenterVerdictIsTrue'
BY ConclusiveIsFinal DEF CenterVerdictIsTrue, RowsFinal, Conclusive

LEMMA ListedStays ==
    ASSUME Control, ListedAsFinished, RowsFinal,
           spc' # "discover" \/ known' = {} \/ (UNCHANGED <<spc, scan>> /\ known' \subseteq known)
    PROVE  ListedAsFinished'
<1>1. known \subseteq Ops
  BY DEF Control, SiteTypes
<1> QED
  BY <1>1 DEF ListedAsFinished, RowsFinal

\* A step that neither scores a reply nor decides on or performs a write.
LEMMA VerdictsUndisturbed ==
    ASSUME Control, Verdicts, RowsFinal,
           \A o \in Ops : tracking'[o] \in Conclusive => tracking'[o] = tracking[o],
           spc' # "discover" \/ known' = {} \/ (UNCHANGED <<spc, scan>> /\ known' \subseteq known),
           todo' = todo \/ todo' = <<>>, UNCHANGED replies,
           toCenter' = toCenter \/ toCenter' = <<>>
    PROVE  Verdicts'
<1>1. CenterVerdictIsTrue' /\ ListedAsFinished'
  BY VerdictStays, ListedStays, VerdictsSplit
<1>2. Kept(todo', todo) /\ Kept(replies', replies) /\ Kept(toCenter', toCenter)
  BY KeptTrivially
<1> QED
  BY <1>1, <1>2, KeptIsTrue, VerdictsSplit

LEMMA ExecuteVerdicts ==
    ASSUME Control, Verdicts, NEW o \in Ops, SiteExecute(o), UNCHANGED centerVars
    PROVE  Verdicts'
<1>1. PICK to \in Later(row[o]) \cap RowStates : row' = [row EXCEPT ![o] = to]
  BY DEF SiteExecute
<1>2. row[o] \notin TerminalStates
  BY <1>1 DEF Later, TerminalStates
<1>3. RowsFinal
  BY <1>1, <1>2 DEF RowsFinal, Control, SiteTypes
<1> QED
  BY <1>3, VerdictsUndisturbed DEF SiteExecute, centerVars, wireVars

LEMMA SiteWriteVerdicts ==
    ASSUME Control, Verdicts, SiteWrite, UNCHANGED centerVars
    PROVE  Verdicts'
<1> DEFINE w == Head(todo)
           conflict == w.do = "advance" /\ StateConflict(w.op, w.arg)
<1>1. /\ todo # <<>> /\ w = todo[1] /\ 1 \in DOMAIN todo /\ w.op \in Ops
      /\ \A i \in DOMAIN Tail(todo) : i + 1 \in DOMAIN todo /\ Tail(todo)[i] = todo[i + 1]
  BY TailFacts, ElementTypes DEF SiteWrite, Control, SiteTypes
<1>2. UNCHANGED <<tracking, toCenter>>
  BY DEF SiteWrite, wireVars, centerVars
<1>3. CASE conflict
  <2>1. SiteDisconnected /\ UNCHANGED <<row, replies>>
    BY <1>3 DEF SiteWrite
  <2> QED
    BY <1>2, <2>1, VerdictsUndisturbed DEF RowsFinal, SiteDisconnected
<1>4. CASE ~conflict
  <2>1. /\ row' = IF w.do = "create" /\ row[w.op] = "Absent"
                  THEN [row EXCEPT ![w.op] = "Queued"] ELSE row
        /\ replies' = IF w.do = "enqueue" THEN Append(replies, [op |-> w.op, msg |-> w.arg])
                                          ELSE replies
        /\ todo' = Tail(todo) /\ UNCHANGED <<spc, scan, known>>
    BY <1>4 DEF SiteWrite
  <2> HIDE DEF w
  <2>2. RowsFinal
    BY <1>1, <2>1 DEF RowsFinal, TerminalStates, Control, SiteTypes
  <2>3. CenterVerdictIsTrue' /\ ListedAsFinished'
    BY <1>2, <2>1, <2>2, VerdictStays, ListedStays, VerdictsSplit
  <2>4. TrueWrites'
    BY <1>1, <2>1, <2>2, KeptIsTrue DEF Kept
  <2>5. TrueFrames'
    BY <1>2, <2>2, KeptTrivially, KeptIsTrue
  <2>6. TrueReplies'
    <3>1. CASE w.do # "enqueue"
      BY <2>1, <2>2, <3>1, KeptTrivially, KeptIsTrue
    <3>2. CASE w.do = "enqueue"
      <4> DEFINE reply == [op |-> w.op, msg |-> w.arg]
      <4>1. reply \in SiteReplies
        BY <1>1, <3>2, ElementTypes DEF Control, SiteWrites, SiteReplies
      <4>2. IsTrue(w.op, w.arg) /\ reply.op = w.op /\ reply.msg = w.arg
        BY <1>1, <3>2, VerdictsSplit DEF TrueWrites
      <4> HIDE DEF reply
      <4>3. /\ \A i \in DOMAIN replies : replies'[i] = replies[i]
            /\ \A i \in DOMAIN replies' : i \in DOMAIN replies \/ replies'[i] = reply
        BY <2>1, <3>2, <4>1, AppendFacts DEF Control, SiteTypes, reply
      <4>4. \A o \in Ops, v \in Conclusive : row[o] = v => row'[o] = v
        BY <2>2, ConclusiveIsFinal DEF RowsFinal
      <4>5. \A i \in DOMAIN replies : replies[i].op \in Ops
        BY ElementTypes DEF Control
      <4>6. TrueReplies
        BY VerdictsSplit
      <4>7. ASSUME NEW i \in DOMAIN replies' PROVE IsTrue(replies[i].op, replies[i].msg)'
        <5>1. CASE i \in DOMAIN replies
          BY <5>1, <4>3, <4>4, <4>5, <4>6 DEF TrueReplies, IsTrue, Conclusive
        <5>2. CASE replies'[i] = reply
          BY <5>2, <4>2, <4>4, <1>1 DEF IsTrue, Conclusive
        <5> QED
          BY <4>3, <4>7, <5>1, <5>2
      <4> QED
        BY <4>7 DEF TrueReplies
    <3> QED
      BY <3>1, <3>2
  <2> QED
    BY <2>3, <2>4, <2>5, <2>6, VerdictsSplit
<1> QED
  BY <1>3, <1>4

\* A handler decides on writes that tell the truth.
LEMMA HandlerVerdicts ==
    ASSUME Control, Verdicts, UNCHANGED <<row, replies, toCenter, tracking>>,
           NEW o \in Ops, HandlerWrites(o, todo'),
           spc' # "discover" \/ known' = {} \/ (UNCHANGED <<spc, scan>> /\ known' \subseteq known)
    PROVE  Verdicts'
<1>1. RowsFinal
  BY DEF RowsFinal
<1>2. CenterVerdictIsTrue' /\ ListedAsFinished'
  BY <1>1, VerdictStays, ListedStays, VerdictsSplit
<1>3. TrueReplies' /\ TrueFrames'
  BY <1>1, KeptTrivially, KeptIsTrue
<1>4. TrueWrites'
  BY DEF TrueWrites, HandlerWrites, IsTrue
<1> QED
  BY <1>2, <1>3, <1>4, VerdictsSplit

LEMMA DiscoverVerdicts ==
    ASSUME Control, Verdicts, Discover, UNCHANGED centerVars
    PROVE  Verdicts'
<1>1. UNCHANGED <<row, replies, todo, toCenter, tracking>> /\ RowsFinal
  BY DEF Discover, centerVars, wireVars, RowsFinal
<1>2. ListedAsFinished'
  <2>1. CASE scan > Len(ReportStates)
    BY <2>1, FlushNextFacts DEF Discover, ListedAsFinished
  <2>2. CASE ~(scan > Len(ReportStates))
    <3>1. known' = {o \in Ops : row[o] = ReportStates[scan]} /\ scan' = scan + 1 /\ scan \in Nat
      BY <2>2 DEF Discover, Control, SiteTypes
    <3>2. scan' - 1 = scan
      BY <3>1
    <3> QED
      BY <1>1, <3>1, <3>2 DEF ListedAsFinished
  <2> QED
    BY <2>1, <2>2
<1>3. CenterVerdictIsTrue'
  BY <1>1, VerdictStays, VerdictsSplit
<1> QED
  BY <1>1, <1>2, <1>3, KeptTrivially, KeptIsTrue, VerdictsSplit

LEMMA ReportListedVerdicts ==
    ASSUME Control, Verdicts, ReportListed, UNCHANGED centerVars
    PROVE  Verdicts'
<1>1. UNCHANGED <<row, replies, toCenter, tracking, spc, scan>> /\ spc = "discover"
  BY DEF ReportListed, centerVars, wireVars
<1>2. PICK o \in known : /\ known' = known \ {o}
                         /\ todo' = ReportOpenEntry(o, ReportStates[scan - 1])
  BY DEF ReportListed
<1>3. o \in Ops /\ scan - 1 \in 1 .. 9
  BY <1>1, <1>2 DEF Control, SiteTypes
<1> DEFINE s == ReportStates[scan - 1]
<1>4. s \in OperationStates /\ (s \in TerminalStates => row[o] = s)
  BY <1>1, <1>2, <1>3, ReportStateTypes DEF Verdicts, ListedAsFinished
<1> HIDE DEF s
<1>5. HandlerWrites(o, todo')
  BY <1>2, <1>3, <1>4, ReportWrites DEF s
<1> QED
  BY <1>1, <1>2, <1>3, <1>5, HandlerVerdicts

LEMMA ReportKnownVerdicts ==
    ASSUME Control, Verdicts, ReportKnown, UNCHANGED centerVars
    PROVE  Verdicts'
<1>1. /\ UNCHANGED <<row, replies, toCenter, tracking>> /\ spc = "known" /\ RowsFinal
      /\ row \in [Ops -> OperationStates \cup {"Absent"}] /\ known \subseteq Ops
  BY RowStatesAssumption DEF ReportKnown, centerVars, wireVars, RowsFinal, Control, SiteTypes
<1>2. spc' # "discover"
  BY <1>1, FlushNextFacts DEF ReportKnown
<1>3. CASE UNCHANGED todo
  BY <1>1, <1>2, <1>3, VerdictsUndisturbed
<1>4. ASSUME NEW o \in known, row[o] # "Absent", todo' = ReportOpenEntry(o, row[o])
      PROVE  Verdicts'
  <2>1. o \in Ops /\ row[o] \in OperationStates
    BY <1>1, <1>4
  <2>2. HandlerWrites(o, todo')
    BY <2>1, <1>4, ReportWrites
  <2> QED
    BY <1>1, <1>2, <2>1, <2>2, HandlerVerdicts
<1> QED
  BY <1>3, <1>4 DEF ReportKnown

LEMMA SiteFlushVerdicts ==
    ASSUME Control, Verdicts, SiteFlush, UNCHANGED centerVars
    PROVE  Verdicts'
<1> DEFINE frame == [op |-> replies[ssent + 1].op, msg |-> replies[ssent + 1].msg,
                     acked |-> peerAcked]
<1>1. /\ UNCHANGED <<row, replies, todo, tracking>> /\ spc = "flush" /\ todo = <<>>
      /\ toCenter' = Append(toCenter, frame) /\ spc' # "discover" /\ RowsFinal
  BY FlushNextFacts DEF SiteFlush, centerVars, RowsFinal
<1>2. ssent + 1 \in DOMAIN replies /\ peerAcked \in Nat
  BY <1>1 DEF Control, SiteTypes, Exchange
<1>3. frame \in CenterFrames /\ frame.op = replies[ssent + 1].op /\ frame.msg = replies[ssent + 1].msg
  BY <1>2, ElementTypes DEF Control, CenterFrames
<1> HIDE DEF frame
<1>4. /\ \A i \in DOMAIN toCenter : toCenter'[i] = toCenter[i]
      /\ \A i \in DOMAIN toCenter' : i \in DOMAIN toCenter \/ toCenter'[i] = frame
  BY <1>1, <1>3, AppendFacts DEF Control, SiteTypes
<1>5. TrueReplies /\ TrueFrames
  BY VerdictsSplit
<1>6. TrueFrames'
  BY <1>1, <1>2, <1>3, <1>4, <1>5 DEF TrueReplies, TrueFrames, IsTrue
<1>7. CenterVerdictIsTrue' /\ ListedAsFinished'
  BY <1>1, VerdictStays, ListedStays, VerdictsSplit
<1> QED
  BY <1>1, <1>6, <1>7, KeptTrivially, KeptIsTrue, VerdictsSplit

LEMMA ReceiveVerdicts ==
    ASSUME Control, Verdicts, ReceiveOffer \/ ReceiveAck, UNCHANGED centerVars
    PROVE  Verdicts'
<1>1. UNCHANGED <<row, toCenter, tracking>> /\ spc' # "discover" /\ RowsFinal
  BY FlushNextFacts DEF ReceiveOffer, ReceiveAck, centerVars, RowsFinal
<1>2. CASE ReceiveOffer
  <2> DEFINE o == Head(toSite).op
  <2>1. o \in Ops
    BY <1>2, SiteHead, ElementTypes DEF ReceiveOffer, Control
  <2>2. PICK accept \in BOOLEAN : todo' = AnswerOffer(o, accept)
    BY <1>2 DEF ReceiveOffer
  <2> HIDE DEF o
  <2>3. HandlerWrites(o, todo')
    BY <2>1, <2>2, AnswerOfferWrites DEF Control
  <2> QED
    BY <1>1, <1>2, <2>1, <2>3, HandlerVerdicts DEF ReceiveOffer
<1>3. CASE ReceiveAck
  <2>1. replies' = Tail(replies) /\ UNCHANGED todo
    BY <1>3 DEF ReceiveAck
  <2>2. Kept(replies', replies)
    <3>1. CASE replies = <<>>
      BY <2>1, <3>1 DEF Kept
    <3>2. CASE replies # <<>>
      BY <2>1, <3>2, TailFacts DEF Kept, Control, SiteTypes
    <3> QED
      BY <3>1, <3>2
  <2>3. CenterVerdictIsTrue' /\ ListedAsFinished'
    BY <1>1, VerdictStays, ListedStays, VerdictsSplit
  <2> QED
    BY <1>1, <2>1, <2>2, <2>3, KeptTrivially, KeptIsTrue, VerdictsSplit
<1> QED
  BY <1>2, <1>3

\* Scoring a reply records only what it reports.
LEMMA ScoreVerdicts ==
    ASSUME Control, Verdicts, ScoreReply, UNCHANGED siteVars
    PROVE  Verdicts'
<1> DEFINE o == toCenter[1].op
           t == ReplyTarget(toCenter[1].msg)
<1>1. /\ 1 \in DOMAIN toCenter /\ o \in Ops /\ toCenter[1].msg \in Messages
      /\ t \in ReplyTargets /\ tracking[o] \in PersistedStates \cup TerminalStates
      /\ tracking' = [tracking EXCEPT ![o] = ApplyEvents(tracking[o], t)]
      /\ \A i \in DOMAIN toCenter' : i + 1 \in DOMAIN toCenter /\ toCenter'[i] = toCenter[i + 1]
  BY ScoreFacts
<1>2. RowsFinal /\ UNCHANGED <<row, todo, replies, spc, scan, known>>
  BY DEF RowsFinal, siteVars
<1>3. t \in Conclusive => row[o] = t
  <2>1. t \in Conclusive => toCenter[1].msg.kind = "completed" /\ toCenter[1].msg.reported = t
    BY <1>1, ReplyTargetSound DEF Conclusive
  <2>2. IsTrue(o, toCenter[1].msg)
    BY <1>1, VerdictsSplit DEF TrueFrames
  <2> QED
    BY <2>1, <2>2 DEF IsTrue, Conclusive
<1>4. CenterVerdictIsTrue /\ TrueFrames
  BY VerdictsSplit
<1> HIDE DEF o, t
<1>5. ApplyEvents(tracking[o], t) \in Conclusive => ApplyEvents(tracking[o], t) \in {tracking[o], t}
  BY <1>1, ScoringMovesForward, ConclusiveIsFinal
<1>6. CenterVerdictIsTrue'
  <2>1. tracking \in [Ops -> PersistedStates \cup TerminalStates \cup {"Absent"}]
    BY DEF Control, CenterTypes
  <2>2. ASSUME NEW p \in Ops, tracking'[p] \in Conclusive PROVE row'[p] = tracking'[p]
    <3>1. CASE p # o
      BY <1>1, <1>2, <1>4, <2>1, <2>2, <3>1 DEF CenterVerdictIsTrue, Conclusive
    <3>2. CASE p = o
      <4>1. tracking'[o] = ApplyEvents(tracking[o], t)
        BY <1>1, <2>1
      <4> QED
        BY <1>1, <1>2, <1>3, <1>4, <1>5, <2>2, <3>2, <4>1 DEF CenterVerdictIsTrue, Conclusive
    <3> QED
      BY <3>1, <3>2
  <2> QED
    BY <2>2 DEF CenterVerdictIsTrue, Conclusive
<1>7. ListedAsFinished'
  BY <1>2, ListedStays, VerdictsSplit
<1>8. Kept(toCenter', toCenter)
  BY <1>1 DEF Kept
<1> QED
  BY <1>2, <1>6, <1>7, <1>8, KeptTrivially, KeptIsTrue, VerdictsSplit

\* Every step keeps Verdicts.
LEMMA NextVerdicts ==
    ASSUME Control, Verdicts, Offers, Next
    PROVE  Verdicts'
<1>1. ASSUME UNCHANGED <<siteVars, toCenter>>,
             \A o \in Ops : tracking'[o] \in Conclusive => tracking'[o] = tracking[o]
      PROVE  Verdicts'
  BY <1>1, VerdictsUndisturbed DEF siteVars, RowsFinal
<1>2. ASSUME NEW t \in Targets, Request(t) PROVE Verdicts'
  BY <1>1, <1>2 DEF Request, Dispatch, wireVars
<1>3. ASSUME NEW offer \in offers, Expire(offer) PROVE Verdicts'
  BY <1>1, <1>3 DEF Expire, wireVars
<1>4. ASSUME NEW o \in Ops, Executes(o) PROVE Verdicts'
  BY <1>4, ExecuteVerdicts DEF Executes
<1>5. CASE Site
  BY <1>5, SiteWriteVerdicts, DiscoverVerdicts, ReportListedVerdicts, ReportKnownVerdicts,
     SiteFlushVerdicts, ReceiveVerdicts DEF Site, SiteStep
<1>6. CASE Dispatching
  <2>1. UNCHANGED <<siteVars, toCenter>>
    BY <1>6 DEF Dispatching, wireVars
  <2>2. CASE CreateTracking
    <3>1. \A o \in Ops : tracking'[o] \in Conclusive => tracking'[o] = tracking[o]
      <4>1. CASE UNCHANGED tracking
        BY <4>1
      <4>2. CASE tracking' = [tracking EXCEPT ![dop'] = "Queued"]
        BY <4>2 DEF Conclusive, Control, CenterTypes
      <4> QED
        BY <2>2, <4>1, <4>2 DEF CreateTracking
    <3> QED
      BY <1>1, <2>1, <3>1
  <2>3. CASE ~CreateTracking
    <3>1. UNCHANGED tracking
      BY <1>6, <2>3 DEF Dispatching, DispatchStep, ScanState, Resolve, RetireStale, EnqueueOffer,
                        SettleDuplicates
    <3> QED
      BY <1>1, <2>1, <3>1
  <2> QED
    BY <2>2, <2>3
<1>7. CASE Session
  <2>1. CASE CenterFlush
    BY <1>1, <1>7, <2>1, FlushFacts DEF Session
  <2>2. CASE AckReply
    BY <1>1, <1>7, <2>2, AckFacts DEF Session
  <2> QED
    BY <1>7, <2>1, <2>2, ScoreVerdicts DEF Session, SessionStep
<1>8. CASE Connect
  <2>1. /\ UNCHANGED <<row, replies, todo, tracking>> /\ toCenter' = <<>>
        /\ spc' # "discover" \/ known' = {}
    BY <1>8 DEF Connect
  <2> QED
    BY <2>1, VerdictsUndisturbed DEF RowsFinal
<1>9. CASE CenterLosesConnection \/ DispatchFails \/ CenterCrash \/ (Close /\ UNCHANGED siteVars)
  BY <1>1, <1>9 DEF CenterLosesConnection, DispatchFails, CenterCrash, Close, wireVars
<1>10. CASE SiteLosesConnection \/ SiteCrash \/ (Close /\ SiteDisconnected /\ UNCHANGED <<row, replies>>)
  <2>1. SiteDisconnected /\ UNCHANGED <<row, replies, toCenter, tracking>>
    BY <1>10 DEF SiteLosesConnection, SiteCrash, Close, wireVars, centerVars
  <2> QED
    BY <2>1, VerdictsUndisturbed DEF RowsFinal, SiteDisconnected
<1>11. CASE Close
  BY <1>9, <1>10, <1>11 DEF Close
<1> QED
  BY <1>2, <1>3, <1>4, <1>5, <1>6, <1>7, <1>8, <1>9, <1>10, <1>11 DEF Next

-----------------------------------------------------------------------------
(* Answers.                                                                 *)

Closed(o) == inbox[o] \in {"Rejected", "Completed"}

LEMMA AnswersSplit ==
    /\ Answers <=> (\A o \in Ops : Closed(o) => Answered(o)) /\ ClosingIsAnswered
    /\ Answers' <=> (\A o \in Ops : Closed(o)' => Answered(o)') /\ ClosingIsAnswered'
BY DEF Answers, ReplyNeverLost, Closed, Answered, IsFinal

\* A reply leaves the outbox only once it was scored.
RepliesKept ==
    \A i \in DOMAIN replies : IsScored(replies[i]) \/ \E j \in DOMAIN replies' : replies'[j] = replies[i]

LEMMA AnsweredStays ==
    ASSUME Control, Forward, RepliesKept, NEW o \in Ops, Answered(o)
    PROVE  Answered(o)'
<1>1. CASE tracking[o] \in TerminalStates
  BY <1>1 DEF Forward, Answered
<1>2. ASSUME NEW i \in DOMAIN replies, replies[i].op = o, IsFinal(replies[i].msg)
      PROVE  Answered(o)'
  <2>1. CASE IsScored(replies[i])
    BY <1>1, <1>2, <2>1 DEF IsScored
  <2>2. CASE \E j \in DOMAIN replies' : replies'[j] = replies[i]
    BY <1>2, <2>2 DEF Answered, IsFinal
  <2> QED
    BY <2>1, <2>2 DEF RepliesKept
<1> QED
  BY <1>1, <1>2 DEF Answered

\* A step that closes no entry and decides on nothing.
LEMMA AnswersUndisturbed ==
    ASSUME Control, Answers, Forward, RepliesKept, UNCHANGED inbox, todo' = todo \/ todo' = <<>>
    PROVE  Answers'
<1>1. \A o \in Ops : Answered(o) => Answered(o)'
  BY AnsweredStays
<1>2. \A o \in Ops : Closed(o)' => Answered(o)'
  BY <1>1, AnswersSplit DEF Closed
<1>3. ClosingIsAnswered'
  <2>1. CASE todo' = <<>>
    BY <2>1 DEF ClosingIsAnswered
  <2>2. CASE todo' = todo
    <3>1. ClosingIsAnswered /\ \A i \in DOMAIN todo : todo[i].op \in Ops
      BY ElementTypes, AnswersSplit DEF Control
    <3>2. \A i \in DOMAIN todo' : Answered(todo[i].op) => Answered(todo[i].op)'
      <4> SUFFICES ASSUME NEW i \in DOMAIN todo', Answered(todo[i].op)
                   PROVE  Answered(todo[i].op)'
        OBVIOUS
      <4> DEFINE o == todo[i].op
      <4>1. o \in Ops /\ Answered(o) /\ todo'[i].op = o
        BY <2>2, <3>1
      <4>2. tracking'[o] \in TerminalStates \/ \E j \in DOMAIN replies' : replies'[j].op = o /\ IsFinal(replies'[j].msg)
        <5> HIDE DEF o
        <5> QED
          BY <1>1, <4>1 DEF Answered, IsFinal
      <4> QED
        BY <4>1, <4>2 DEF Answered, IsFinal
    <3> QED
      BY <2>2, <3>1, <3>2 DEF ClosingIsAnswered, Closes, IsFinal
  <2> QED
    BY <2>1, <2>2
<1> QED
  BY <1>2, <1>3, AnswersSplit

LEMMA RepliesStay == ASSUME UNCHANGED replies PROVE RepliesKept
BY DEF RepliesKept

\* A handler decides to close nothing unanswered.
LEMMA HandlerAnswers ==
    ASSUME Control, Answers, Forward, UNCHANGED replies, NEW o \in Ops, HandlerWrites(o, todo'),
           \A p \in Ops : Closed(p)' => Closed(p)
    PROVE  Answers'
<1>1. \A p \in Ops : Closed(p)' => Answered(p)'
  BY RepliesStay, AnsweredStays, AnswersSplit
<1>2. ClosingIsAnswered'
  <2> SUFFICES ASSUME NEW i \in DOMAIN todo', Closes(todo'[i])
               PROVE  \E j \in 1 .. i - 1 : /\ todo'[j].do = "enqueue"
                                            /\ todo'[j].op = todo'[i].op
                                            /\ IsFinal(todo'[j].arg)
    BY DEF ClosingIsAnswered, Closes, IsFinal
  <2>1. PICK j \in 1 .. i - 1 : todo'[j].do = "enqueue" /\ IsFinal(todo'[j].arg)
    BY DEF HandlerWrites
  <2>2. j \in DOMAIN todo'
    <3>1. todo' \in Seq(SiteWrites)
      BY DEF HandlerWrites
    <3> QED
      BY <3>1
  <2> QED
    BY <2>1, <2>2 DEF HandlerWrites
<1> QED
  BY <1>1, <1>2, AnswersSplit

LEMMA SiteWriteAnswers ==
    ASSUME Control, Answers, SiteWrite, UNCHANGED centerVars
    PROVE  Answers'
<1> DEFINE w == Head(todo)
           conflict == w.do = "advance" /\ StateConflict(w.op, w.arg)
<1>0. Forward /\ tracking' = tracking
  BY CenterStays DEF Control, centerVars
<1>1. /\ todo # <<>> /\ w = todo[1] /\ 1 \in DOMAIN todo /\ w.op \in Ops /\ w \in SiteWrites
      /\ DOMAIN todo = 1 .. Len(todo) /\ Len(todo) \in Nat \ {0}
      /\ DOMAIN Tail(todo) = 1 .. Len(todo) - 1
      /\ \A i \in DOMAIN Tail(todo) : i + 1 \in DOMAIN todo /\ Tail(todo)[i] = todo[i + 1]
  BY TailFacts, ElementTypes DEF SiteWrite, Control, SiteTypes
<1>2. CASE conflict
  <2>1. SiteDisconnected /\ UNCHANGED <<inbox, replies>>
    BY <1>2 DEF SiteWrite
  <2> QED
    BY <1>0, <2>1, RepliesStay, AnswersUndisturbed DEF SiteDisconnected
<1>3. CASE ~conflict
  <2>1. /\ inbox' = IF w.do = "advance" THEN [inbox EXCEPT ![w.op] = w.arg] ELSE inbox
        /\ replies' = IF w.do = "enqueue" THEN Append(replies, [op |-> w.op, msg |-> w.arg])
                                          ELSE replies
        /\ todo' = Tail(todo)
    BY <1>3 DEF SiteWrite
  <2> HIDE DEF w
  <2>2. /\ RepliesKept
        /\ w.do = "enqueue" => \E j \in DOMAIN replies' : replies'[j].op = w.op /\ replies'[j].msg = w.arg
    <3>1. CASE w.do # "enqueue"
      BY <2>1, <3>1, RepliesStay
    <3>2. CASE w.do = "enqueue"
      <4> DEFINE reply == [op |-> w.op, msg |-> w.arg]
      <4>1. reply \in SiteReplies /\ reply.op = w.op /\ reply.msg = w.arg
        BY <1>1, <3>2 DEF SiteWrites, SiteReplies
      <4> HIDE DEF reply
      <4>2. /\ \A i \in DOMAIN replies : i \in DOMAIN replies' /\ replies'[i] = replies[i]
            /\ replies'[Len(replies) + 1] = reply /\ Len(replies) + 1 \in DOMAIN replies'
        <5>1. replies \in Seq(SiteReplies) /\ replies' = Append(replies, reply)
          BY <2>1, <3>2 DEF Control, SiteTypes, reply
        <5> QED
          BY <4>1, <5>1, AppendFacts
      <4> QED
        BY <4>1, <4>2 DEF RepliesKept
    <3> QED
      BY <3>1, <3>2
  <2>3. \A o \in Ops : Answered(o) => Answered(o)'
    BY <1>0, <2>2, AnsweredStays
  <2>4. ClosingIsAnswered /\ \A o \in Ops : Closed(o) => Answered(o)
    BY AnswersSplit
  <2>5. Closes(w) => Answered(w.op)
    <3>1. 1 .. 1 - 1 = {}
      OBVIOUS
    <3> QED
      BY <1>1, <2>4, <3>1 DEF ClosingIsAnswered
  <2>6. ASSUME NEW o \in Ops, Closed(o)' PROVE Answered(o)'
    <3>1. CASE Closed(o)
      BY <2>3, <2>4, <3>1
    <3>2. CASE ~Closed(o)
      <4>1. w.do = "advance" /\ o = w.op /\ w.arg \in {"Rejected", "Completed"}
        BY <1>1, <2>1, <2>6, <3>2 DEF Closed, Control, SiteTypes
      <4> QED
        BY <4>1, <2>3, <2>5 DEF Closes
    <3> QED
      BY <3>1, <3>2
  <2>7. ClosingIsAnswered'
    <3>1. ASSUME NEW i \in DOMAIN todo', Closes(todo'[i])
          PROVE  \/ Answered(todo[i].op)'
                 \/ \E j \in 1 .. i - 1 : /\ todo'[j].do = "enqueue"
                                          /\ todo'[j].op = todo'[i].op
                                          /\ IsFinal(todo'[j].arg)
      <4>1. /\ i \in Nat \ {0} /\ i + 1 \in DOMAIN todo /\ todo'[i] = todo[i + 1]
            /\ i <= Len(todo) - 1
        BY <1>1, <2>1, <3>1
      <4>0. PICK o \in Ops : o = todo[i + 1].op
        BY <4>1, ElementTypes DEF Control
      <4>2. \/ Answered(o)
            \/ \E j \in 1 .. (i + 1) - 1 : /\ todo[j].do = "enqueue"
                                           /\ todo[j].op = o
                                           /\ IsFinal(todo[j].arg)
        BY <2>4, <3>1, <4>0, <4>1 DEF ClosingIsAnswered
      <4>3. CASE Answered(o)
        <5>1. Answered(o)'
          BY <2>3, <4>3
        <5>2. todo'[i].op = o
          BY <4>0, <4>1
        <5> QED
          BY <5>1, <5>2 DEF Answered, IsFinal
      <4>4. ASSUME NEW j \in 1 .. (i + 1) - 1, todo[j].do = "enqueue", todo[j].op = o,
                   IsFinal(todo[j].arg)
            PROVE  \/ Answered(todo[i].op)'
                   \/ \E k \in 1 .. i - 1 : /\ todo'[k].do = "enqueue"
                                            /\ todo'[k].op = todo'[i].op
                                            /\ IsFinal(todo'[k].arg)
        <5>1. todo'[i].op = o
          BY <4>0, <4>1
        <5>2. CASE j = 1
          <6>1. w.do = "enqueue" /\ w.op = o /\ IsFinal(w.arg)
            BY <1>1, <4>4, <5>2
          <6>2. PICK k \in DOMAIN replies' : replies'[k].op = o /\ IsFinal(replies'[k].msg)
            BY <2>2, <6>1
          <6> QED
            BY <5>1, <6>2 DEF Answered, IsFinal
        <5>3. CASE j # 1
          <6>1. j - 1 \in 1 .. i - 1 /\ j - 1 \in DOMAIN todo' /\ (j - 1) + 1 = j
            BY <1>1, <2>1, <4>1, <5>3
          <6>2. todo'[j - 1] = todo[j]
            BY <1>1, <2>1, <6>1
          <6> QED
            BY <4>4, <5>1, <6>1, <6>2
        <5> QED
          BY <5>2, <5>3
      <4> QED
        BY <4>2, <4>3, <4>4
    <3> QED
      BY <3>1 DEF ClosingIsAnswered, Closes, IsFinal
  <2> QED
    BY <2>6, <2>7, AnswersSplit
<1> QED
  BY <1>2, <1>3

LEMMA ReportAnswers ==
    ASSUME Control, Answers, ListedAsFinished, ReportListed \/ ReportKnown, UNCHANGED centerVars
    PROVE  Answers'
<1>1. /\ UNCHANGED <<inbox, replies>> /\ Forward
      /\ row \in [Ops -> OperationStates \cup {"Absent"}] /\ known \subseteq Ops
  BY CenterStays, RowStatesAssumption DEF ReportListed, ReportKnown, Control, SiteTypes
<1>2. \A p \in Ops : Closed(p)' => Closed(p)
  BY <1>1 DEF Closed
<1>3. CASE ReportListed
  <2>1. PICK o \in known : todo' = ReportOpenEntry(o, ReportStates[scan - 1])
    BY <1>3 DEF ReportListed
  <2>2. o \in Ops /\ scan - 1 \in 1 .. 9 /\ spc = "discover"
    BY <1>3, <2>1 DEF ReportListed, Control, SiteTypes
  <2> DEFINE s == ReportStates[scan - 1]
  <2>3. s \in OperationStates /\ (s \in TerminalStates => row[o] = s)
    BY <2>1, <2>2, ReportStateTypes DEF ListedAsFinished
  <2> HIDE DEF s
  <2>4. HandlerWrites(o, todo')
    BY <2>1, <2>2, <2>3, ReportWrites DEF s
  <2> QED
    BY <1>1, <1>2, <2>2, <2>4, HandlerAnswers
<1>4. CASE UNCHANGED todo
  BY <1>1, <1>4, RepliesStay, AnswersUndisturbed
<1>5. ASSUME NEW o \in known, row[o] # "Absent", todo' = ReportOpenEntry(o, row[o])
      PROVE  Answers'
  <2>1. o \in Ops /\ row[o] \in OperationStates
    BY <1>1, <1>5
  <2>2. HandlerWrites(o, todo')
    BY <2>1, <1>5, ReportWrites
  <2> QED
    BY <1>1, <1>2, <2>1, <2>2, HandlerAnswers
<1> QED
  BY <1>3, <1>4, <1>5 DEF ReportKnown

LEMMA ReceiveOfferAnswers ==
    ASSUME Control, Answers, ReceiveOffer, UNCHANGED centerVars
    PROVE  Answers'
<1> DEFINE o == Head(toSite).op
<1>1. o \in Ops /\ Forward
  BY CenterStays, SiteHead, ElementTypes DEF ReceiveOffer, Control
<1>2. PICK accept \in BOOLEAN : todo' = AnswerOffer(o, accept)
  BY DEF ReceiveOffer
<1>3. UNCHANGED replies /\ inbox' = [inbox EXCEPT ![o] = IF inbox[o] = "none" THEN "Received" ELSE inbox[o]]
  BY DEF ReceiveOffer
<1> HIDE DEF o
<1>4. HandlerWrites(o, todo')
  BY <1>1, <1>2, AnswerOfferWrites DEF Control
<1>5. \A p \in Ops : Closed(p)' => Closed(p)
  BY <1>1, <1>3 DEF Closed, Control, SiteTypes
<1> QED
  BY <1>1, <1>3, <1>4, <1>5, HandlerAnswers

\* The reply an acknowledgement settles was scored before.
LEMMA ReceiveAckAnswers ==
    ASSUME Control, Answers, ReceiveAck, UNCHANGED centerVars
    PROVE  Answers'
<1>1. /\ spc = "loop" /\ toSite # <<>> /\ Head(toSite).kind = "ack" /\ replies' = Tail(replies)
      /\ UNCHANGED <<inbox, todo>> /\ Forward
  BY CenterStays DEF ReceiveAck, Control
<1> DEFINE rest == Cardinality(AckPositions(Tail(toSite)))
<1>2. rest = Acks - 1 /\ Tail(toSite) \in Seq(SiteFrames) /\ Acks \in Nat
  BY <1>1, SiteHead, AcksType DEF Control
<1>3. rest \in Nat
  BY <1>2, AckPositionsType
<1> HIDE DEF rest
<1>4. Acks >= 1
  BY <1>2, <1>3
<1>5. /\ Acks <= ssent /\ ssent <= Len(replies) /\ ssent \in Nat /\ replies \in Seq(SiteReplies)
      /\ \A i \in 1 .. Acks : IsScored(replies[i])
  BY <1>1 DEF Control, Exchange, SiteTypes
<1>6. IsScored(replies[1])
  BY <1>2, <1>4, <1>5
<1>7. replies # <<>>
  BY <1>2, <1>4, <1>5
<1>8. /\ DOMAIN replies = 1 .. Len(replies) /\ DOMAIN replies' = 1 .. Len(replies) - 1
      /\ Len(replies) \in Nat /\ \A i \in DOMAIN replies' : replies'[i] = replies[i + 1]
  BY <1>1, <1>5, <1>7, TailFacts
<1>9. RepliesKept
  <2>1. ASSUME NEW i \in DOMAIN replies, i # 1
        PROVE  i - 1 \in DOMAIN replies' /\ replies'[i - 1] = replies[i]
    <3>1. i - 1 \in DOMAIN replies' /\ (i - 1) + 1 = i
      BY <1>8, <2>1
    <3> QED
      BY <1>8, <3>1
  <2> QED
    BY <1>6, <2>1 DEF RepliesKept
<1> QED
  BY <1>1, <1>9, AnswersUndisturbed

\* Every step keeps Answers.
LEMMA NextAnswers ==
    ASSUME Control, Answers, ListedAsFinished, Next
    PROVE  Answers'
<1>1. ASSUME Forward, UNCHANGED <<inbox, replies>>, todo' = todo \/ todo' = <<>>
      PROVE  Answers'
  BY <1>1, RepliesStay, AnswersUndisturbed
<1>2. UNCHANGED tracking => Forward
  BY ForwardStays DEF Control
<1>3. ASSUME NEW t \in Targets, Request(t) PROVE Answers'
  BY <1>1, <1>2, <1>3 DEF Request, Dispatch, siteVars
<1>4. ASSUME NEW offer \in offers, Expire(offer) PROVE Answers'
  BY <1>1, <1>2, <1>4 DEF Expire, siteVars
<1>5. ASSUME NEW o \in Ops, Executes(o) PROVE Answers'
  BY <1>1, <1>2, <1>5 DEF Executes, SiteExecute, centerVars
<1>6. CASE Site
  <2>1. ASSUME Discover \/ SiteFlush PROVE Answers'
    BY <1>1, <1>2, <1>6, <2>1 DEF Site, Discover, SiteFlush, centerVars
  <2> QED
    BY <1>6, <2>1, SiteWriteAnswers, ReportAnswers, ReceiveOfferAnswers, ReceiveAckAnswers
       DEF Site, SiteStep
<1>7. CASE Dispatching
  <2>1. Forward
    <3>1. CASE CreateTracking
      BY <3>1, CreateFacts
    <3>2. CASE ~CreateTracking
      BY <1>2, <1>7, <3>2 DEF Dispatching, DispatchStep, ScanState, Resolve, RetireStale,
                              EnqueueOffer, SettleDuplicates
    <3> QED
      BY <3>1, <3>2
  <2> QED
    BY <1>1, <1>7, <2>1 DEF Dispatching, siteVars
<1>8. CASE Session
  <2>1. Forward
    <3>1. CASE ScoreReply
      BY <3>1, ScoreFacts
    <3>2. CASE ~ScoreReply
      BY <1>2, <1>8, <3>2 DEF Session, SessionStep, CenterFlush, AckReply
    <3> QED
      BY <3>1, <3>2
  <2> QED
    BY <1>1, <1>8, <2>1 DEF Session, siteVars
<1>9. CASE Connect \/ CenterLosesConnection \/ DispatchFails \/ CenterCrash
  BY <1>1, <1>2, <1>9 DEF Connect, CenterLosesConnection, DispatchFails, CenterCrash, siteVars
<1>10. CASE SiteLosesConnection \/ SiteCrash
  BY <1>1, <1>2, <1>10 DEF SiteLosesConnection, SiteCrash, SiteDisconnected, centerVars
<1>11. CASE Close
  BY <1>1, <1>2, <1>11 DEF Close, SiteDisconnected, siteVars
<1> QED
  BY <1>3, <1>4, <1>5, <1>6, <1>7, <1>8, <1>9, <1>10, <1>11 DEF Next

-----------------------------------------------------------------------------
(* Delivery.                                                                *)

\* What a step may do to the rows: drop one that is followed by a newer one,
\* acknowledge one that was delivered or has expired, add one above all.
Evolves ==
    /\ \A r \in offers : \E t \in offers' : t.op = r.op /\ t.seq >= r.seq
    /\ \A t \in offers' :
          \/ \E r \in offers : /\ r.seq = t.seq /\ r.op = t.op
                               /\ r.acked => t.acked
                               /\ t.acked => r.acked \/ inbox'[r.op] # "none" \/ r.seq \in expired'
          \/ ~t.acked /\ \A r \in offers : r.seq < t.seq
    /\ \A o \in Ops : inbox[o] # "none" => inbox'[o] # "none"
    /\ expired \subseteq expired'

LEMMA RowTypes ==
    /\ CenterTypes => \A r \in offers : r.seq \in Nat \ {0} /\ r.op \in Ops
    /\ CenterTypes' => \A r \in offers' : r.seq \in Nat \ {0} /\ r.op \in Ops
BY DEF CenterTypes, OfferRows

\* The numbers the ends hold.
LEMMA ToldTypes ==
    ASSUME SiteTypes, CenterTypes
    PROVE  Told \subseteq Nat /\ csent \subseteq Nat \ {0} /\ peerAcked \in Told
<1>1. \A i \in DOMAIN toCenter : toCenter[i].acked \in Nat
  BY ElementTypes
<1>2. \A i \in DOMAIN handling : handling[i].acked \in Nat
  <2>1. handling \in Seq(CenterFrames)
    BY DEF CenterTypes
  <2>2. \A i \in DOMAIN handling : handling[i] \in CenterFrames
    BY <2>1, ElementOfSeq
  <2> QED
    BY <2>2 DEF CenterFrames
<1> QED
  BY <1>1, <1>2 DEF Told, SiteTypes, CenterTypes

LEMMA EvolvesKeeps ==
    ASSUME Control, CenterTypes', Evolves
    PROVE  /\ \A n \in Nat : Below(n) => Below(n)'
           /\ \A n \in Nat \ {0} : Below(n) /\ Got(n) => Got(n)'
           /\ \A n \in Nat \ {0}, o \in Ops :
                 /\ Below(n)
                 /\ \A r \in offers : r.seq = n => r.op = o
                 => \A r \in offers' : r.seq = n => r.op = o
           /\ \A t \in Pending(offers') : \/ \E r \in Pending(offers) : r.seq = t.seq
                                          \/ \A n \in Nat : Below(n) => n < t.seq
           /\ AckedIsGot => AckedIsGot'
<1>0. /\ \A r \in offers : r.seq \in Nat \ {0} /\ r.op \in Ops
      /\ \A r \in offers' : r.seq \in Nat \ {0} /\ r.op \in Ops
  BY RowTypes DEF Control
<1>1. ASSUME NEW n \in Nat, Below(n) PROVE Below(n)'
  BY <1>0, <1>1 DEF Below, Evolves
<1>2. ASSUME NEW n \in Nat, Below(n), NEW t \in offers', \A r \in offers : r.seq < t.seq
      PROVE  n < t.seq
  BY <1>0, <1>2 DEF Below
<1>3. ASSUME NEW n \in Nat \ {0}, Below(n), NEW t \in offers', t.seq = n
      PROVE  \E r \in offers : r.seq = n /\ r.op = t.op
  <2>1. CASE \A r \in offers : r.seq < t.seq
    BY <1>0, <1>2, <1>3, <2>1
  <2> QED
    BY <1>3, <2>1 DEF Evolves
<1>4. ASSUME NEW n \in Nat \ {0}, Below(n), Got(n) PROVE Got(n)'
  BY <1>0, <1>3, <1>4 DEF Got, Evolves
<1>5. ASSUME NEW t \in Pending(offers')
      PROVE  \/ \E r \in Pending(offers) : r.seq = t.seq
             \/ \A n \in Nat : Below(n) => n < t.seq
  <2>1. t \in offers' /\ ~t.acked
    BY <1>5 DEF Pending
  <2>2. CASE \A r \in offers : r.seq < t.seq
    BY <1>2, <2>1, <2>2
  <2>3. CASE \E r \in offers : r.seq = t.seq /\ ~r.acked
    BY <2>3 DEF Pending
  <2> QED
    BY <2>1, <2>2, <2>3 DEF Evolves
<1>6. ASSUME AckedIsGot, NEW t \in offers', t.acked
      PROVE  \/ inbox'[t.op] # "none"
             \/ t.seq \in expired'
             \/ \E s \in offers' : s.op = t.op /\ s.seq > t.seq
  <2>1. PICK r \in offers : /\ r.seq = t.seq /\ r.op = t.op
                            /\ r.acked \/ inbox'[r.op] # "none" \/ r.seq \in expired'
    BY <1>6 DEF Evolves
  <2>2. CASE \E s \in offers : s.op = r.op /\ s.seq > r.seq
    <3>1. PICK s \in offers : s.op = r.op /\ s.seq > r.seq
      BY <2>2
    <3>2. PICK u \in offers' : u.op = s.op /\ u.seq >= s.seq
      BY DEF Evolves
    <3>3. u.seq > t.seq
      BY <1>0, <2>1, <3>1, <3>2
    <3> QED
      BY <2>1, <3>1, <3>2, <3>3
  <2>3. CASE r.acked /\ ~\E s \in offers : s.op = r.op /\ s.seq > r.seq
    BY <1>0, <1>6, <2>1, <2>3 DEF AckedIsGot, Evolves
  <2> QED
    BY <2>1, <2>2, <2>3
<1>7. AckedIsGot => AckedIsGot'
  BY <1>6 DEF AckedIsGot
<1>8. ASSUME NEW n \in Nat \ {0}, NEW o \in Ops, Below(n), \A r \in offers : r.seq = n => r.op = o
      PROVE  \A r \in offers' : r.seq = n => r.op = o
  BY <1>3, <1>8
<1> QED
  BY <1>1, <1>4, <1>5, <1>7, <1>8

\* The offers on the wire and in hand, when nothing is sent or received.
LEMMA DeliveryKept ==
    ASSUME Control, Control', Delivery, Evolves, csent' \subseteq csent, Told' \subseteq Told \cup {0},
           OffersIn(toSite') = OffersIn(toSite), Ascending(toSite'),
           spc' # "down" => spc # "down",
           session' => /\ session
                       /\ \A t \in Pending(offers') : t.seq \notin csent' => t.seq \notin csent
    PROVE  Delivery'
<1>0. /\ Told \subseteq Nat /\ csent \subseteq Nat \ {0}
      /\ \A r \in offers : r.seq \in Nat \ {0}
      /\ \A r \in offers' : r.seq \in Nat \ {0}
  BY ToldTypes, RowTypes DEF Control
<1>1. CenterTypes'
  BY DEF Control
<1>2. \A f \in OffersIn(toSite) : f.seq \in Nat \ {0} /\ f.op \in Ops
  BY ElementTypes DEF OffersIn, Control
<1>3. \A n \in Nat : Below(n) => Below(n)'
  BY <1>1, EvolvesKeeps
<1>4. \A n \in Nat \ {0} : Below(n) /\ Got(n) => Got(n)'
  BY <1>1, EvolvesKeeps
<1>5. Below(0)'
  BY DEF Below
<1>6. Numbered'
  BY <1>0, <1>3, <1>5 DEF Delivery, Numbered
<1>7. WireOrder'
  <2>1. \A f \in OffersIn(toSite) : Below(f.seq) /\ \A r \in offers : r.seq = f.seq => r.op = f.op
    BY DEF Delivery, WireOrder
  <2>2. \A f \in OffersIn(toSite') : \A r \in offers' : r.seq = f.seq => r.op = f.op
    BY <1>1, <1>2, <2>1, EvolvesKeeps
  <2>3. \A n \in Nat : Below(n) => n = 0 \/ \E r \in offers' : n <= r.seq
    BY <1>3 DEF Below
  <2> QED
    BY <1>2, <2>1, <2>2, <2>3 DEF WireOrder, Below
<1>8. ToldIsGot'
  <2> SUFFICES ASSUME NEW n \in Told', NEW seq \in csent', seq <= n PROVE Got(seq)'
    BY DEF ToldIsGot
  <2>1. n \in Told /\ seq \in csent /\ seq \in Nat \ {0}
    BY <1>0
  <2>2. Got(seq) /\ Below(seq)
    BY <2>1 DEF Delivery, ToldIsGot, Numbered
  <2> QED
    BY <1>4, <2>1, <2>2
<1>9. SentArrives'
  <2> SUFFICES ASSUME spc' # "down", NEW seq \in csent'
               PROVE  Got(seq)' \/ \E f \in OffersIn(toSite') : f.seq = seq
    BY DEF SentArrives
  <2>1. seq \in csent /\ seq \in Nat \ {0}
    BY <1>0
  <2>2. Below(seq) /\ (Got(seq) \/ \E f \in OffersIn(toSite) : f.seq = seq)
    BY <2>1 DEF Delivery, SentArrives, Numbered
  <2> QED
    BY <1>4, <2>1, <2>2
<1>10. UnsentIsNewer'
  <2> SUFFICES ASSUME session', NEW t \in Pending(offers'), t.seq \notin csent'
               PROVE  /\ \A n \in Told' : n < t.seq
                      /\ \A f \in OffersIn(toSite') : f.seq < t.seq
    BY DEF UnsentIsNewer
  <2>1. t.seq \notin csent /\ session /\ t.seq \in Nat \ {0}
    BY <1>0 DEF Pending
  <2>2. CASE \E r \in Pending(offers) : r.seq = t.seq
    BY <1>0, <2>1, <2>2 DEF Delivery, UnsentIsNewer
  <2>3. CASE \A n \in Nat : Below(n) => n < t.seq
    BY <1>0, <1>2, <2>1, <2>3 DEF Delivery, Numbered, WireOrder
  <2> QED
    BY <1>1, <2>2, <2>3, EvolvesKeeps
<1>11. AckedIsGot'
  BY <1>1, EvolvesKeeps DEF Delivery
<1> QED
  BY <1>6, <1>7, <1>8, <1>9, <1>10, <1>11 DEF Delivery

LEMMA EvolvesStays ==
    ASSUME CenterTypes, UNCHANGED offers, expired \subseteq expired',
           \A o \in Ops : inbox[o] # "none" => inbox'[o] # "none"
    PROVE  Evolves
<1>1. \A r \in offers : r.seq \in Nat
  BY RowTypes
<1> QED
  BY <1>1 DEF Evolves

LEMMA EvolvesSettled ==
    ASSUME NEW seqs, Settles(offers, offers', seqs), UNCHANGED <<inbox, expired>>,
           \A r \in offers : r.seq \in seqs => inbox[r.op] # "none" \/ r.seq \in expired
    PROVE  Evolves
<1>1. \A t \in offers' : \E r \in offers :
          /\ r.seq = t.seq /\ r.op = t.op
          /\ t.acked <=> r.acked \/ r.seq \in seqs
  BY DEF Settles
<1>2. \A r \in offers : \E t \in offers' : t.op = r.op /\ t.seq >= r.seq
  BY DEF Settles
<1> QED
  BY <1>1, <1>2 DEF Evolves

\* A step that leaves the wires alone; one end may leave the connection.
LEMMA DeliveryQuiet ==
    ASSUME Control, Control', Delivery, Evolves, UNCHANGED wireVars, peerAcked' \in {peerAcked, 0},
           UNCHANGED sessionVars \/ EndSession, spc' # "down" => spc # "down"
    PROVE  Delivery'
<1>1. Told' \subseteq Told \cup {0} /\ csent' \subseteq csent
  <2>1. /\ toCenter' = toCenter /\ csent' \subseteq csent
        /\ handling' = handling \/ handling' = <<>>
    BY DEF wireVars, sessionVars, EndSession
  <2>2. {handling'[i].acked : i \in DOMAIN handling'} \subseteq {handling[i].acked : i \in DOMAIN handling}
    BY <2>1
  <2> QED
    BY <2>1, <2>2 DEF Told
<1>2. /\ session' => session /\ csent' = csent
      /\ toSite' = toSite /\ Ascending(toSite)
  BY DEF wireVars, sessionVars, EndSession, Delivery, WireOrder
<1> QED
  BY <1>1, <1>2, DeliveryKept

LEMMA SiteDelivery ==
    ASSUME Control, Control', Delivery, SiteWrite \/ Discover \/ ReportListed \/ ReportKnown,
           UNCHANGED centerVars
    PROVE  Delivery'
<1>1. UNCHANGED <<offers, expired, sessionVars, wireVars>> /\ CenterTypes
  BY DEF SiteWrite, Discover, ReportListed, ReportKnown, centerVars, Control
<1>2. \A o \in Ops : inbox[o] # "none" => inbox'[o] # "none"
  <2>1. CASE SiteWrite
    <3> DEFINE w == Head(todo)
    <3>1. w \in SiteWrites /\ w.op \in Ops
      BY <2>1, TailFacts, ElementTypes DEF SiteWrite, Control, SiteTypes
    <3>2. inbox' = inbox \/ (w.do = "advance" /\ inbox' = [inbox EXCEPT ![w.op] = w.arg])
      BY <2>1 DEF SiteWrite
    <3> HIDE DEF w
    <3>3. w.do = "advance" => w.arg # "none"
      BY <3>1 DEF SiteWrites
    <3> QED
      BY <3>1, <3>2, <3>3 DEF Control, SiteTypes
  <2>2. CASE Discover \/ ReportListed \/ ReportKnown
    BY <2>2 DEF Discover, ReportListed, ReportKnown
  <2> QED
    BY <2>1, <2>2
<1>3. Evolves
  BY <1>1, <1>2, EvolvesStays
<1>4. peerAcked' \in {peerAcked, 0} /\ (spc' # "down" => spc # "down")
  <2>1. CASE SiteWrite
    BY <2>1 DEF SiteWrite, SiteDisconnected
  <2>2. CASE Discover \/ ReportListed \/ ReportKnown
    BY <2>2 DEF Discover, ReportListed, ReportKnown
  <2> QED
    BY <2>1, <2>2
<1> QED
  BY <1>1, <1>3, <1>4, DeliveryQuiet

LEMMA SiteFlushDelivery ==
    ASSUME Control, Control', Delivery, SiteFlush, UNCHANGED centerVars
    PROVE  Delivery'
<1> DEFINE frame == [op |-> replies[ssent + 1].op, msg |-> replies[ssent + 1].msg,
                     acked |-> peerAcked]
<1>1. /\ UNCHANGED <<inbox, todo, peerAcked, toSite>> /\ spc = "flush" /\ todo = <<>>
      /\ toCenter' = Append(toCenter, frame)
      /\ UNCHANGED <<offers, expired, session, csent, handling>> /\ CenterTypes
  BY DEF SiteFlush, centerVars, sessionVars, Control
<1>2. ssent + 1 \in DOMAIN replies /\ peerAcked \in Nat
  BY <1>1 DEF Control, SiteTypes, Exchange
<1>3. frame \in CenterFrames /\ frame.acked = peerAcked
  BY <1>2, ElementTypes DEF Control, CenterFrames
<1> HIDE DEF frame
<1>4. /\ \A i \in DOMAIN toCenter : toCenter'[i] = toCenter[i]
      /\ \A i \in DOMAIN toCenter' : i \in DOMAIN toCenter \/ toCenter'[i] = frame
  BY <1>1, <1>3, AppendFacts DEF Control, SiteTypes
<1>5. Told' \subseteq Told
  <2>1. ASSUME NEW n \in {toCenter'[i].acked : i \in DOMAIN toCenter'} PROVE n \in Told
    <3>1. PICK i \in DOMAIN toCenter' : n = toCenter'[i].acked
      BY <2>1
    <3>2. CASE i \in DOMAIN toCenter
      BY <1>4, <3>1, <3>2 DEF Told
    <3>3. CASE toCenter'[i] = frame
      BY <1>3, <3>1, <3>3 DEF Told
    <3> QED
      BY <1>4, <3>2, <3>3
  <2> QED
    BY <1>1, <2>1 DEF Told
<1>6. Evolves
  BY <1>1, EvolvesStays
<1>7. Ascending(toSite)
  BY DEF Delivery, WireOrder
<1> QED
  BY <1>1, <1>5, <1>6, <1>7, DeliveryKept

LEMMA ReceiveAckDelivery ==
    ASSUME Control, Control', Delivery, ReceiveAck, UNCHANGED centerVars
    PROVE  Delivery'
<1>1. /\ spc = "loop" /\ toSite # <<>> /\ Head(toSite).kind = "ack" /\ toSite' = Tail(toSite)
      /\ UNCHANGED <<inbox, peerAcked, toCenter, offers, expired, session, csent, handling>>
      /\ CenterTypes
  BY DEF ReceiveAck, centerVars, sessionVars, Control
<1>2. toSite \in Seq(SiteFrames) /\ Ascending(toSite)
  BY DEF Control, SiteTypes, Delivery, WireOrder
<1>3. Ascending(toSite') /\ OffersIn(toSite) = OffersIn(toSite')
  BY <1>1, <1>2, OffersInTail
<1>4. Told' = Told
  BY <1>1 DEF Told
<1>5. Evolves
  BY <1>1, EvolvesStays
<1> QED
  BY <1>1, <1>3, <1>4, <1>5, DeliveryKept

\* ReceiveOffer: the offer enters the inbox, and what the site acknowledges
\* from now on covers it.
LEMMA ReceiveOfferDelivery ==
    ASSUME Control, Control', Delivery, ReceiveOffer, UNCHANGED centerVars
    PROVE  Delivery'
<1> DEFINE head == Head(toSite)
<1>1. /\ spc = "loop" /\ toSite # <<>> /\ head.kind = "offer" /\ toSite' = Tail(toSite)
      /\ inbox' = [inbox EXCEPT ![head.op] = IF inbox[head.op] = "none" THEN "Received"
                                             ELSE inbox[head.op]]
      /\ peerAcked' = Max({peerAcked, head.seq})
      /\ UNCHANGED <<toCenter, offers, expired, session, csent, handling>>
  BY DEF ReceiveOffer, centerVars, sessionVars
<1>2. toSite \in Seq(SiteFrames) /\ Ascending(toSite) /\ WireOrder
  BY DEF Control, SiteTypes, Delivery, WireOrder
<1>3. /\ Ascending(toSite') /\ OffersIn(toSite) = OffersIn(toSite') \cup {head}
      /\ \A f \in OffersIn(toSite') : head.seq < f.seq
  BY <1>1, <1>2, OffersInTail
<1>4. head.op \in Ops /\ head.seq \in Nat \ {0}
  BY <1>1, SiteHead, ElementTypes DEF Control
<1> HIDE DEF head
<1>5. /\ Below(head.seq) /\ \A r \in offers : r.seq = head.seq => r.op = head.op
      /\ \A f \in OffersIn(toSite') : Below(f.seq) /\ \A r \in offers : r.seq = f.seq => r.op = f.op
  BY <1>2, <1>3 DEF WireOrder
<1>6. \A o \in Ops : (inbox[o] # "none" \/ o = head.op) => inbox'[o] # "none"
  BY <1>1, <1>4 DEF Control, SiteTypes
<1>7. peerAcked \in Nat /\ peerAcked' \in {peerAcked, head.seq}
      /\ peerAcked <= peerAcked' /\ head.seq <= peerAcked'
  <2>1. peerAcked \in Nat
    BY DEF Control, SiteTypes
  <2> QED
    BY <1>1, <1>4, <2>1, MaxOfTwo
<1>8. /\ Told \subseteq Nat /\ csent \subseteq Nat \ {0} /\ peerAcked \in Told
      /\ Told' \subseteq Told \cup {peerAcked'}
      /\ \A r \in offers : r.seq \in Nat \ {0} /\ r.op \in Ops
  <2>1. Told \subseteq Nat /\ csent \subseteq Nat \ {0} /\ peerAcked \in Told
    BY ToldTypes DEF Control
  <2>2. Told' \subseteq Told \cup {peerAcked'}
    BY <1>1 DEF Told
  <2> QED
    BY <2>1, <2>2, RowTypes DEF Control
<1>9. \A n : (Below(n) => Below(n)') /\ (Got(n) => Got(n)')
  BY <1>1, <1>6, <1>8 DEF Below, Got
<1>10. \A r \in offers' : r.seq = head.seq => inbox'[r.op] # "none"
  BY <1>1, <1>5, <1>6, <1>8 DEF Got
<1>11. ASSUME NEW seq \in csent
       PROVE  Got(seq)' \/ \E f \in OffersIn(toSite') : f.seq = seq
  <2>1. Got(seq) \/ \E f \in OffersIn(toSite) : f.seq = seq
    BY <1>1 DEF Delivery, SentArrives
  <2>2. CASE seq = head.seq
    BY <1>10, <2>2 DEF Got
  <2> QED
    BY <1>3, <1>9, <2>1, <2>2
<1>12. Numbered'
  <2>1. \A n \in csent \cup Told : Below(n)
    BY DEF Delivery, Numbered
  <2>2. \A n \in csent' \cup Told' : n \in csent \cup Told \/ n = head.seq
    BY <1>1, <1>7, <1>8
  <2>3. \A n \in csent' \cup Told' : Below(n)
    BY <1>5, <2>1, <2>2
  <2> QED
    BY <1>9, <2>3 DEF Numbered
<1>13. WireOrder'
  BY <1>1, <1>3, <1>5 DEF WireOrder, Below
<1>14. ToldIsGot'
  <2> SUFFICES ASSUME NEW n \in Told', NEW seq \in csent', seq <= n PROVE Got(seq)'
    BY DEF ToldIsGot
  <2>1. seq \in csent /\ seq \in Nat \ {0}
    BY <1>1, <1>8
  <2>2. CASE n \in Told
    BY <1>9, <2>1, <2>2 DEF Delivery, ToldIsGot
  <2>3. CASE n = head.seq
    <3>1. ~\E f \in OffersIn(toSite') : f.seq = seq
      <4>1. \A f \in OffersIn(toSite') : f.seq \in Nat
        BY <1>2, <1>3, ElementTypes DEF OffersIn, Control
      <4> QED
        BY <1>3, <1>4, <2>1, <2>3, <4>1
    <3> QED
      BY <1>11, <2>1, <3>1
  <2> QED
    BY <1>7, <1>8, <2>2, <2>3
<1>15. SentArrives'
  BY <1>1, <1>11 DEF SentArrives
<1>16. UnsentIsNewer'
  <2>1. UnsentIsNewer
    BY DEF Delivery
  <2> QED
    BY <1>1, <1>3, <1>7, <1>8, <2>1 DEF UnsentIsNewer
<1>17. AckedIsGot'
  BY <1>1, <1>6, <1>8 DEF Delivery, AckedIsGot
<1> QED
  BY <1>12, <1>13, <1>14, <1>15, <1>16, <1>17 DEF Delivery

LEMMA ConnectDelivery ==
    ASSUME Control, Control', Delivery, Connect
    PROVE  Delivery'
<1>1. /\ toSite' = <<>> /\ toCenter' = <<>> /\ spc = "down" /\ ~session
      /\ UNCHANGED <<inbox, offers, expired, peerAcked, csent, handling>>
  BY DEF Connect
<1>2. peerAcked = 0 /\ csent = {} /\ handling = <<>>
  BY <1>1 DEF Control, Exchange
<1>3. Told' = {0}
  BY <1>1, <1>2 DEF Told
<1>4. OffersIn(toSite') = {} /\ Ascending(toSite')
  BY <1>1, NoOffersIn
<1>5. \A r \in offers' : r.seq \in Nat \ {0}
  BY RowTypes DEF Control
<1>6. Numbered' /\ ToldIsGot' /\ SentArrives'
  BY <1>1, <1>2, <1>3 DEF Numbered, Below, ToldIsGot, SentArrives
<1>7. WireOrder' /\ UnsentIsNewer'
  BY <1>3, <1>4, <1>5 DEF WireOrder, UnsentIsNewer, Pending
<1>8. AckedIsGot'
  BY <1>1 DEF Delivery, AckedIsGot
<1> QED
  BY <1>6, <1>7, <1>8 DEF Delivery

\* CenterFlush: an expired offer is retired, or the next offer goes out.
LEMMA CenterFlushDelivery ==
    ASSUME Control, Control', Offers, Delivery, CenterFlush, UNCHANGED siteVars
    PROVE  Delivery'
<1>1. /\ session /\ handling = <<>>
      /\ UNCHANGED <<expired, session, handling, toCenter, inbox, peerAcked, spc>>
  BY FlushFacts DEF siteVars
<1>2. PICK offer \in Pending(offers) :
         /\ offer.seq \notin csent
         /\ \A r \in Pending(offers) : r.seq \notin csent => offer.seq <= r.seq
         /\ \/ /\ offer.seq \in expired
               /\ offers' = Acknowledge(offers, offer.seq)
               /\ UNCHANGED <<csent, toSite>>
            \/ /\ toSite' = Append(toSite, [kind |-> "offer", seq |-> offer.seq,
                                            op |-> offer.op])
               /\ csent' = csent \cup {offer.seq}
               /\ UNCHANGED offers
  BY FlushFacts
<1>3. /\ offer \in offers /\ ~offer.acked /\ offer.seq \in Nat \ {0} /\ offer.op \in Ops
      /\ \A r \in offers : r.seq \in Nat \ {0} /\ r.op \in Ops
  BY RowTypes DEF Pending, Control
<1>4. CASE /\ offer.seq \in expired
           /\ offers' = Acknowledge(offers, offer.seq)
           /\ UNCHANGED <<csent, toSite>>
  <2>1. Settles(offers, offers', {offer.seq})
    BY <1>3, <1>4, AcknowledgeSettles DEF Control, CenterTypes, Offers, RowsAgree, Seqs
  <2>2. Evolves
    BY <1>1, <1>4, <2>1, EvolvesSettled
  <2> QED
    BY <1>1, <1>4, <2>2, DeliveryQuiet DEF wireVars, sessionVars
<1>5. CASE /\ toSite' = Append(toSite, [kind |-> "offer", seq |-> offer.seq, op |-> offer.op])
           /\ csent' = csent \cup {offer.seq}
           /\ UNCHANGED offers
  <2> DEFINE frame == [kind |-> "offer", seq |-> offer.seq, op |-> offer.op]
  <2>1. frame \in SiteFrames /\ frame.kind = "offer" /\ frame.seq = offer.seq /\ frame.op = offer.op
    BY <1>3 DEF SiteFrames
  <2>2. toSite' = Append(toSite, frame)
    BY <1>5
  <2> HIDE DEF frame
  <2>3. (\A n \in Told : n < offer.seq) /\ \A f \in OffersIn(toSite) : f.seq < offer.seq
    BY <1>1, <1>2 DEF Delivery, UnsentIsNewer
  <2>4. OffersIn(toSite') = OffersIn(toSite) \cup {frame} /\ Ascending(toSite')
    <3>1. toSite \in Seq(SiteFrames) /\ Ascending(toSite)
      BY DEF Control, SiteTypes, Delivery, WireOrder
    <3> QED
      BY <2>1, <2>2, <2>3, <3>1, OffersInAppend
  <2>5. Told' = Told
    BY <1>1 DEF Told
  <2>6. \A n : (Below(n) <=> Below(n)') /\ (Got(n) <=> Got(n)')
    BY <1>1, <1>5 DEF Below, Got
  <2>7. Below(offer.seq) /\ UniqueSeqs(offers)
    BY <1>3 DEF Below, Offers, RowsAgree
  <2>8. Told \subseteq Nat /\ csent \subseteq Nat \ {0}
    BY ToldTypes DEF Control
  <2>9. Numbered'
    <3>1. \A n \in csent' \cup Told' : Below(n)
      BY <1>5, <2>5, <2>7 DEF Delivery, Numbered
    <3> QED
      BY <2>6, <3>1 DEF Numbered
  <2>10. WireOrder'
    <3>1. \A f \in OffersIn(toSite') : Below(f.seq) /\ \A r \in offers : r.seq = f.seq => r.op = f.op
      BY <1>3, <2>1, <2>4, <2>7 DEF Delivery, WireOrder, UniqueSeqs
    <3> QED
      BY <1>5, <2>4, <3>1 DEF WireOrder, Below
  <2>11. ToldIsGot'
    <3> SUFFICES ASSUME NEW n \in Told', NEW seq \in csent', seq <= n PROVE Got(seq)'
      BY DEF ToldIsGot
    <3>1. seq \in csent /\ n \in Told
      BY <1>3, <1>5, <2>3, <2>5, <2>8
    <3> QED
      BY <2>6, <3>1 DEF Delivery, ToldIsGot
  <2>12. SentArrives'
    <3> SUFFICES ASSUME spc' # "down", NEW seq \in csent'
                 PROVE  Got(seq)' \/ \E f \in OffersIn(toSite') : f.seq = seq
      BY DEF SentArrives
    <3>1. CASE seq = offer.seq
      BY <2>1, <2>4, <3>1
    <3>2. CASE seq \in csent
      BY <1>1, <2>4, <2>6, <3>2 DEF Delivery, SentArrives
    <3> QED
      BY <1>5, <3>1, <3>2
  <2>13. UnsentIsNewer'
    <3> SUFFICES ASSUME NEW r \in Pending(offers'), r.seq \notin csent'
                 PROVE  /\ \A n \in Told' : n < r.seq
                        /\ \A f \in OffersIn(toSite') : f.seq < r.seq
      BY DEF UnsentIsNewer
    <3>1. r \in Pending(offers) /\ r.seq \notin csent /\ r.seq # offer.seq /\ r.seq \in Nat
      BY <1>3, <1>5 DEF Pending
    <3>2. offer.seq < r.seq
      BY <1>2, <1>3, <3>1
    <3>3. (\A n \in Told : n < r.seq) /\ \A f \in OffersIn(toSite) : f.seq < r.seq
      BY <1>1, <3>1 DEF Delivery, UnsentIsNewer
    <3> QED
      BY <2>1, <2>4, <2>5, <3>2, <3>3
  <2>14. AckedIsGot'
    BY <1>1, <1>5 DEF Delivery, AckedIsGot
  <2> QED
    BY <2>9, <2>10, <2>11, <2>12, <2>13, <2>14 DEF Delivery
<1> QED
  BY <1>2, <1>4, <1>5

LEMMA ScoreDelivery ==
    ASSUME Control, Control', Delivery, ScoreReply, UNCHANGED siteVars
    PROVE  Delivery'
<1>1. /\ handling' = <<toCenter[1]>> /\ 1 \in DOMAIN toCenter
      /\ \A i \in DOMAIN toCenter' : i + 1 \in DOMAIN toCenter /\ toCenter'[i] = toCenter[i + 1]
      /\ UNCHANGED <<offers, expired, session, csent, toSite, inbox, peerAcked, spc>>
  BY ScoreFacts DEF siteVars
<1>2. Told' \subseteq Told
  <2>1. \A i \in DOMAIN handling' : handling'[i] = toCenter[1]
    BY <1>1
  <2> QED
    BY <1>1, <2>1 DEF Told
<1>3. Evolves
  BY <1>1, EvolvesStays DEF Control
<1>4. Ascending(toSite)
  BY DEF Delivery, WireOrder
<1> QED
  BY <1>1, <1>2, <1>3, <1>4, DeliveryKept

\* AckReply: the offers it settles have been received.
LEMMA AckDelivery ==
    ASSUME Control, Control', Offers, Delivery, AckReply, UNCHANGED siteVars
    PROVE  Delivery'
<1>1. /\ session /\ 1 \in DOMAIN handling /\ handling[1] \in CenterFrames
      /\ UNCHANGED <<expired, toCenter, inbox, peerAcked, spc>>
  BY AckFacts DEF siteVars
<1>2. PICK settled \in SUBSET Covered(handling[1]) :
         /\ Settles(offers, offers', settled)
         /\ \/ EndSession /\ UNCHANGED toSite
            \/ /\ settled = Covered(handling[1])
               /\ csent' = csent \ Covered(handling[1])
               /\ toSite' = Append(toSite, [kind |-> "ack"])
               /\ handling' = <<>> /\ UNCHANGED session
  BY AckFacts
<1>3. \A seq \in Covered(handling[1]) : seq \in csent /\ Got(seq)
  BY <1>1 DEF Covered, Told, Delivery, ToldIsGot
<1>4. Evolves
  BY <1>1, <1>2, <1>3, EvolvesSettled DEF Got
<1>5. CASE EndSession /\ UNCHANGED toSite
  BY <1>1, <1>4, <1>5, DeliveryQuiet DEF wireVars
<1>6. CASE /\ settled = Covered(handling[1])
           /\ csent' = csent \ Covered(handling[1])
           /\ toSite' = Append(toSite, [kind |-> "ack"])
           /\ handling' = <<>> /\ UNCHANGED session
  <2> DEFINE frame == [kind |-> "ack"]
  <2>1. frame \in SiteFrames /\ frame.kind = "ack" /\ toSite' = Append(toSite, frame)
    BY <1>6 DEF SiteFrames
  <2> HIDE DEF frame
  <2>2. toSite \in Seq(SiteFrames) /\ Ascending(toSite)
    BY DEF Control, SiteTypes, Delivery, WireOrder
  <2>3. OffersIn(toSite') = OffersIn(toSite) /\ Ascending(toSite')
    BY <2>1, <2>2, OffersInAppend
  <2>4. Told' \subseteq Told
    BY <1>1, <1>6 DEF Told
  <2>5. \A t \in Pending(offers') : t.seq \notin csent' => t.seq \notin csent
    BY <1>2, <1>6, SettledPending
  <2> QED
    BY <1>1, <1>4, <1>6, <2>3, <2>4, <2>5, DeliveryKept
<1> QED
  BY <1>2, <1>5, <1>6

\* Without duplicates nothing is settled.
LEMMA NoDuplicates ==
    ASSUME Control, Offers, SettleDuplicates
    PROVE  UNCHANGED offers
<1> DEFINE seqs == Seqs(PendingOf(dop)) \ {OfferOf(dop).seq}
<1>1. offers' = AcknowledgeAll(offers, seqs)
  BY DEF SettleDuplicates
<1>2. ASSUME NEW r \in PendingOf(dop) PROVE r = OfferOf(dop)
  <2>1. Offered(dop) /\ PendingOf(dop) # {}
    BY <1>2 DEF Offered, PendingOf, Pending, RowsOf
  <2>2. OfferOf(dop) \in PendingOf(dop)
    BY <2>1, OfferOfIsIn
  <2> HIDE DEF OfferOf
  <2> QED
    BY <1>2, <2>2 DEF PendingOf, RowsOf, Offers, RowsAgree
<1>3. seqs = {}
  BY <1>2 DEF Seqs
<1> QED
  BY <1>1, <1>3, AcknowledgeNone

LEMMA DispatchDelivery ==
    ASSUME Control, Control', Offers, Delivery, DispatchStep, UNCHANGED <<siteVars, wireVars>>
    PROVE  Delivery'
<1>1. UNCHANGED <<inbox, peerAcked, spc, expired, sessionVars>>
  BY DEF DispatchStep, ScanState, Resolve, RetireStale, CreateTracking, EnqueueOffer,
         SettleDuplicates, siteVars
<1>2. Evolves
  <2>1. CASE UNCHANGED offers
    BY <1>1, <2>1, EvolvesStays DEF Control
  <2>2. CASE RetireStale
    <3>1. CASE Min(dtodo) \in Seqs(offers)
      <4>1. offers' = Acknowledge(offers, Min(dtodo)) /\ dpc = "retire"
        BY <2>2, <3>1 DEF RetireStale
      <4>2. Settles(offers, offers', {Min(dtodo)})
        BY <3>1, <4>1, AcknowledgeSettles DEF Control, CenterTypes, Offers, RowsAgree
      <4>3. Min(dtodo) \in expired
        <5>1. dtodo # {} /\ dtodo \subseteq expired /\ dtodo \in SUBSET Nat
          BY <4>1 DEF Offers, DispatchKnows
        <5> QED
          BY <5>1, MinProperties
      <4> QED
        BY <1>1, <4>2, <4>3, EvolvesSettled
    <3> QED
      BY <2>1, <2>2, <3>1 DEF RetireStale
  <2>3. CASE EnqueueOffer
    <3>1. PICK r \in OfferRows : /\ offers' = offers \cup {r} /\ ~r.acked
                                 /\ \A s \in offers : s.seq < r.seq
      BY <2>3, EnqueueFacts
    <3>2. \A s \in offers : s.seq \in Nat
      BY RowTypes DEF Control
    <3> QED
      BY <1>1, <3>1, <3>2 DEF Evolves
  <2>4. CASE SettleDuplicates
    BY <2>1, <2>4, NoDuplicates
  <2> QED
    BY <2>1, <2>2, <2>3, <2>4 DEF DispatchStep, ScanState, Resolve, CreateTracking
<1> QED
  BY <1>1, <1>2, DeliveryQuiet

\* Every step keeps Delivery.
LEMMA NextDelivery ==
    ASSUME Control, Control', Offers, Delivery, Next
    PROVE  Delivery'
<1>0. CenterTypes
  BY DEF Control
<1>1. ASSUME UNCHANGED <<inbox, offers, wireVars>>, expired \subseteq expired',
             peerAcked' \in {peerAcked, 0}, UNCHANGED sessionVars \/ EndSession,
             spc' # "down" => spc # "down"
      PROVE  Delivery'
  BY <1>0, <1>1, EvolvesStays, DeliveryQuiet
<1>2. ASSUME NEW t \in Targets, Request(t) PROVE Delivery'
  BY <1>1, <1>2 DEF Request, Dispatch, siteVars
<1>3. ASSUME NEW offer \in offers, Expire(offer) PROVE Delivery'
  BY <1>1, <1>3 DEF Expire, siteVars
<1>4. ASSUME NEW o \in Ops, Executes(o) PROVE Delivery'
  BY <1>1, <1>4 DEF Executes, SiteExecute, centerVars
<1>5. CASE Site
  BY <1>5, SiteDelivery, SiteFlushDelivery, ReceiveOfferDelivery, ReceiveAckDelivery
     DEF Site, SiteStep
<1>6. CASE Dispatching
  BY <1>6, DispatchDelivery DEF Dispatching
<1>7. CASE Session
  BY <1>7, CenterFlushDelivery, ScoreDelivery, AckDelivery DEF Session, SessionStep
<1>8. CASE CenterLosesConnection \/ DispatchFails \/ CenterCrash
  BY <1>1, <1>8 DEF CenterLosesConnection, DispatchFails, CenterCrash, siteVars
<1>9. CASE SiteLosesConnection \/ SiteCrash
  BY <1>1, <1>9 DEF SiteLosesConnection, SiteCrash, SiteDisconnected, centerVars
<1>10. CASE Close
  BY <1>1, <1>10 DEF Close, SiteDisconnected, siteVars
<1> QED
  BY <1>2, <1>3, <1>4, <1>5, <1>6, <1>7, <1>8, <1>9, <1>10, ConnectDelivery DEF Next

-----------------------------------------------------------------------------
(* Scan.                                                                    *)

\* What happens beside the dispatch: undecided records stay or move on in the
\* direction of the scan, or are decided; no row changes its target.
MovesOn ==
    /\ \A o \in Ops : Undecided(o)' =>
          /\ Undecided(o)
          /\ \A i \in 1 .. 3 : tracking[o] = ScanStates[i] =>
                \E k \in i .. 3 : tracking'[o] = ScanStates[k]
    /\ \A t \in offers' : \E r \in offers : r.op = t.op /\ r.msg = t.msg

LEMMA TargetsStayDifferent ==
    ASSUME CenterTypes, CenterTypes', TargetsDiffer, MovesOn
    PROVE  TargetsDiffer'
<1> SUFFICES ASSUME NEW t \in offers', NEW u \in offers', t.op # u.op,
                    Undecided(t.op)', Undecided(u.op)'
             PROVE  t.msg # u.msg
  BY DEF TargetsDiffer, Undecided
<1>1. t.op \in Ops /\ u.op \in Ops
  BY RowTypes
<1>2. Undecided(t.op) /\ Undecided(u.op)
  BY <1>1 DEF MovesOn
<1>3. (\E r \in offers : r.op = t.op /\ r.msg = t.msg) /\ \E s \in offers : s.op = u.op /\ s.msg = u.msg
  BY DEF MovesOn
<1> QED
  BY <1>2, <1>3 DEF TargetsDiffer

LEMMA ScanBeside ==
    ASSUME CenterTypes, CenterTypes', Scan, MovesOn, UNCHANGED dispatchVars
    PROVE  Scan'
<1>0. UNCHANGED <<dpc, dtarget, dscan, candidates, dop>> /\ dscan \in 1 .. 3
  BY DEF dispatchVars, CenterTypes
<1>1. TargetsDiffer'
  BY TargetsStayDifferent DEF Scan
<1>2. ScanCovers'
  <2>1. ASSUME dpc = "scan", NEW o \in Ops, Undecided(o)', o \notin candidates
        PROVE  \E k \in dscan .. 3 : tracking'[o] = ScanStates[k]
    <3>1. PICK i \in dscan .. 3 : tracking[o] = ScanStates[i]
      BY <2>1 DEF MovesOn, Scan, ScanCovers
    <3>2. PICK k \in i .. 3 : tracking'[o] = ScanStates[k]
      BY <1>0, <2>1, <3>1 DEF MovesOn
    <3>3. k \in dscan .. 3
      BY <1>0, <3>1, <3>2
    <3> QED
      BY <3>2, <3>3
  <2>2. \A o \in Ops : Undecided(o)' => Undecided(o)
    BY DEF MovesOn
  <2> QED
    BY <1>0, <2>1, <2>2 DEF Scan, ScanCovers, Undecided
<1>3. TargetIsFree'
  <2>1. \A o \in Ops : Undecided(o)' => Undecided(o)
    BY DEF MovesOn
  <2>2. \A t \in offers' : t.op \in Ops /\ \E r \in offers : r.op = t.op /\ r.msg = t.msg
    BY RowTypes DEF MovesOn
  <2>3. ASSUME dpc = "unknown", NEW t \in offers', Undecided(t.op)' PROVE t.msg # dtarget
    BY <2>1, <2>2, <2>3 DEF Scan, TargetIsFree
  <2>4. ASSUME dpc = "enqueue", Undecided(dop), NEW t \in offers', t.op # dop, Undecided(t.op)'
        PROVE  t.msg # dtarget
    BY <2>1, <2>2, <2>4 DEF Scan, TargetIsFree
  <2>5. dpc = "enqueue" /\ Undecided(dop)' => Undecided(dop)
    BY <1>0, <2>1 DEF CenterTypes, Undecided
  <2> QED
    BY <1>0, <2>3, <2>4, <2>5 DEF TargetIsFree, Undecided
<1> QED
  BY <1>1, <1>2, <1>3 DEF Scan

LEMMA MovesNothing ==
    ASSUME UNCHANGED tracking, \A t \in offers' : \E r \in offers : r.op = t.op /\ r.msg = t.msg
    PROVE  MovesOn
<1>1. \A i \in 1 .. 3 : i \in i .. 3
  OBVIOUS
<1> QED
  BY <1>1 DEF MovesOn, Undecided

\* The dispatch is over, or begins.
LEMMA ScanOver ==
    ASSUME CenterTypes, CenterTypes', Scan, UNCHANGED <<tracking, offers>>, EndDispatch
    PROVE  Scan'
<1>1. MovesOn
  BY MovesNothing
<1>2. TargetsDiffer'
  BY <1>1, TargetsStayDifferent DEF Scan
<1> QED
  BY <1>2 DEF Scan, ScanCovers, TargetIsFree, EndDispatch

LEMMA ScanValues ==
    ScanStates[1] = "Queued" /\ ScanStates[2] = "Running" /\ ScanStates[3] = "WaitingRemote"
BY DEF ScanStates

LEMMA RequestScan ==
    ASSUME CenterTypes, CenterTypes', Scan, NEW t, Dispatch(t)
    PROVE  Scan'
<1>1. /\ dpc = "idle" /\ dpc' = "scan" /\ UNCHANGED <<tracking, offers, dscan, candidates>>
      /\ dscan = 1
  BY DEF Dispatch, Scan, ScanCovers
<1>2. TargetsDiffer'
  BY <1>1, MovesNothing, TargetsStayDifferent DEF Scan
<1>3. \A o \in Ops : Undecided(o)' => \E i \in 1 .. 3 : tracking'[o] = ScanStates[i]
  BY ScanValues DEF Undecided, PersistedStates
<1> QED
  BY <1>1, <1>2, <1>3 DEF Scan, ScanCovers, TargetIsFree, Undecided

LEMMA ScanStateScan ==
    ASSUME CenterTypes, CenterTypes', Scan, ScanState
    PROVE  Scan'
<1>1. /\ dpc = "scan" /\ candidates' = candidates \cup {o \in Ops : tracking[o] = ScanStates[dscan]}
      /\ UNCHANGED <<tracking, offers, dtarget, dop>> /\ dscan \in 1 .. 3
      /\ \/ dscan = 3 /\ dpc' = "resolve"
         \/ dscan # 3 /\ dscan' = dscan + 1 /\ dpc' = "scan"
  BY ScanStateTypes DEF ScanState, CenterTypes
<1>2. TargetsDiffer'
  BY <1>1, MovesNothing, TargetsStayDifferent DEF Scan
<1>3. ASSUME NEW o \in Ops, Undecided(o), o \notin candidates'
      PROVE  dscan # 3 /\ \E i \in dscan + 1 .. 3 : tracking[o] = ScanStates[i]
  <2>1. PICK i \in dscan .. 3 : tracking[o] = ScanStates[i]
    BY <1>1, <1>3 DEF Scan, ScanCovers
  <2>2. i # dscan
    BY <1>1, <1>3, <2>1
  <2> QED
    BY <1>1, <2>1, <2>2
<1> QED
  BY <1>1, <1>2, <1>3 DEF Scan, ScanCovers, TargetIsFree, Undecided

\* Resolve: when nobody owns the request, no candidate is about its target;
\* a stranded record is offered again only when it is alone.
LEMMA ResolveScan ==
    ASSUME Control, CenterTypes', Offers, Scan, Resolve
    PROVE  Scan'
<1>1. dpc = "resolve" /\ UNCHANGED <<tracking, offers, dtarget, dscan, candidates>> /\ CenterTypes
  BY ResolveFacts DEF Control
<1>2. TargetsDiffer'
  BY <1>1, MovesNothing, TargetsStayDifferent DEF Scan
<1>3. \A o \in Ops : Undecided(o) => o \in candidates
  BY <1>1 DEF Scan, ScanCovers
<1>4. dpc' \in {"unknown", "enqueue", "retire", "settle"}
  BY ResolveFacts
<1>5. ScanCovers'
  BY <1>1, <1>3, <1>4 DEF ScanCovers, Undecided
<1>6. ASSUME dpc' = "unknown", NEW r \in offers, Undecided(r.op) PROVE r.msg # dtarget
  <2> DEFINE o == r.op
  <2>1. Owners = {} /\ o \in candidates /\ Offered(o)
    BY <1>1, <1>3, <1>6, ResolveFacts, RowTypes DEF Offered, RowsOf
  <2>2. OfferOf(o).msg # dtarget
    BY <2>1 DEF Owners, CandidateVerdict, Offered
  <2>3. OfferOf(o) \in RowsOf(offers, o)
    BY <2>1, OfferOfIsIn
  <2> HIDE DEF OfferOf
  <2> QED
    BY <2>2, <2>3 DEF RowsOf, Offers, RowsAgree
<1>7. ASSUME dpc' = "enqueue", NEW r \in offers, r.op # dop', Undecided(r.op) PROVE FALSE
  <2>1. dop' \in Owners /\ dop' \in candidates /\ CandidateVerdict(dop') = "NeverEnqueued"
    BY <1>7, ResolveFacts
  <2>2. Cardinality(candidates) = 1
    BY <2>1 DEF Owners
  <2>3. IsFiniteSet(candidates)
    <3>1. candidates \in SUBSET Ops /\ IsFiniteSet(Ops)
      BY <1>1, OpsAssumption DEF CenterTypes
    <3> QED
      BY <3>1, FS_Subset
  <2>4. PICK x : candidates = {x}
    BY <2>2, <2>3, FS_Singleton
  <2>5. r.op \in candidates
    BY <1>1, <1>3, <1>7, RowTypes
  <2> QED
    BY <1>7, <2>1, <2>4, <2>5
<1>8. TargetIsFree'
  BY <1>1, <1>6, <1>7 DEF TargetIsFree, Undecided
<1> QED
  BY <1>2, <1>5, <1>8 DEF Scan

LEMMA RetireScan ==
    ASSUME Control, CenterTypes', Offers, Scan, RetireStale
    PROVE  Scan'
<1>0. CenterTypes
  BY DEF Control
<1>1. CASE Min(dtodo) \notin Seqs(offers)
  BY <1>0, <1>1, ScanOver DEF RetireStale
<1>2. CASE Min(dtodo) \in Seqs(offers)
  <2>1. /\ offers' = Acknowledge(offers, Min(dtodo)) /\ dpc = "retire"
        /\ dpc' \in {"enqueue", "retire"} /\ UNCHANGED <<tracking, dtarget, dop>>
    BY <1>2 DEF RetireStale
  <2>2. Settles(offers, offers', {Min(dtodo)})
    BY <1>2, <2>1, AcknowledgeSettles DEF Control, CenterTypes, Offers, RowsAgree
  <2>3. \A t \in offers' : \E r \in offers : r.op = t.op /\ r.msg = t.msg
    BY <2>2 DEF Settles
  <2>4. TargetsDiffer'
    BY <1>0, <2>1, <2>3, MovesNothing, TargetsStayDifferent DEF Scan
  <2>5. PICK own \in offers : own.op = dop /\ own.msg = dtarget
    BY <2>1 DEF Offers, DispatchKnows, RowsOf
  <2>6. ASSUME Undecided(dop), NEW t \in offers', t.op # dop, Undecided(t.op) PROVE t.msg # dtarget
    BY <2>3, <2>5, <2>6 DEF Scan, TargetsDiffer
  <2> QED
    BY <2>1, <2>4, <2>6 DEF Scan, ScanCovers, TargetIsFree, Undecided
<1> QED
  BY <1>1, <1>2

LEMMA CreateScan ==
    ASSUME Control, CenterTypes', Scan, CreateTracking
    PROVE  Scan'
<1>0. CenterTypes /\ dpc = "unknown" /\ UNCHANGED offers
  BY CreateFacts DEF Control
<1>1. CASE EndDispatch /\ UNCHANGED tracking
  BY <1>0, <1>1, ScanOver
<1>2. CASE /\ dop' \in Ops /\ ~Recorded(dop') /\ dpc' = "enqueue"
           /\ tracking' = [tracking EXCEPT ![dop'] = "Queued"]
           /\ UNCHANGED <<dtarget, dscan, candidates, dtodo>>
  <2>1. \A r \in offers : r.op \in Ops /\ r.op # dop'
    BY <1>0, <1>2, RowTypes DEF Control, Named
  <2>2. \A r \in offers : tracking'[r.op] = tracking[r.op]
    BY <1>0, <1>2, <2>1 DEF CenterTypes
  <2>3. TargetsDiffer'
    BY <1>0, <2>2 DEF Scan, TargetsDiffer, Undecided
  <2>4. TargetIsFree'
    BY <1>0, <1>2, <2>2 DEF Scan, TargetIsFree, Undecided
  <2> QED
    BY <1>2, <2>3, <2>4 DEF Scan, ScanCovers
<1> QED
  BY <1>1, <1>2, CreateFacts

LEMMA EnqueueScan ==
    ASSUME Control, Offers, Scan, EnqueueOffer
    PROVE  Scan'
<1>1. dpc = "enqueue" /\ dpc' = "settle" /\ UNCHANGED <<tracking, dtarget, dop>>
  BY EnqueueFacts
<1>2. PICK r \in OfferRows : offers' = offers \cup {r} /\ r.op = dop /\ r.msg = dtarget
  BY EnqueueFacts
<1>3. \A s \in offers : s.op # dop /\ Undecided(dop) /\ Undecided(s.op) => s.msg # dtarget
  BY <1>1 DEF Scan, TargetIsFree
<1>4. \A s, t \in offers' : (s.op # t.op /\ Undecided(s.op) /\ Undecided(t.op)) => s.msg # t.msg
  BY <1>2, <1>3 DEF Scan, TargetsDiffer
<1> QED
  BY <1>1, <1>4 DEF Scan, TargetsDiffer, ScanCovers, TargetIsFree, Undecided

\* ScoreReply moves a record forward, as the scan runs.
LEMMA ScoreScan ==
    ASSUME Control, CenterTypes', Scan, ScoreReply
    PROVE  Scan'
<1> DEFINE o == toCenter[1].op
           t == ReplyTarget(toCenter[1].msg)
           next == ApplyEvents(tracking[o], t)
<1>1. /\ o \in Ops /\ t \in ReplyTargets /\ tracking[o] \in PersistedStates \cup TerminalStates
      /\ tracking' = [tracking EXCEPT ![o] = next]
      /\ UNCHANGED <<offers, dispatchVars>>
  BY ScoreFacts
<1>2. /\ CenterTypes
      /\ tracking \in [Ops -> PersistedStates \cup TerminalStates \cup {"Absent"}]
  BY DEF Control, CenterTypes
<1> HIDE DEF o, t
<1>3. /\ next \in PersistedStates \cup TerminalStates
      /\ tracking[o] \in TerminalStates => next = tracking[o]
      /\ t \in TerminalStates => next \in TerminalStates
      /\ tracking[o] = "Running" => next # "Queued"
      /\ tracking[o] = "WaitingRemote" => next = "WaitingRemote" \/ t \in TerminalStates
  BY <1>1, ScoringMovesForward
<1> HIDE DEF next
<1>4. PersistedStates \cap TerminalStates = {}
  BY DEF PersistedStates, TerminalStates
<1>5. ASSUME next \in PersistedStates, NEW i \in 1 .. 3, tracking[o] = ScanStates[i]
      PROVE  \E k \in i .. 3 : next = ScanStates[k]
  <2>1. CASE i = 1
    BY <1>5, <2>1, ScanValues DEF PersistedStates
  <2>2. CASE i = 2
    BY <1>3, <1>5, <2>2, ScanValues DEF PersistedStates
  <2>3. CASE i = 3
    BY <1>3, <1>4, <1>5, <2>3, ScanValues
  <2> QED
    BY <2>1, <2>2, <2>3
<1>6. ASSUME NEW p \in Ops, tracking'[p] \in PersistedStates
      PROVE  /\ tracking[p] \in PersistedStates
             /\ \A i \in 1 .. 3 : tracking[p] = ScanStates[i] =>
                   \E k \in i .. 3 : tracking'[p] = ScanStates[k]
  <2>1. CASE p = o
    <3>1. tracking'[p] = next
      BY <1>1, <1>2, <2>1
    <3> QED
      BY <1>1, <1>3, <1>4, <1>5, <1>6, <2>1, <3>1
  <2>2. CASE p # o
    <3>1. tracking'[p] = tracking[p] /\ \A i \in 1 .. 3 : i \in i .. 3
      BY <1>1, <1>2, <2>2
    <3> QED
      BY <1>6, <3>1
  <2> QED
    BY <2>1, <2>2
<1>7. MovesOn
  BY <1>1, <1>6 DEF MovesOn, Undecided
<1> QED
  BY <1>1, <1>2, <1>7, ScanBeside

\* Every step keeps Scan.
LEMMA NextScan ==
    ASSUME Control, Control', Offers, Scan, Next
    PROVE  Scan'
<1>0. CenterTypes /\ CenterTypes'
  BY DEF Control
<1>1. ASSUME UNCHANGED <<tracking, offers, dispatchVars>> PROVE Scan'
  BY <1>0, <1>1, MovesNothing, ScanBeside
<1>2. ASSUME NEW t \in Targets, Request(t) PROVE Scan'
  BY <1>0, <1>2, RequestScan DEF Request
<1>3. ASSUME NEW offer \in offers, Expire(offer) PROVE Scan'
  BY <1>1, <1>3 DEF Expire
<1>4. ASSUME NEW o \in Ops, Executes(o) PROVE Scan'
  BY <1>1, <1>4 DEF Executes, centerVars
<1>5. CASE Site
  BY <1>1, <1>5 DEF Site, centerVars
<1>6. CASE Dispatching
  <2>1. CASE SettleDuplicates
    BY <1>0, <2>1, NoDuplicates, ScanOver DEF SettleDuplicates
  <2> QED
    BY <1>0, <1>6, <2>1, ScanStateScan, ResolveScan, RetireScan, CreateScan, EnqueueScan
       DEF Dispatching, DispatchStep
<1>7. CASE Session
  <2>1. ASSUME NEW seqs, Settles(offers, offers', seqs), UNCHANGED <<tracking, dispatchVars>>
        PROVE  Scan'
    <3>1. \A t \in offers' : \E r \in offers : r.op = t.op /\ r.msg = t.msg
      BY <2>1 DEF Settles
    <3> QED
      BY <1>0, <2>1, <3>1, MovesNothing, ScanBeside
  <2>2. CASE CenterFlush
    <3>1. UNCHANGED <<tracking, dispatchVars>>
      BY <2>2, FlushFacts
    <3>2. PICK offer \in Pending(offers) : \/ offers' = Acknowledge(offers, offer.seq)
                                           \/ UNCHANGED offers
      BY <2>2, FlushFacts
    <3>3. CASE offers' = Acknowledge(offers, offer.seq)
      <4>1. offer.seq \in Seqs(offers)
        BY DEF Pending, Seqs
      <4>2. Settles(offers, offers', {offer.seq})
        BY <3>3, <4>1, AcknowledgeSettles DEF Control, CenterTypes, Offers, RowsAgree
      <4> QED
        BY <2>1, <3>1, <4>2
    <3> QED
      BY <1>1, <3>1, <3>2, <3>3
  <2>3. CASE AckReply
    <3>1. UNCHANGED <<tracking, dispatchVars>>
      BY <2>3, AckFacts
    <3>2. PICK settled \in SUBSET Covered(handling[1]) : Settles(offers, offers', settled)
      BY <2>3, AckFacts
    <3> QED
      BY <2>1, <3>1, <3>2
  <2> QED
    BY <1>0, <1>7, <2>2, <2>3, ScoreScan DEF Session, SessionStep
<1>8. CASE Connect \/ Close \/ SiteLosesConnection \/ CenterLosesConnection \/ SiteCrash
  BY <1>1, <1>8 DEF Connect, Close, SiteLosesConnection, CenterLosesConnection, SiteCrash, centerVars
<1>9. CASE DispatchFails \/ CenterCrash
  BY <1>0, <1>9, ScanOver DEF DispatchFails, CenterCrash
<1> QED
  BY <1>2, <1>3, <1>4, <1>5, <1>6, <1>7, <1>8, <1>9 DEF Next

-----------------------------------------------------------------------------
(* Targets.                                                                 *)

\* Every row leaves one of its operation and target.
Remembers == \A r \in offers : \E t \in offers' : t.op = r.op /\ t.msg = r.msg

LEMMA SettledRemembers ==
    ASSUME RowsAgree, NEW seqs, Settles(offers, offers', seqs)
    PROVE  Remembers
<1> SUFFICES ASSUME NEW r \in offers PROVE \E t \in offers' : t.op = r.op /\ t.msg = r.msg
  BY DEF Remembers
<1>1. PICK t \in offers' : t.op = r.op
  BY DEF Settles
<1>2. PICK s \in offers : s.op = t.op /\ s.msg = t.msg
  BY DEF Settles
<1>3. s.msg = r.msg
  BY <1>1, <1>2 DEF RowsAgree
<1> QED
  BY <1>1, <1>2, <1>3

LEMMA NextRemembers ==
    ASSUME Control, Offers, Next
    PROVE  Remembers
<1>0. RowsAgree
  BY DEF Offers
<1>1. UNCHANGED offers => Remembers
  BY DEF Remembers
<1>2. CASE Dispatching
  <2>1. CASE RetireStale
    <3>1. CASE Min(dtodo) \in Seqs(offers)
      <4>1. offers' = Acknowledge(offers, Min(dtodo))
        BY <2>1, <3>1 DEF RetireStale
      <4>2. Settles(offers, offers', {Min(dtodo)})
        BY <3>1, <4>1, AcknowledgeSettles DEF Control, CenterTypes, Offers, RowsAgree
      <4> QED
        BY <1>0, <4>2, SettledRemembers
    <3> QED
      BY <1>1, <2>1, <3>1 DEF RetireStale
  <2>2. CASE EnqueueOffer
    BY <2>2 DEF EnqueueOffer, Enqueue, Remembers
  <2>3. CASE SettleDuplicates
    BY <1>1, <2>3, NoDuplicates
  <2> QED
    BY <1>1, <1>2, <2>1, <2>2, <2>3
       DEF Dispatching, DispatchStep, ScanState, Resolve, CreateTracking
<1>3. CASE Session
  <2>1. CASE CenterFlush
    <3>1. PICK offer \in Pending(offers) : \/ offers' = Acknowledge(offers, offer.seq)
                                           \/ UNCHANGED offers
      BY <2>1, FlushFacts
    <3>2. CASE offers' = Acknowledge(offers, offer.seq)
      <4>1. offer.seq \in Seqs(offers)
        BY DEF Pending, Seqs
      <4>2. Settles(offers, offers', {offer.seq})
        BY <3>2, <4>1, AcknowledgeSettles DEF Control, CenterTypes, Offers, RowsAgree
      <4> QED
        BY <1>0, <4>2, SettledRemembers
    <3> QED
      BY <1>1, <3>1, <3>2
  <2>2. CASE AckReply
    BY <1>0, <2>2, AckFacts, SettledRemembers
  <2> QED
    BY <1>1, <1>3, <2>1, <2>2 DEF Session, SessionStep, ScoreReply
<1>4. CASE Site \/ \E o \in Ops : Executes(o)
  BY <1>1, <1>4 DEF Site, Executes, centerVars
<1>5. CASE (\E t \in Targets : Request(t)) \/ \E offer \in offers : Expire(offer)
  BY <1>1, <1>5 DEF Request, Dispatch, Expire
<1>6. CASE \/ Connect \/ Close \/ SiteLosesConnection \/ CenterLosesConnection \/ DispatchFails
           \/ SiteCrash \/ CenterCrash
  BY <1>1, <1>6 DEF Connect, Close, SiteLosesConnection, CenterLosesConnection, DispatchFails,
                    SiteCrash, CenterCrash, centerVars
<1> QED
  BY <1>2, <1>3, <1>4, <1>5, <1>6 DEF Next

LEMMA TargetStays ==
    ASSUME Control, Control', RowsAgree', Remembers, NEW o \in Ops, Offered(o)
    PROVE  Offered(o)' /\ TargetOf(o)' = TargetOf(o)
<1>1. OfferOf(o) \in offers /\ OfferOf(o).op = o
  BY OfferOfIsIn DEF RowsOf
<1>2. PICK t \in offers' : t.op = o /\ t.msg = TargetOf(o)
  BY <1>1 DEF Remembers, TargetOf
<1>3. Offered(o)'
  BY <1>2 DEF Offered, RowsOf
<1>4. OfferOf(o)' \in RowsOf(offers', o)
  <2>1. offers' \in SUBSET OfferRows /\ IsFiniteSet(offers') /\ RowsOf(offers', o) # {}
    BY <1>3 DEF Control, CenterTypes, Offered
  <2> QED
    BY <2>1, SpokesmanIsIn DEF OfferOf, PendingOf
<1>5. OfferOf(o)'.msg = t.msg
  BY <1>2, <1>4 DEF RowsAgree, RowsOf
<1> QED
  BY <1>2, <1>3, <1>5 DEF TargetOf

-----------------------------------------------------------------------------
(* Heard: the site and the tracking know only of operations on offer.       *)

OnOffer == {o \in Ops : Offered(o)}

Heard ==
    /\ \A o \in Ops : inbox[o] # "none" => o \in OnOffer
    /\ \A o \in Ops : tracking[o] \in TerminalStates => o \in OnOffer
    /\ \A i \in DOMAIN todo : todo[i].op \in OnOffer
    /\ \A i \in DOMAIN replies : replies[i].op \in OnOffer
    /\ \A i \in DOMAIN toSite : toSite[i].kind = "offer" => toSite[i].op \in OnOffer
    /\ \A i \in DOMAIN toCenter : toCenter[i].op \in OnOffer

\* Whatever an operation is named by after a step, it was on offer before it.
LEMMA HeardStep ==
    ASSUME OnOffer \subseteq OnOffer',
           \A o \in Ops : inbox'[o] # "none" => o \in OnOffer,
           \A o \in Ops : tracking'[o] \in TerminalStates => o \in OnOffer,
           \A i \in DOMAIN todo' : todo'[i].op \in OnOffer,
           \A i \in DOMAIN replies' : replies'[i].op \in OnOffer,
           \A i \in DOMAIN toSite' : toSite'[i].kind = "offer" => toSite'[i].op \in OnOffer,
           \A i \in DOMAIN toCenter' : toCenter'[i].op \in OnOffer
    PROVE  Heard'
BY DEF Heard

\* What is kept was heard of.
LEMMA KeptIsHeard ==
    ASSUME Heard
    PROVE  /\ Kept(todo', todo) => \A i \in DOMAIN todo' : todo'[i].op \in OnOffer
           /\ Kept(replies', replies) => \A i \in DOMAIN replies' : replies'[i].op \in OnOffer
           /\ Kept(toSite', toSite) =>
                 \A i \in DOMAIN toSite' : toSite'[i].kind = "offer" => toSite'[i].op \in OnOffer
           /\ Kept(toCenter', toCenter) => \A i \in DOMAIN toCenter' : toCenter'[i].op \in OnOffer
<1>1. Kept(todo', todo) => \A i \in DOMAIN todo' : todo'[i].op \in OnOffer
  BY DEF Kept, Heard
<1>2. Kept(replies', replies) => \A i \in DOMAIN replies' : replies'[i].op \in OnOffer
  BY DEF Kept, Heard
<1>3. Kept(toSite', toSite) =>
         \A i \in DOMAIN toSite' : toSite'[i].kind = "offer" => toSite'[i].op \in OnOffer
  BY DEF Kept, Heard
<1>4. Kept(toCenter', toCenter) => \A i \in DOMAIN toCenter' : toCenter'[i].op \in OnOffer
  BY DEF Kept, Heard
<1> QED
  BY <1>1, <1>2, <1>3, <1>4

\* A step that names no operation anew and decides none.
LEMMA HeardKept ==
    ASSUME Heard, OnOffer \subseteq OnOffer', UNCHANGED <<inbox, replies>>,
           \A o \in Ops : tracking'[o] \in TerminalStates => tracking'[o] = tracking[o],
           todo' = todo \/ todo' = <<>>,
           toSite' = toSite \/ toSite' = <<>>,
           toCenter' = toCenter \/ toCenter' = <<>>
    PROVE  Heard'
<1>1. Kept(todo', todo) /\ Kept(replies', replies) /\ Kept(toSite', toSite) /\ Kept(toCenter', toCenter)
  BY KeptTrivially
<1>2. \A o \in Ops : inbox'[o] # "none" => o \in OnOffer
  BY DEF Heard
<1>3. \A o \in Ops : tracking'[o] \in TerminalStates => o \in OnOffer
  BY DEF Heard
<1> QED
  BY <1>1, <1>2, <1>3, KeptIsHeard, HeardStep

\* SiteWrite: the write, and the reply it queues, are of an operation heard of.
LEMMA SiteWriteHeard ==
    ASSUME Control, Heard, OnOffer \subseteq OnOffer', SiteWrite, UNCHANGED centerVars
    PROVE  Heard'
<1> DEFINE w == Head(todo)
           conflict == w.do = "advance" /\ StateConflict(w.op, w.arg)
<1>1. /\ todo # <<>> /\ w = todo[1] /\ w \in SiteWrites /\ 1 \in DOMAIN todo /\ w.op \in Ops
      /\ \A i \in DOMAIN Tail(todo) : i + 1 \in DOMAIN todo /\ Tail(todo)[i] = todo[i + 1]
  BY TailFacts, ElementTypes DEF SiteWrite, Control, SiteTypes
<1>2. UNCHANGED <<tracking, toSite, toCenter>>
  BY DEF SiteWrite, wireVars, centerVars
<1>3. CASE conflict
  <2>1. todo' = <<>> /\ UNCHANGED <<inbox, replies>>
    BY <1>3 DEF SiteWrite, SiteDisconnected
  <2> QED
    BY <1>2, <2>1, HeardKept
<1>4. CASE ~conflict
  <2>1. /\ inbox' = IF w.do = "advance" THEN [inbox EXCEPT ![w.op] = w.arg] ELSE inbox
        /\ replies' = IF w.do = "enqueue" THEN Append(replies, [op |-> w.op, msg |-> w.arg])
                                          ELSE replies
        /\ todo' = Tail(todo)
    BY <1>4 DEF SiteWrite
  <2>2. w.op \in OnOffer
    BY <1>1 DEF Heard
  <2> DEFINE reply == [op |-> w.op, msg |-> w.arg]
  <2>3. w.do = "enqueue" => reply \in SiteReplies
    BY <1>1 DEF SiteWrites, SiteReplies
  <2>4. reply.op = w.op
    OBVIOUS
  <2> HIDE DEF w, reply
  <2>5. \A i \in DOMAIN replies' : replies'[i].op \in OnOffer
    <3>1. CASE w.do = "enqueue"
      <4>1. replies \in Seq(SiteReplies) /\ replies' = Append(replies, reply)
        BY <2>1, <3>1 DEF Control, SiteTypes, reply
      <4>2. \A i \in DOMAIN replies' : \/ i \in DOMAIN replies /\ replies'[i] = replies[i]
                                       \/ replies'[i] = reply
        BY <2>3, <3>1, <4>1, AppendFacts
      <4> QED
        BY <2>2, <2>4, <4>2 DEF Heard
    <3>2. CASE w.do # "enqueue"
      BY <2>1, <3>2 DEF Heard
    <3> QED
      BY <3>1, <3>2
  <2>6. \A o \in Ops : inbox'[o] # "none" => o \in OnOffer
    BY <2>1, <2>2 DEF Heard, Control, SiteTypes
  <2>7. Kept(todo', todo) /\ Kept(toSite', toSite) /\ Kept(toCenter', toCenter)
    <3>1. Kept(todo', todo)
      BY <1>1, <2>1 DEF Kept
    <3> QED
      BY <1>2, <3>1, KeptTrivially
  <2>8. \A o \in Ops : tracking'[o] \in TerminalStates => o \in OnOffer
    BY <1>2 DEF Heard
  <2> QED
    BY <2>5, <2>6, <2>7, <2>8, KeptIsHeard, HeardStep
<1> QED
  BY <1>3, <1>4

\* A report decides on the writes of an operation in the inbox, if on any.
LEMMA ReportHeard ==
    ASSUME Heard, NEW o \in Ops, NEW s \in OperationStates, s \in TerminalStates => row[o] = s
    PROVE  \A i \in DOMAIN ReportOpenEntry(o, s) : ReportOpenEntry(o, s)[i].op \in OnOffer
<1>1. HandlerWrites(o, ReportOpenEntry(o, s))
  BY ReportWrites
<1>2. CASE inbox[o] = "none"
  <2>1. ReportOpenEntry(o, s) = <<>>
    BY <1>2 DEF ReportOpenEntry
  <2> QED
    BY <2>1
<1>3. CASE inbox[o] # "none"
  <2>1. o \in OnOffer
    BY <1>3 DEF Heard
  <2> QED
    BY <1>1, <2>1 DEF HandlerWrites
<1> QED
  BY <1>2, <1>3

\* The engine decides on the writes of a report.
LEMMA TurnHeard ==
    ASSUME Heard, OnOffer \subseteq OnOffer', UNCHANGED <<inbox, replies, wireVars, centerVars>>,
           \A i \in DOMAIN todo' : todo'[i].op \in OnOffer
    PROVE  Heard'
<1>1. UNCHANGED <<tracking, toSite, toCenter>>
  BY DEF wireVars, centerVars
<1>2. Kept(replies', replies) /\ Kept(toSite', toSite) /\ Kept(toCenter', toCenter)
  BY <1>1, KeptTrivially
<1>3. \A o \in Ops : inbox'[o] # "none" => o \in OnOffer
  BY DEF Heard
<1>4. \A o \in Ops : tracking'[o] \in TerminalStates => o \in OnOffer
  BY <1>1 DEF Heard
<1> QED
  BY <1>2, <1>3, <1>4, KeptIsHeard, HeardStep

LEMMA ReportListedHeard ==
    ASSUME Control, ListedAsFinished, Heard, OnOffer \subseteq OnOffer', ReportListed,
           UNCHANGED centerVars
    PROVE  Heard'
<1>1. UNCHANGED <<inbox, replies, wireVars>> /\ spc = "discover"
  BY DEF ReportListed
<1>2. PICK o \in known : todo' = ReportOpenEntry(o, ReportStates[scan - 1])
  BY DEF ReportListed
<1>3. o \in Ops /\ scan - 1 \in 1 .. 9
  BY <1>1, <1>2 DEF Control, SiteTypes
<1> DEFINE s == ReportStates[scan - 1]
<1>4. s \in OperationStates /\ (s \in TerminalStates => row[o] = s)
  BY <1>1, <1>2, <1>3, ReportStateTypes DEF ListedAsFinished
<1> HIDE DEF s
<1>5. \A i \in DOMAIN todo' : todo'[i].op \in OnOffer
  BY <1>2, <1>3, <1>4, ReportHeard DEF s
<1> QED
  BY <1>1, <1>5, TurnHeard

LEMMA ReportKnownHeard ==
    ASSUME Control, Heard, OnOffer \subseteq OnOffer', ReportKnown, UNCHANGED centerVars
    PROVE  Heard'
<1>1. UNCHANGED <<inbox, replies, wireVars>>
  BY DEF ReportKnown
<1>2. CASE UNCHANGED todo
  BY <1>1, <1>2, TurnHeard DEF Heard
<1>3. ASSUME NEW o \in known, row[o] # "Absent", todo' = ReportOpenEntry(o, row[o])
      PROVE  Heard'
  <2>1. o \in Ops /\ row[o] \in OperationStates
    BY <1>3, RowStatesAssumption DEF Control, SiteTypes
  <2>2. \A i \in DOMAIN todo' : todo'[i].op \in OnOffer
    BY <1>3, <2>1, ReportHeard
  <2> QED
    BY <1>1, <2>2, TurnHeard
<1> QED
  BY <1>2, <1>3 DEF ReportKnown

\* SiteFlush: the frame carries a reply of the outbox.
LEMMA SiteFlushHeard ==
    ASSUME Control, Heard, OnOffer \subseteq OnOffer', SiteFlush, UNCHANGED centerVars
    PROVE  Heard'
<1> DEFINE frame == [op |-> replies[ssent + 1].op, msg |-> replies[ssent + 1].msg,
                     acked |-> peerAcked]
<1>1. /\ UNCHANGED <<inbox, replies, todo, toSite>> /\ spc = "flush" /\ todo = <<>>
      /\ toCenter' = Append(toCenter, frame)
  BY DEF SiteFlush
<1>2. /\ ssent \in Nat /\ Len(replies) \in Nat /\ DOMAIN replies = 1 .. Len(replies)
      /\ toCenter \in Seq(CenterFrames) /\ peerAcked \in Nat /\ SiteTypes /\ Exchange
  BY DEF Control, SiteTypes
<1>3. ssent + 1 \in DOMAIN replies
  BY <1>1, <1>2 DEF Exchange
<1>4. frame \in CenterFrames /\ frame.op = replies[ssent + 1].op
  BY <1>2, <1>3, ElementTypes DEF CenterFrames
<1>5. frame.op \in OnOffer
  BY <1>3, <1>4 DEF Heard
<1> HIDE DEF frame
<1>6. \A i \in DOMAIN toCenter' : \/ i \in DOMAIN toCenter /\ toCenter'[i] = toCenter[i]
                                  \/ toCenter'[i] = frame
  BY <1>1, <1>2, <1>4, AppendFacts
<1>7. \A i \in DOMAIN toCenter' : toCenter'[i].op \in OnOffer
  BY <1>5, <1>6 DEF Heard
<1>8. Kept(todo', todo) /\ Kept(replies', replies) /\ Kept(toSite', toSite)
  BY <1>1, KeptTrivially
<1>9. \A o \in Ops : /\ inbox'[o] # "none" => o \in OnOffer
                     /\ tracking'[o] \in TerminalStates => o \in OnOffer
  BY <1>1 DEF Heard, centerVars
<1> QED
  BY <1>7, <1>8, <1>9, KeptIsHeard, HeardStep

\* The two receives: the offer was sent for an operation on offer.
LEMMA ReceiveHeard ==
    ASSUME Control, Heard, OnOffer \subseteq OnOffer', ReceiveOffer \/ ReceiveAck,
           UNCHANGED centerVars
    PROVE  Heard'
<1>0. SiteTypes
  BY DEF Control
<1>1. toSite # <<>> /\ toSite' = Tail(toSite) /\ UNCHANGED <<tracking, toCenter>>
  BY DEF ReceiveOffer, ReceiveAck, centerVars
<1>2. Kept(toSite', toSite) /\ Kept(toCenter', toCenter)
  <2>1. Kept(toSite', toSite)
    BY <1>0, <1>1, SiteHead DEF Kept
  <2> QED
    BY <1>1, <2>1, KeptTrivially
<1>3. \A o \in Ops : tracking'[o] \in TerminalStates => o \in OnOffer
  BY <1>1 DEF Heard
<1>4. CASE ReceiveOffer
  <2> DEFINE o == Head(toSite).op
  <2>1. /\ Head(toSite).kind = "offer" /\ UNCHANGED replies
        /\ inbox' = [inbox EXCEPT ![o] = IF @ = "none" THEN "Received" ELSE @]
    BY <1>4 DEF ReceiveOffer
  <2>2. PICK accept \in BOOLEAN : todo' = AnswerOffer(o, accept)
    BY <1>4 DEF ReceiveOffer
  <2>3. o \in Ops /\ o \in OnOffer
    BY <1>0, <1>1, <2>1, SiteHead, ElementTypes DEF Heard
  <2>4. \A i \in DOMAIN todo' : todo'[i].op = o
    BY <1>0, <2>2, <2>3, AnswerOfferWrites DEF HandlerWrites
  <2>5. \A p \in Ops : inbox'[p] # "none" => p \in OnOffer
    BY <2>1, <2>3, <1>0 DEF Heard, SiteTypes
  <2> QED
    BY <1>2, <1>3, <2>1, <2>3, <2>4, <2>5, KeptTrivially, KeptIsHeard, HeardStep
<1>5. CASE ReceiveAck
  <2>1. UNCHANGED <<inbox, todo>> /\ replies' = Tail(replies)
    BY <1>5 DEF ReceiveAck
  <2>2. Kept(replies', replies)
    <3>1. replies # <<>>
      <4>1. /\ spc = "loop" /\ Acks <= ssent /\ ssent <= Len(replies) /\ Acks \in Nat
            /\ ssent \in Nat /\ Len(replies) \in Nat /\ replies \in Seq(SiteReplies)
        BY <1>0, <1>5, AcksType DEF ReceiveAck, Control, Exchange, SiteTypes
      <4>2. Acks >= 1
        <5>1. toSite[1].kind = "ack" /\ Cardinality(AckPositions(Tail(toSite))) = Acks - 1
          BY <1>0, <1>1, <1>5, SiteHead DEF ReceiveAck
        <5>2. Cardinality(AckPositions(Tail(toSite))) \in Nat
          BY <1>0, <1>1, SiteHead, AckPositionsType
        <5> QED
          BY <4>1, <5>1, <5>2
      <4> QED
        BY <4>1, <4>2
    <3>2. \A i \in DOMAIN Tail(replies) : i + 1 \in DOMAIN replies /\ Tail(replies)[i] = replies[i + 1]
      BY <1>0, <3>1, TailFacts DEF SiteTypes
    <3> QED
      BY <2>1, <3>2 DEF Kept
  <2>3. \A p \in Ops : inbox'[p] # "none" => p \in OnOffer
    BY <2>1 DEF Heard
  <2> QED
    BY <1>2, <1>3, <2>1, <2>2, <2>3, KeptTrivially, KeptIsHeard, HeardStep
<1> QED
  BY <1>4, <1>5

\* The session sends offers of the outbox and scores what the site sent.
LEMMA SessionHeard ==
    ASSUME Control, Offers, Heard, OnOffer \subseteq OnOffer', SessionStep, UNCHANGED siteVars
    PROVE  Heard'
<1>0. /\ UNCHANGED <<inbox, replies, todo>> /\ Kept(todo', todo) /\ Kept(replies', replies)
      /\ \A o \in Ops : inbox'[o] # "none" => o \in OnOffer
      /\ toSite \in Seq(SiteFrames)
  BY KeptTrivially DEF siteVars, Heard, Control, SiteTypes
<1>1. ASSUME NEW f \in SiteFrames, toSite' = Append(toSite, f), f.kind = "offer" => f.op \in OnOffer,
             UNCHANGED <<tracking, toCenter>>
      PROVE  Heard'
  <2>1. \A i \in DOMAIN toSite' : \/ i \in DOMAIN toSite /\ toSite'[i] = toSite[i]
                                  \/ toSite'[i] = f
    BY <1>0, <1>1, AppendFacts
  <2>2. \A i \in DOMAIN toSite' : toSite'[i].kind = "offer" => toSite'[i].op \in OnOffer
    BY <1>1, <2>1 DEF Heard
  <2>3. Kept(toCenter', toCenter) /\ \A o \in Ops : tracking'[o] \in TerminalStates => o \in OnOffer
    BY <1>1, KeptTrivially DEF Heard
  <2> QED
    BY <1>0, <2>2, <2>3, KeptIsHeard, HeardStep
<1>2. CASE CenterFlush
  <2>1. UNCHANGED <<tracking, toCenter>>
    BY <1>2, FlushFacts
  <2>2. PICK offer \in Pending(offers) :
           \/ UNCHANGED toSite
           \/ toSite' = Append(toSite, [kind |-> "offer", seq |-> offer.seq, op |-> offer.op])
    BY <1>2, FlushFacts
  <2>3. offer \in OfferRows /\ offer.op \in OnOffer
    BY <2>2 DEF Pending, Control, CenterTypes, OfferRows, OnOffer, Offered, RowsOf
  <2>4. [kind |-> "offer", seq |-> offer.seq, op |-> offer.op] \in SiteFrames
    BY <2>3 DEF OfferRows, SiteFrames
  <2>5. CASE UNCHANGED toSite
    BY <1>0, <2>1, <2>5, HeardKept
  <2> QED
    BY <1>1, <2>1, <2>2, <2>3, <2>4, <2>5
<1>3. CASE ScoreReply
  <2> DEFINE o == toCenter[1].op
  <2>1. /\ 1 \in DOMAIN toCenter /\ o \in Ops /\ UNCHANGED toSite
        /\ tracking' = [tracking EXCEPT ![o] = ApplyEvents(tracking[o], ReplyTarget(toCenter[1].msg))]
        /\ \A i \in DOMAIN toCenter' : i + 1 \in DOMAIN toCenter /\ toCenter'[i] = toCenter[i + 1]
    BY <1>3, ScoreFacts
  <2>2. o \in OnOffer
    BY <2>1 DEF Heard
  <2> HIDE DEF o
  <2>3. \A p \in Ops : tracking'[p] \in TerminalStates => p \in OnOffer
    <3>1. ASSUME NEW p \in Ops, p # o PROVE tracking'[p] = tracking[p]
      BY <2>1, <3>1 DEF Control, CenterTypes
    <3> QED
      BY <2>2, <3>1 DEF Heard
  <2>4. Kept(toCenter', toCenter) /\ Kept(toSite', toSite)
    <3>1. Kept(toCenter', toCenter)
      BY <2>1 DEF Kept
    <3> QED
      BY <2>1, <3>1, KeptTrivially
  <2> QED
    BY <1>0, <2>3, <2>4, KeptIsHeard, HeardStep
<1>4. CASE AckReply
  <2>1. /\ UNCHANGED <<tracking, toCenter>>
        /\ UNCHANGED toSite \/ toSite' = Append(toSite, [kind |-> "ack"])
    BY <1>4, AckFacts
  <2>2. CASE UNCHANGED toSite
    BY <1>0, <2>1, <2>2, HeardKept
  <2>3. CASE toSite' = Append(toSite, [kind |-> "ack"])
    <3>1. [kind |-> "ack"] \in SiteFrames /\ [kind |-> "ack"].kind # "offer"
      BY DEF SiteFrames
    <3> QED
      BY <1>1, <2>1, <2>3, <3>1
  <2> QED
    BY <2>1, <2>2, <2>3
<1> QED
  BY <1>2, <1>3, <1>4 DEF SessionStep

\* Every step keeps Heard.
LEMMA NextHeard ==
    ASSUME Control, Verdicts, Offers, Heard, Next
    PROVE  Heard'
<1>0. ListedAsFinished
  BY VerdictsSplit
<1>1. OnOffer \subseteq OnOffer'
  <2>1. Remembers
    BY NextRemembers
  <2> QED
    BY <2>1 DEF Remembers, OnOffer, Offered, RowsOf
<1>2. CASE Site
  <2>1. UNCHANGED centerVars
    BY <1>2 DEF Site
  <2>2. CASE Discover
    BY <1>1, <2>1, <2>2, HeardKept DEF Discover, wireVars, centerVars
  <2> QED
    BY <1>0, <1>1, <1>2, <2>1, <2>2, SiteWriteHeard, ReportListedHeard, ReportKnownHeard,
       SiteFlushHeard, ReceiveHeard DEF Site, SiteStep
<1>3. CASE Session
  BY <1>1, <1>3, SessionHeard DEF Session
<1>4. CASE Dispatching
  <2>1. UNCHANGED <<inbox, replies, todo, toSite, toCenter>>
    BY <1>4 DEF Dispatching, siteVars, wireVars
  <2>2. \A o \in Ops : tracking'[o] \in TerminalStates => tracking'[o] = tracking[o]
    <3>1. CASE UNCHANGED tracking
      BY <3>1
    <3>2. CASE tracking' = [tracking EXCEPT ![dop'] = "Queued"]
      BY <3>2 DEF TerminalStates, Control, CenterTypes
    <3> QED
      BY <1>4, <3>1, <3>2 DEF Dispatching, DispatchStep, ScanState, Resolve, RetireStale,
         CreateTracking, EnqueueOffer, SettleDuplicates
  <2> QED
    BY <1>1, <2>1, <2>2, HeardKept
<1>5. CASE \E o \in Ops : Executes(o)
  BY <1>1, <1>5, HeardKept DEF Executes, SiteExecute, wireVars, centerVars
<1>6. CASE (\E t \in Targets : Request(t)) \/ \E offer \in offers : Expire(offer)
  BY <1>1, <1>6, HeardKept DEF Request, Dispatch, Expire, siteVars, wireVars
<1>7. CASE Connect
  BY <1>1, <1>7, HeardKept DEF Connect
<1>8. CASE CenterLosesConnection \/ DispatchFails \/ CenterCrash
  BY <1>1, <1>8, HeardKept DEF CenterLosesConnection, DispatchFails, CenterCrash, siteVars, wireVars
<1>9. CASE SiteLosesConnection \/ SiteCrash
  BY <1>1, <1>9, HeardKept DEF SiteLosesConnection, SiteCrash, SiteDisconnected, wireVars, centerVars
<1>10. CASE Close
  BY <1>1, <1>10, HeardKept DEF Close, SiteDisconnected, siteVars, wireVars
<1> QED
  BY <1>2, <1>3, <1>4, <1>5, <1>6, <1>7, <1>8, <1>9, <1>10 DEF Next

-----------------------------------------------------------------------------
(* The link implements LinkContract.                                        *)

\* No row has an operation or a target that none had.
NoNewAims == \A t \in offers' : \E r \in offers : r.op = t.op /\ r.msg = t.msg

LEMMA AimsStay ==
    ASSUME Remembers, NoNewAims
    PROVE  Aim' = Aim
<1>1. ASSUME NEW o \in Ops
      PROVE  {t.msg : t \in RowsOf(offers', o)} = {r.msg : r \in RowsOf(offers, o)}
  <2>1. ASSUME NEW t \in RowsOf(offers', o) PROVE \E r \in RowsOf(offers, o) : r.msg = t.msg
    BY DEF NoNewAims, RowsOf
  <2>2. ASSUME NEW r \in RowsOf(offers, o) PROVE \E t \in RowsOf(offers', o) : t.msg = r.msg
    BY DEF Remembers, RowsOf
  <2> QED
    BY <2>1, <2>2
<1> QED
  BY <1>1 DEF Aim

LEMMA OffersKeepAims == ASSUME UNCHANGED offers PROVE Aim' = Aim
BY DEF Aim, RowsOf

LEMMA SettledAims ==
    ASSUME RowsAgree, NEW seqs, Settles(offers, offers', seqs)
    PROVE  Aim' = Aim
<1>1. Remembers
  BY SettledRemembers
<1>2. NoNewAims
  BY DEF NoNewAims, Settles
<1> QED
  BY <1>1, <1>2, AimsStay

LEMMA RecordsKeepVerdicts == ASSUME UNCHANGED tracking PROVE Verdict' = Verdict
BY DEF Verdict, Undecided

LEMMA ContractStutter ==
    ASSUME UNCHANGED <<tracking, row>>, Aim' = Aim
    PROVE  UNCHANGED Contract!contractVars
BY RecordsKeepVerdicts DEF Contract!contractVars

\* Verdict and Aim, one operation at a time.
LEMMA VerdictValues ==
    ASSUME NEW o \in Ops
    PROVE  /\ tracking[o] = "Absent" => Verdict[o] = "none"
           /\ tracking[o] \in PersistedStates => Verdict[o] = "open"
           /\ tracking[o] \in TerminalStates => Verdict[o] = tracking[o]
           /\ Verdict[o] = "open" => tracking[o] \in PersistedStates \/ tracking[o] = "open"
           /\ Aim[o] = {} <=> ~Offered(o)
           /\ \A t : t \in Aim[o] <=> \E r \in offers : r.op = o /\ r.msg = t
<1>1. Verdict[o] = IF tracking[o] = "Absent" THEN "none"
                   ELSE IF tracking[o] \in PersistedStates THEN "open" ELSE tracking[o]
  BY DEF Verdict, Undecided
<1>2. Aim[o] = {r.msg : r \in RowsOf(offers, o)}
  BY DEF Aim
<1>3. (Aim[o] = {} <=> ~Offered(o)) /\ \A t : t \in Aim[o] <=> \E r \in offers : r.op = o /\ r.msg = t
  BY <1>2 DEF Offered, RowsOf
<1> QED
  BY <1>1, <1>3 DEF PersistedStates, TerminalStates

\* CreateTracking records one operation, or ends the dispatch.
LEMMA CreateContract ==
    ASSUME Control, CreateTracking, UNCHANGED siteVars
    PROVE  Contract!ContractNext \/ UNCHANGED Contract!contractVars
<1>1. UNCHANGED row /\ Aim' = Aim
  BY CreateFacts, OffersKeepAims DEF siteVars
<1>2. CASE UNCHANGED tracking
  BY <1>1, <1>2, ContractStutter
<1>3. CASE dop' \in Ops /\ ~Recorded(dop') /\ tracking' = [tracking EXCEPT ![dop'] = "Queued"]
  <2>1. PICK o \in Ops : o = dop'
    BY <1>3
  <2>2. tracking' = [tracking EXCEPT ![o] = "Queued"] /\ tracking[o] = "Absent"
    BY <1>3, <2>1 DEF Recorded
  <2>3. Verdict[o] = "none"
    BY <2>2, VerdictValues
  <2>4. Verdict' = [Verdict EXCEPT ![o] = "open"]
    <3>1. tracking \in [Ops -> PersistedStates \cup TerminalStates \cup {"Absent"}]
      BY DEF Control, CenterTypes
    <3> QED
      BY <2>2, <3>1 DEF Verdict, Undecided, PersistedStates
  <2>5. Contract!Record(o)
    BY <1>1, <2>3, <2>4 DEF Contract!Record
  <2> QED
    BY <2>5 DEF Contract!ContractNext
<1> QED
  BY <1>2, <1>3, CreateFacts

\* EnqueueOffer: the first row of an operation gives it its target, which no
\* undecided operation on offer has; a further row repeats it.
LEMMA EnqueueContract ==
    ASSUME Control, Offers, Scan, Heard, EnqueueOffer, UNCHANGED siteVars
    PROVE  Contract!ContractNext \/ UNCHANGED Contract!contractVars
<1>1. /\ dpc = "enqueue" /\ dop \in Ops /\ dtarget \in Targets /\ UNCHANGED <<tracking, row>>
  BY EnqueueFacts DEF siteVars
<1>2. PICK r \in OfferRows : offers' = offers \cup {r} /\ r.op = dop /\ r.msg = dtarget
  BY EnqueueFacts
<1>3. Verdict' = Verdict
  BY <1>1, RecordsKeepVerdicts
<1>4. CASE Offered(dop)
  <2>1. PICK s \in offers : s.op = dop /\ s.msg = dtarget
    BY <1>1, <1>4 DEF Offered, RowsOf, Offers, DispatchKnows
  <2>2. Remembers /\ NoNewAims
    BY <1>2, <2>1 DEF Remembers, NoNewAims
  <2> QED
    BY <1>1, <2>2, AimsStay, ContractStutter
<1>5. CASE ~Offered(dop)
  <2>1. Undecided(dop)
    <3>1. Recorded(dop) /\ tracking[dop] \notin TerminalStates
      BY <1>1, <1>5 DEF Control, Named, Heard, OnOffer
    <3> QED
      BY <1>1, <3>1 DEF Control, CenterTypes, Recorded, Undecided
  <2>2. Verdict[dop] = "open" /\ Aim[dop] = {}
    BY <1>1, <1>5, <2>1, VerdictValues DEF Undecided
  <2>3. ASSUME NEW p \in Ops, p # dop, Verdict[p] = "open" PROVE dtarget \notin Aim[p]
    <3>1. Undecided(p)
      <4>1. tracking[p] # "open"
        BY DEF Control, CenterTypes, PersistedStates, TerminalStates
      <4> QED
        BY <2>3, <4>1, VerdictValues DEF Undecided
    <3>2. \A q \in offers : q.op = p => q.msg # dtarget
      BY <1>1, <2>1, <2>3, <3>1 DEF Scan, TargetIsFree
    <3> QED
      BY <3>2, VerdictValues
  <2>4. Aim' = [Aim EXCEPT ![dop] = {dtarget}]
    <3>1. ASSUME NEW p \in Ops
          PROVE  {q.msg : q \in RowsOf(offers', p)} = IF p = dop THEN {dtarget} ELSE Aim[p]
      <4>1. CASE p = dop
        <5>1. RowsOf(offers', p) = {r}
          BY <1>2, <1>5, <4>1 DEF Offered, RowsOf
        <5> QED
          BY <1>2, <4>1, <5>1
      <4>2. CASE p # dop
        <5>1. RowsOf(offers', p) = RowsOf(offers, p)
          BY <1>2, <4>2 DEF RowsOf
        <5> QED
          BY <4>2, <5>1 DEF Aim
      <4> QED
        BY <4>1, <4>2
    <3>2. Aim' = [p \in Ops |-> {q.msg : q \in RowsOf(offers', p)}]
      BY DEF Aim
    <3>3. Aim' = [p \in Ops |-> IF p = dop THEN {dtarget} ELSE Aim[p]]
      BY <3>1, <3>2
    <3>4. DOMAIN Aim = Ops
      BY DEF Aim
    <3> QED
      BY <3>3, <3>4
  <2>5. Contract!Offer(dop, dtarget)
    BY <1>1, <1>3, <2>2, <2>3, <2>4 DEF Contract!Offer
  <2> QED
    BY <1>1, <2>5 DEF Contract!ContractNext
<1> QED
  BY <1>4, <1>5

\* ScoreReply decides an open operation as the site did, or as failed.
LEMMA ScoreContract ==
    ASSUME Control, Heard, CenterVerdictIsTrue', ScoreReply, UNCHANGED siteVars
    PROVE  Contract!ContractNext \/ UNCHANGED Contract!contractVars
<1>1. UNCHANGED row /\ Aim' = Aim
  BY ScoreFacts, OffersKeepAims DEF siteVars
<1>2. PICK o \in Ops, new \in PersistedStates \cup TerminalStates :
         /\ o \in OnOffer /\ tracking' = [tracking EXCEPT ![o] = new]
         /\ tracking[o] \in PersistedStates \cup TerminalStates
         /\ tracking[o] \in TerminalStates => new = tracking[o]
  <2> DEFINE p == toCenter[1].op
             t == ReplyTarget(toCenter[1].msg)
  <2>1. /\ 1 \in DOMAIN toCenter /\ p \in Ops /\ t \in ReplyTargets
        /\ tracking[p] \in PersistedStates \cup TerminalStates
        /\ tracking' = [tracking EXCEPT ![p] = ApplyEvents(tracking[p], t)]
    BY ScoreFacts
  <2>2. p \in OnOffer
    BY <2>1 DEF Heard
  <2> HIDE DEF p, t
  <2>3. /\ ApplyEvents(tracking[p], t) \in PersistedStates \cup TerminalStates
        /\ tracking[p] \in TerminalStates => ApplyEvents(tracking[p], t) = tracking[p]
    BY <2>1, ScoringMovesForward
  <2> QED
    BY <2>1, <2>2, <2>3
<1>3. /\ tracking \in [Ops -> PersistedStates \cup TerminalStates \cup {"Absent"}]
      /\ PersistedStates \cap TerminalStates = {}
      /\ "Absent" \notin PersistedStates \cup TerminalStates
  BY DEF Control, CenterTypes, PersistedStates, TerminalStates
<1>4. CASE new \in PersistedStates
  <2>1. Verdict' = Verdict
    BY <1>2, <1>3, <1>4 DEF Verdict, Undecided
  <2> QED
    BY <1>1, <2>1 DEF Contract!contractVars
<1>5. CASE tracking[o] \in TerminalStates
  <2>1. UNCHANGED tracking
    BY <1>2, <1>3, <1>5
  <2> QED
    BY <1>1, <2>1, ContractStutter
<1>6. CASE new \in TerminalStates /\ tracking[o] \in PersistedStates
  <2>1. Verdict[o] = "open" /\ Aim[o] # {}
    BY <1>2, <1>6, VerdictValues DEF OnOffer
  <2>2. Verdict' = [Verdict EXCEPT ![o] = new]
    BY <1>2, <1>3, <1>6 DEF Verdict, Undecided
  <2>3. new # "Failed" => row[o] = new
    BY <1>1, <1>2, <1>3, <1>6 DEF CenterVerdictIsTrue, TerminalStates
  <2>4. new \in Contract!TerminalStates
    BY <1>6 DEF TerminalStates, Contract!TerminalStates
  <2>5. Contract!Decide(o)
    BY <1>1, <2>1, <2>2, <2>3, <2>4 DEF Contract!Decide
  <2> QED
    BY <2>5 DEF Contract!ContractNext
<1> QED
  BY <1>2, <1>4, <1>5, <1>6

\* SiteWrite begins an operation on offer that the site has no row of.
LEMMA SiteWriteContract ==
    ASSUME Control, Heard, SiteWrite, UNCHANGED centerVars
    PROVE  Contract!ContractNext \/ UNCHANGED Contract!contractVars
<1>1. UNCHANGED tracking /\ Aim' = Aim
  BY OffersKeepAims DEF centerVars
<1>2. CASE UNCHANGED row
  BY <1>1, <1>2, ContractStutter
<1> DEFINE w == Head(todo)
<1>3. CASE row[w.op] = "Absent" /\ row' = [row EXCEPT ![w.op] = "Queued"]
  <2>1. 1 \in DOMAIN todo /\ w = todo[1] /\ w.op \in Ops
    BY TailFacts, ElementTypes DEF SiteWrite, Control, SiteTypes
  <2>2. w.op \in OnOffer
    BY <2>1 DEF Heard
  <2>3. PICK o \in Ops : o = w.op
    BY <2>1
  <2>4. Aim[o] # {}
    BY <2>2, <2>3, VerdictValues DEF OnOffer
  <2>5. Contract!Begin(o)
    BY <1>1, <1>3, <2>3, <2>4, RecordsKeepVerdicts DEF Contract!Begin
  <2> QED
    BY <2>5 DEF Contract!ContractNext
<1> QED
  BY <1>2, <1>3 DEF SiteWrite

\* The scheduler moves a row on.
LEMMA ExecuteContract ==
    ASSUME NEW o \in Ops, SiteExecute(o), UNCHANGED centerVars
    PROVE  Contract!ContractNext
<1>1. Verdict' = Verdict /\ Aim' = Aim
  BY RecordsKeepVerdicts, OffersKeepAims DEF centerVars
<1>2. PICK to \in Later(row[o]) : row' = [row EXCEPT ![o] = to]
  BY DEF SiteExecute
<1>3. Later(row[o]) = Contract!Later(row[o])
  BY DEF Later, OperationStates, TerminalStates, Contract!Later, Contract!OperationStates,
         Contract!TerminalStates
<1>4. Contract!Advance(o)
  BY <1>1, <1>2, <1>3 DEF Contract!Advance
<1> QED
  BY <1>4 DEF Contract!ContractNext

LEMMA SiteContract ==
    ASSUME Control, Heard, Site
    PROVE  Contract!ContractNext \/ UNCHANGED Contract!contractVars
<1>1. UNCHANGED centerVars
  BY DEF Site
<1>2. CASE SiteWrite
  BY <1>1, <1>2, SiteWriteContract
<1>3. CASE UNCHANGED row
  BY <1>1, <1>3, OffersKeepAims, ContractStutter DEF centerVars
<1> QED
  BY <1>2, <1>3 DEF Site, SiteStep, Discover, ReportListed, ReportKnown, SiteFlush, ReceiveOffer,
     ReceiveAck

LEMMA DispatchingContract ==
    ASSUME Control, Offers, Scan, Heard, Dispatching
    PROVE  Contract!ContractNext \/ UNCHANGED Contract!contractVars
<1>1. UNCHANGED siteVars /\ UNCHANGED row
  BY DEF Dispatching, siteVars
<1>2. CASE UNCHANGED <<tracking, offers>>
  BY <1>1, <1>2, OffersKeepAims, ContractStutter
<1>3. CASE RetireStale
  <2>1. CASE Min(dtodo) \in Seqs(offers)
    <3>1. offers' = Acknowledge(offers, Min(dtodo)) /\ UNCHANGED tracking
      BY <1>3, <2>1 DEF RetireStale
    <3>2. Settles(offers, offers', {Min(dtodo)}) /\ RowsAgree
      BY <2>1, <3>1, AcknowledgeSettles DEF Control, CenterTypes, Offers, RowsAgree
    <3> QED
      BY <1>1, <3>1, <3>2, SettledAims, ContractStutter
  <2> QED
    BY <1>2, <1>3, <2>1 DEF RetireStale
<1>4. CASE SettleDuplicates
  BY <1>2, <1>4, NoDuplicates DEF SettleDuplicates
<1> QED
  BY <1>1, <1>2, <1>3, <1>4, CreateContract, EnqueueContract
     DEF Dispatching, DispatchStep, ScanState, Resolve

LEMMA SessionContract ==
    ASSUME Control, Offers, Heard, CenterVerdictIsTrue', Session
    PROVE  Contract!ContractNext \/ UNCHANGED Contract!contractVars
<1>1. UNCHANGED siteVars /\ UNCHANGED row /\ RowsAgree
  BY DEF Session, siteVars, Offers
<1>2. CASE CenterFlush
  <2>1. UNCHANGED tracking
    BY <1>2, FlushFacts
  <2>2. PICK offer \in Pending(offers) : \/ offers' = Acknowledge(offers, offer.seq)
                                         \/ UNCHANGED offers
    BY <1>2, FlushFacts
  <2>3. CASE offers' = Acknowledge(offers, offer.seq)
    <3>1. offer.seq \in Seqs(offers)
      BY DEF Pending, Seqs
    <3>2. Settles(offers, offers', {offer.seq})
      BY <2>3, <3>1, AcknowledgeSettles DEF Control, CenterTypes, Offers, RowsAgree
    <3> QED
      BY <1>1, <2>1, <3>2, SettledAims, ContractStutter
  <2> QED
    BY <1>1, <2>1, <2>2, <2>3, OffersKeepAims, ContractStutter
<1>3. CASE AckReply
  <2>1. UNCHANGED tracking
    BY <1>3, AckFacts
  <2>2. PICK settled : Settles(offers, offers', settled)
    BY <1>3, AckFacts
  <2> QED
    BY <1>1, <2>1, <2>2, SettledAims, ContractStutter
<1> QED
  BY <1>1, <1>2, <1>3, ScoreContract DEF Session, SessionStep

\* Every step of the link is one of the contract, or none.
LEMMA ContractStep ==
    ASSUME IInv, CenterVerdictIsTrue', Heard, Next
    PROVE  Contract!ContractNext \/ UNCHANGED Contract!contractVars
<1>0. Control /\ Offers /\ Scan
  BY DEF IInv
<1>1. UNCHANGED <<tracking, offers, row>> => UNCHANGED Contract!contractVars
  BY OffersKeepAims, ContractStutter
<1>2. CASE \E o \in Ops : Executes(o)
  BY <1>2, ExecuteContract DEF Executes
<1>3. CASE (\E t \in Targets : Request(t)) \/ \E offer \in offers : Expire(offer)
  BY <1>1, <1>3 DEF Request, Dispatch, Expire, siteVars
<1>4. CASE Connect \/ Close
  BY <1>1, <1>4 DEF Connect, Close, siteVars
<1>5. CASE CenterLosesConnection \/ DispatchFails \/ CenterCrash
  BY <1>1, <1>5 DEF CenterLosesConnection, DispatchFails, CenterCrash, siteVars
<1>6. CASE SiteLosesConnection \/ SiteCrash
  BY <1>1, <1>6 DEF SiteLosesConnection, SiteCrash, centerVars
<1> QED
  BY <1>0, <1>2, <1>3, <1>4, <1>5, <1>6, SiteContract, DispatchingContract, SessionContract DEF Next

-----------------------------------------------------------------------------
(* The theorems.                                                            *)

LEMMA InitHolds ==
    ASSUME Init
    PROVE  IInv
<1>1. SiteTypes
  BY DEF Init, SiteInit, SiteTypes, InboxStates
<1>2. CenterTypes
  <2>1. IsFiniteSet({})
    BY FS_EmptySet
  <2> QED
    BY <2>1 DEF Init, CenterInit, CenterTypes
<1>3. Named
  BY DEF Init, SiteInit, CenterInit, Named
<1>4. Exchange
  <2>1. ssent = 0 /\ replies = <<>> /\ spc = "down" /\ peerAcked = 0 /\ csent = {} /\ handling = <<>>
    BY DEF Init, SiteInit, CenterInit
  <2> QED
    BY <2>1 DEF Exchange
<1>5. Answers
  BY DEF Init, SiteInit, Answers, ReplyNeverLost, ClosingIsAnswered
<1>6. Verdicts
  BY DEF Init, SiteInit, CenterInit, Verdicts, CenterVerdictIsTrue, ListedAsFinished
<1>7. Offers
  BY DEF Init, CenterInit, Offers, RowsAgree, UniqueSeqs, Pending, DispatchKnows
<1>8. Delivery
  <2>1. toSite = <<>> /\ toCenter = <<>> /\ handling = <<>> /\ peerAcked = 0 /\ csent = {} /\ offers = {}
    BY DEF Init, SiteInit, CenterInit
  <2>2. Told = {0}
    BY <2>1 DEF Told
  <2>3. OffersIn(toSite) = {} /\ Ascending(toSite)
    BY <2>1, NoOffersIn
  <2> QED
    BY <2>1, <2>2, <2>3 DEF Delivery, Numbered, Below, WireOrder, ToldIsGot, SentArrives,
                            UnsentIsNewer, Pending, AckedIsGot
<1>9. Scan
  BY DEF Init, CenterInit, Scan, TargetsDiffer, ScanCovers, TargetIsFree
<1> QED
  BY <1>1, <1>2, <1>3, <1>4, <1>5, <1>6, <1>7, <1>8, <1>9 DEF IInv, Control

LEMMA StutterHolds ==
    ASSUME IInv, UNCHANGED linkVars
    PROVE  IInv'
<1>0. /\ Control /\ Answers /\ Verdicts /\ Offers /\ Delivery /\ Scan /\ CenterTypes
      /\ UNCHANGED <<siteVars, wireVars, centerVars>>
  BY DEF IInv, Control, linkVars
<1>1. UNCHANGED <<inbox, row, replies, spc, scan, known, todo, peerAcked, toCenter>>
  BY <1>0 DEF siteVars, wireVars
<1>2. UNCHANGED <<tracking, offers, expired, dispatchVars, sessionVars>>
  BY <1>0 DEF centerVars
<1>3. Forward /\ CenterTypes' /\ NamedAtCenter'
  BY <1>0, CenterStays, NamedSplits, NamedAtCenterStays DEF Control
<1>4. Control'
  BY <1>0, <1>2, <1>3, CenterOnlyControl
<1>5. Answers'
  BY <1>0, <1>1, <1>3, RepliesStay, AnswersUndisturbed
<1>6. Verdicts'
  BY <1>0, <1>1, <1>2, VerdictsUndisturbed DEF RowsFinal
<1>7. Offers'
  BY <1>0, <1>2, OffersStay
<1>8. Delivery'
  BY <1>0, <1>1, <1>2, <1>4, EvolvesStays, DeliveryQuiet
<1>9. Scan'
  BY <1>0, <1>2, <1>3, MovesNothing, ScanBeside
<1> QED
  BY <1>4, <1>5, <1>6, <1>7, <1>8, <1>9 DEF IInv

LEMMA NextHolds ==
    ASSUME IInv, Next
    PROVE  IInv'
<1>1. Control /\ Answers /\ Verdicts /\ Offers /\ Delivery /\ Scan /\ ListedAsFinished
  BY DEF IInv, Verdicts
<1>2. Control'
  BY <1>1, NextControl
<1> QED
  BY <1>1, <1>2, NextAnswers, NextVerdicts, NextOffers, NextDelivery, NextScan DEF IInv

\* The inductive invariant: what the two ends of the link know of each other
\* holds through every handler, fault and restart of the site engine, the
\* inbound session and the dispatch.
THEOREM Inductive == Spec => []IInv
<1>1. Init => IInv
  BY InitHolds
<1>2. IInv /\ [Next]_linkVars => IInv'
  BY StutterHolds, NextHolds
<1> QED
  BY <1>1, <1>2, PTL DEF Spec

\* The records of both stores keep their types: in particular on_reply only
\* ever stores Queued, Running, WaitingRemote or a final state.
THEOREM TypesHold == Spec => []TypeOK
<1>1. IInv => TypeOK
  BY DEF IInv, Control, SiteTypes, CenterTypes, Exchange, TypeOK
<1> QED
  BY <1>1, Inductive, PTL

\* What on_reply records as succeeded, cancelled or unknown is what the
\* site's own row says, however late or often the reply was sent.
THEOREM VerdictsHold == Spec => []CenterVerdictIsTrue
<1>1. IInv => CenterVerdictIsTrue
  BY DEF IInv, Verdicts
<1> QED
  BY <1>1, Inductive, PTL

\* An inbox entry the site has closed is finished at the center or has its
\* final reply in the outbox: decide_and_record and report_open_entry queue
\* it first, and ack_outbox drops it only after on_reply.
THEOREM RepliesHold == Spec => []ReplyNeverLost
<1>1. IInv => ReplyNeverLost
  BY DEF IInv, Answers
<1> QED
  BY <1>1, Inductive, PTL

\* At most one offer row of an operation is pending: the retirement of stale
\* rows precedes every enqueue_offer, and settle_duplicate_offers finds
\* nothing to settle.
THEOREM OnePendingHolds == Spec => []OnePendingOffer
<1>1. ASSUME IInv PROVE OnePendingOffer
  <2> SUFFICES ASSUME NEW o \in Ops PROVE Cardinality(PendingOf(o)) <= 1
    BY DEF OnePendingOffer
  <2>1. \A r, s \in PendingOf(o) : r = s
    BY <1>1 DEF IInv, Offers, RowsAgree, PendingOf, RowsOf
  <2>2. CASE PendingOf(o) = {}
    BY <2>2, FS_EmptySet
  <2>3. CASE PendingOf(o) # {}
    <3>1. PICK r : PendingOf(o) = {r}
      BY <2>1, <2>3
    <3>2. Cardinality({r}) = 1
      BY FS_Singleton
    <3> QED
      BY <3>1, <3>2
  <2> QED
    BY <2>2, <2>3
<1> QED
  BY <1>1, Inductive, PTL

\* An offer that was settled without having expired is in the site's inbox:
\* what a reply acknowledges was inserted before the reply left, on this
\* connection and in the order it was sent.
THEOREM OfferHolds == Spec => []OfferNeverLost
<1>1. ASSUME IInv PROVE OfferNeverLost
  <2> SUFFICES ASSUME NEW o \in Ops, Offered(o)
               PROVE  \/ PendingOf(o) # {}
                      \/ inbox[o] # "none"
                      \/ Newest(RowsOf(offers, o)).seq \in expired
    BY DEF OfferNeverLost
  <2>1. Control /\ AckedIsGot
    BY <1>1 DEF IInv, Delivery
  <2>2. PICK newest : newest = Newest(RowsOf(offers, o))
    OBVIOUS
  <2>3. newest \in RowsOf(offers, o) /\ \A r \in RowsOf(offers, o) : newest.seq >= r.seq
    BY <2>1, <2>2, OfferOfIsIn
  <2>4. newest \in offers /\ newest.op = o
    BY <2>3 DEF RowsOf
  <2>5. \A r \in offers : r.op = o => ~(r.seq > newest.seq)
    <3>1. \A r \in offers : r.seq \in Nat
      BY <2>1, RowTypes DEF Control
    <3> QED
      BY <2>3, <2>4, <3>1 DEF RowsOf
  <2>6. CASE newest.acked
    BY <2>1, <2>2, <2>4, <2>5, <2>6 DEF AckedIsGot
  <2>7. CASE ~newest.acked
    BY <2>4, <2>7 DEF PendingOf, Pending, RowsOf
  <2> QED
    BY <2>6, <2>7
<1> QED
  BY <1>1, Inductive, PTL

\* Repeating a request starts no second operation: find_undecided, which
\* lists one state after the other while replies move the records, misses no
\* undecided operation on offer for the target.
THEOREM OneLiveHolds == Spec => []OneLiveIdPerTarget
<1>1. ASSUME IInv PROVE OneLiveIdPerTarget
  <2> SUFFICES ASSUME NEW o \in Ops, NEW p \in Ops, o # p, Undecided(o), Undecided(p),
                      Offered(o), Offered(p)
               PROVE  TargetOf(o) # TargetOf(p)
    BY DEF OneLiveIdPerTarget
  <2>1. Control /\ TargetsDiffer
    BY <1>1 DEF IInv, Scan
  <2>2. OfferOf(o) \in RowsOf(offers, o) /\ OfferOf(p) \in RowsOf(offers, p)
    BY <2>1, OfferOfIsIn
  <2> HIDE DEF OfferOf
  <2> QED
    BY <2>1, <2>2 DEF TargetsDiffer, TargetOf, RowsOf
<1> QED
  BY <1>1, Inductive, PTL

\* An operation on offer keeps an offer row and its target through pruning,
\* settling, retiring and retries (prune_acked_operation_history,
\* resolve_candidate).
THEOREM TargetsHold == Spec => TargetIsRemembered
<1>1. ASSUME IInv, IInv', Next
      PROVE  \A o \in Ops : Offered(o) => Offered(o)' /\ TargetOf(o)' = TargetOf(o)
  <2>1. Control /\ Control' /\ Offers /\ RowsAgree'
    BY <1>1 DEF IInv, Offers
  <2>2. Remembers
    BY <1>1, <2>1, NextRemembers
  <2> QED
    BY <2>1, <2>2, TargetStays
<1>2. UNCHANGED linkVars => UNCHANGED offers
  BY DEF linkVars, centerVars
<1>3. /\ IInv /\ IInv' /\ [Next]_linkVars
      => [\A o \in Ops : Offered(o) => Offered(o)' /\ TargetOf(o)' = TargetOf(o)]_offers
  BY <1>1, <1>2
<1> QED
  BY <1>3, Inductive, PTL DEF Spec, TargetIsRemembered

LEMMA ContractInitHolds == Init => Contract!ContractInit
<1> SUFFICES ASSUME Init PROVE Contract!ContractInit
  OBVIOUS
<1>1. tracking = [o \in Ops |-> "Absent"] /\ offers = {} /\ row = [o \in Ops |-> "Absent"]
  BY DEF Init, SiteInit, CenterInit
<1>2. Verdict = [o \in Ops |-> "none"]
  BY <1>1 DEF Verdict
<1>3. \A o \in Ops : {offer.msg : offer \in RowsOf(offers, o)} = {}
  BY <1>1 DEF RowsOf
<1>4. Aim = [o \in Ops |-> {}]
  BY <1>3 DEF Aim
<1> QED
  BY <1>1, <1>2, <1>4 DEF Contract!ContractInit

\* The site holds entries, handles offers and sends replies only of operations
\* the center has on offer, and the center decides no others.
THEOREM HeardHolds == Spec => []Heard
<1>1. Init => Heard
  BY DEF Init, SiteInit, CenterInit, Heard, TerminalStates
<1>2. IInv /\ Heard /\ [Next]_linkVars => Heard'
  <2> SUFFICES ASSUME IInv, Heard, [Next]_linkVars PROVE Heard'
    OBVIOUS
  <2>1. CASE Next
    BY <2>1, NextHeard DEF IInv
  <2>2. CASE UNCHANGED linkVars
    <3>1. UNCHANGED <<inbox, replies, todo, toSite, toCenter, tracking, offers>>
      BY <2>2 DEF linkVars, siteVars, wireVars, centerVars
    <3>2. OnOffer' = OnOffer
      BY <3>1 DEF OnOffer, Offered, RowsOf
    <3> QED
      BY <3>1, <3>2, HeardKept
  <2> QED
    BY <2>1, <2>2
<1> QED
  BY <1>1, <1>2, Inductive, PTL DEF Spec

\* Site and center implement LinkContract: through every retry, redelivery,
\* expiry and restart an operation has one target, which no other undecided
\* operation has (find_undecided), is begun once and only when offered
\* (handle_offer), and is decided once, truly unless as failed (on_reply).
THEOREM ContractIsKept == Spec => ImplementsContract
<1>1. IInv /\ IInv' /\ Heard /\ [Next]_linkVars => [Contract!ContractNext]_(Contract!contractVars)
  <2> SUFFICES ASSUME IInv, IInv', Heard, [Next]_linkVars
               PROVE  Contract!ContractNext \/ UNCHANGED Contract!contractVars
    OBVIOUS
  <2>1. CASE UNCHANGED linkVars
    <3>1. UNCHANGED <<tracking, offers, row>>
      BY <2>1 DEF linkVars, siteVars, centerVars
    <3> QED
      BY <3>1, OffersKeepAims, ContractStutter
  <2>2. CenterVerdictIsTrue'
    BY DEF IInv, Verdicts
  <2> QED
    BY <2>1, <2>2, ContractStep
<1> QED
  BY <1>1, ContractInitHolds, Inductive, HeardHolds, PTL DEF Spec, ImplementsContract,
     Contract!ContractSpec
==============================================================================
