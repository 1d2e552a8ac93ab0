----------------------------- MODULE CenterOutbox ----------------------------
(***************************************************************************)
(* The durable outbox both halves of the site-to-center protocol queue     *)
(* their messages in: the site its replies, the center its offers.  A row  *)
(* is a record [seq, op, msg, acked]; every operator is one transaction.   *)
(***************************************************************************)
EXTENDS Integers, FiniteSetsExt

Pending(rows) == {row \in rows : ~row.acked}
RowsOf(rows, o) == {row \in rows : row.op = o}
Seqs(rows) == {row.seq : row \in rows}

\* The row of a nonempty set with the highest sequence number.
Newest(rows) == CHOOSE row \in rows : \A other \in rows : row.seq >= other.seq

\* enqueue_outbox_entry: the next sequence number after the highest stored.
NextSequence(rows) == Max(Seqs(rows) \cup {0}) + 1

Enqueue(rows, o, msg) ==
    rows \cup {[seq |-> NextSequence(rows), op |-> o, msg |-> msg, acked |-> FALSE]}

\* Mutant: pruning drops the whole acknowledged history of an operation.
PruneAll(rows, o) == rows \ {row \in RowsOf(rows, o) : row.acked}

\* prune_acked_operation_history: of an operation's acknowledged rows only
\* the newest is kept.
PruneHistory(rows, o) ==
    rows \ {row \in RowsOf(rows, o) :
              row.acked /\ \E other \in RowsOf(rows, o) :
                              other.acked /\ other.seq > row.seq}

\* ack_outbox_entry of a stored row: acknowledge it, then prune.
Acknowledge(rows, seq) ==
    LET row == CHOOSE r \in rows : r.seq = seq
    IN PruneHistory((rows \ {row}) \cup {[row EXCEPT !.acked = TRUE]}, row.op)

\* Acknowledging several rows one after the other, lowest first.  `seqs' are
\* all stored.
AcknowledgeAll(rows, seqs) ==
    LET marked == {IF row.seq \in seqs THEN [row EXCEPT !.acked = TRUE] ELSE row
                     : row \in rows}
        touched == {row.op : row \in {r \in rows : r.seq \in seqs}}
    IN {row \in marked : row.op \in touched => row \in PruneHistory(marked, row.op)}
==============================================================================
