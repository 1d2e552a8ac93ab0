------------------------------ MODULE LinkLemmas -----------------------------
(***************************************************************************)
(* Lemmas about the operators of the site-to-center link: the rows of the  *)
(* outbox, the acknowledgements on the wire, the scoring of replies and    *)
(* the moves of the site's rows.                                           *)
(***************************************************************************)
EXTENDS CenterDispatch, NumberLemmas, SequenceTheorems

OfferRows == [seq : Nat \ {0}, op : Ops, msg : Targets, acked : BOOLEAN]

\* No two rows have the same number.
UniqueSeqs(rows) == \A r, s \in rows : r.seq = s.seq => r = s

\* The rows after the ones numbered in seqs were acknowledged and old ones
\* pruned: nothing else changes, what is pending stays, and every operation
\* keeps a row as new as any it had.
Settles(before, after, seqs) ==
    /\ after \subseteq OfferRows /\ IsFiniteSet(after) /\ UniqueSeqs(after)
    /\ \A t \in after : \E r \in before :
          /\ r.seq = t.seq /\ r.op = t.op /\ r.msg = t.msg
          /\ t.acked <=> r.acked \/ r.seq \in seqs
    /\ \A r \in before : ~r.acked /\ r.seq \notin seqs => r \in after
    /\ \A r \in before : \E t \in after : t.op = r.op /\ t.seq >= r.seq

\* The acknowledgements among the frames to the site.
AckPositions(frames) == {i \in DOMAIN frames : frames[i].kind = "ack"}

\* The offers among them.
OffersIn(frames) == {frames[i] : i \in {i \in DOMAIN frames : frames[i].kind = "offer"}}

\* The offers are in the order of their numbers.
Ascending(frames) ==
    \A i, j \in DOMAIN frames :
        frames[i].kind = "offer" /\ frames[j].kind = "offer" /\ i < j
            => frames[i].seq < frames[j].seq

-----------------------------------------------------------------------------
(* The outbox.                                                              *)

\* A finite set of rows has a newest one.
LEMMA NewestExists ==
    ASSUME NEW rows \in SUBSET OfferRows, IsFiniteSet(rows), rows # {}
    PROVE  \E r \in rows : \A s \in rows : r.seq >= s.seq
<1> DEFINE f == [r \in rows |-> r.seq]
<1>1. f \in [rows -> Nat]
  BY DEF OfferRows
<1>2. PICK r \in rows : \A s \in rows : f[s] <= f[r]
  <2> HIDE DEF f
  <2> QED
    BY <1>1, GreatestValue
<1>3. \A s \in rows : s.seq <= r.seq /\ s.seq \in Nat /\ r.seq \in Nat
  BY <1>2 DEF OfferRows
<1> QED
  BY <1>3

\* Newest finds it.
LEMMA NewestIsIn ==
    ASSUME NEW rows \in SUBSET OfferRows, IsFiniteSet(rows), rows # {}
    PROVE  Newest(rows) \in rows /\ \A s \in rows : Newest(rows).seq >= s.seq
BY NewestExists DEF Newest

\* The newest pending row of an operation, else its newest row, is one of them.
LEMMA SpokesmanIsIn ==
    ASSUME NEW rows \in SUBSET OfferRows, IsFiniteSet(rows), NEW o, RowsOf(rows, o) # {}
    PROVE  LET pending == RowsOf(Pending(rows), o)
           IN Newest(IF pending # {} THEN pending ELSE RowsOf(rows, o)) \in RowsOf(rows, o)
<1> DEFINE all == RowsOf(rows, o)
           pending == RowsOf(Pending(rows), o)
<1>1. all \in SUBSET rows /\ pending \in SUBSET all
  BY DEF RowsOf, Pending
<1>2. all # {}
  OBVIOUS
<1> HIDE DEF all, pending
<1>3. IsFiniteSet(all) /\ IsFiniteSet(pending) /\ all \in SUBSET OfferRows /\ pending \in SUBSET OfferRows
  BY <1>1, FS_Subset
<1>4. Newest(all) \in all /\ (pending # {} => Newest(pending) \in pending)
  BY <1>2, <1>3, NewestIsIn
<1>5. Newest(IF pending # {} THEN pending ELSE all) \in all
  BY <1>1, <1>4
<1> QED
  BY <1>5 DEF all, pending

\* A new row's number is above all others.
LEMMA NextSequenceIsNew ==
    ASSUME NEW rows \in SUBSET OfferRows, IsFiniteSet(rows)
    PROVE  /\ NextSequence(rows) \in Nat \ {0}
           /\ \A r \in rows : r.seq < NextSequence(rows)
<1> DEFINE f == [r \in rows |-> r.seq]
           T == Seqs(rows) \cup {0}
<1>1. f \in Surjection(rows, Seqs(rows))
  BY DEF Surjection, Seqs
<1>2. IsFiniteSet(Seqs(rows))
  <2> HIDE DEF f
  <2> QED
    BY <1>1, FS_Surjection
<1>3. IsFiniteSet(T)
  BY <1>2, FS_AddElement
<1>4. T \in SUBSET Nat /\ T # {} /\ \A r \in rows : r.seq \in T
  BY DEF Seqs, OfferRows
<1>5. Max(T) \in T /\ \A y \in T : y <= Max(T)
  <2> HIDE DEF T
  <2> QED
    BY <1>3, <1>4, MaxProperties
<1>6. NextSequence(rows) = Max(T) + 1
  BY DEF NextSequence
<1>7. Max(T) \in Nat /\ \A r \in rows : r.seq \in Nat /\ r.seq <= Max(T)
  <2> HIDE DEF T
  <2> QED
    BY <1>4, <1>5
<1> HIDE DEF T
<1> QED
  BY <1>6, <1>7

\* What acknowledging does to a row.
Mark(r, seqs) == IF r.seq \in seqs THEN [r EXCEPT !.acked = TRUE] ELSE r

\* A pruned set keeps, of every marked row, that row or a newer one of its
\* operation.
LEMMA PruningSettles ==
    ASSUME NEW rows \in SUBSET OfferRows, IsFiniteSet(rows), UniqueSeqs(rows), NEW seqs,
           NEW marked, marked = {Mark(r, seqs) : r \in rows},
           NEW after \in SUBSET marked,
           \A m \in marked : m \notin after => m.acked,
           \A m \in marked :
               m \notin after => \E other \in marked : /\ other.op = m.op /\ other.acked
                                                       /\ other.seq > m.seq
    PROVE  Settles(rows, after, seqs)
<1>1. \A r \in rows : /\ Mark(r, seqs) \in OfferRows
                      /\ Mark(r, seqs).seq = r.seq /\ Mark(r, seqs).op = r.op
                      /\ Mark(r, seqs).msg = r.msg
                      /\ Mark(r, seqs).acked <=> r.acked \/ r.seq \in seqs
                      /\ r.seq \notin seqs => Mark(r, seqs) = r
  BY DEF Mark, OfferRows
<1>2. marked \subseteq OfferRows
  BY <1>1
<1>3. IsFiniteSet(marked)
  <2> DEFINE f == [r \in rows |-> Mark(r, seqs)]
  <2>1. f \in Surjection(rows, marked)
    BY DEF Surjection
  <2> HIDE DEF f
  <2> QED
    BY <2>1, FS_Surjection
<1>4. after \subseteq OfferRows /\ IsFiniteSet(after)
  BY <1>2, <1>3, FS_Subset
<1>5. \A t \in after : \E r \in rows : t = Mark(r, seqs)
  OBVIOUS
<1>6. UniqueSeqs(after)
  BY <1>1, <1>5 DEF UniqueSeqs
<1>7. \A t \in after : \E r \in rows :
          /\ r.seq = t.seq /\ r.op = t.op /\ r.msg = t.msg
          /\ t.acked <=> r.acked \/ r.seq \in seqs
  BY <1>1, <1>5
<1>8. ASSUME NEW r \in rows, ~r.acked, r.seq \notin seqs PROVE r \in after
  <2>1. r \in marked
    BY <1>1, <1>8
  <2> QED
    BY <2>1, <1>8
<1>9. ASSUME NEW r \in rows PROVE \E t \in after : t.op = r.op /\ t.seq >= r.seq
  <2> DEFINE S == {m \in marked : m.op = r.op /\ m.seq >= r.seq}
  <2>1. Mark(r, seqs) \in S
    BY <1>1 DEF OfferRows
  <2>2. S \in SUBSET OfferRows /\ IsFiniteSet(S) /\ S # {}
    BY <2>1, <1>2, <1>3, FS_Subset
  <2>3. PICK top \in S : \A s \in S : top.seq >= s.seq
    <3> HIDE DEF S
    <3> QED
      BY <2>2, NewestExists
  <2>4. top \in after
    <3> SUFFICES ASSUME top \notin after PROVE FALSE
      OBVIOUS
    <3>1. PICK other \in marked : other.op = top.op /\ other.seq > top.seq
      OBVIOUS
    <3>2. other.seq \in Nat /\ top.seq \in Nat /\ r.seq \in Nat
      BY <1>2 DEF OfferRows
    <3>3. other \in S
      BY <3>1, <3>2
    <3> QED
      BY <3>1, <3>2, <3>3, <2>3
  <2> QED
    BY <2>4
<1> QED
  BY <1>4, <1>6, <1>7, <1>8, <1>9 DEF Settles

\* Acknowledging a stored row.
LEMMA AcknowledgeSettles ==
    ASSUME NEW rows \in SUBSET OfferRows, IsFiniteSet(rows), UniqueSeqs(rows),
           NEW seq \in Seqs(rows)
    PROVE  Settles(rows, Acknowledge(rows, seq), {seq})
<1> DEFINE hit == CHOOSE r \in rows : r.seq = seq
           marked == {Mark(r, {seq}) : r \in rows}
           after == PruneHistory(marked, hit.op)
<1>1. hit \in rows /\ hit.seq = seq
  BY DEF Seqs
<1>2. \A r \in rows : r.seq = seq <=> r = hit
  BY <1>1 DEF UniqueSeqs
<1>3. (rows \ {hit}) \cup {[hit EXCEPT !.acked = TRUE]} = marked
  <2>1. \A r \in rows : Mark(r, {seq}) = IF r = hit THEN [hit EXCEPT !.acked = TRUE] ELSE r
    BY <1>2 DEF Mark
  <2> HIDE DEF hit
  <2> QED
    BY <2>1, <1>1
<1>4. Acknowledge(rows, seq) = after
  BY <1>3 DEF Acknowledge
<1> HIDE DEF hit, marked
<1>5. after \in SUBSET marked
  BY DEF PruneHistory
<1>6. \A m \in marked : m \notin after =>
         m.acked /\ \E other \in marked : other.op = m.op /\ other.acked /\ other.seq > m.seq
  BY DEF PruneHistory, RowsOf
<1>7. Settles(rows, after, {seq})
  <2> HIDE DEF after
  <2> QED
    BY <1>5, <1>6, PruningSettles DEF marked
<1> QED
  BY <1>4, <1>7

\* Acknowledging several stored rows.
LEMMA AcknowledgeAllSettles ==
    ASSUME NEW rows \in SUBSET OfferRows, IsFiniteSet(rows), UniqueSeqs(rows), NEW seqs
    PROVE  Settles(rows, AcknowledgeAll(rows, seqs), seqs)
<1> DEFINE marked == {Mark(r, seqs) : r \in rows}
           touched == {r.op : r \in {r \in rows : r.seq \in seqs}}
           after == {m \in marked : m.op \in touched => m \in PruneHistory(marked, m.op)}
<1>1. AcknowledgeAll(rows, seqs) = after
  BY DEF AcknowledgeAll, Mark
<1> HIDE DEF marked, touched
<1>2. after \in SUBSET marked
  OBVIOUS
<1>3. \A m \in marked : m \notin after =>
         m.acked /\ \E other \in marked : other.op = m.op /\ other.acked /\ other.seq > m.seq
  BY DEF PruneHistory, RowsOf
<1>4. Settles(rows, after, seqs)
  <2> HIDE DEF after
  <2> QED
    BY <1>2, <1>3, PruningSettles DEF marked
<1> QED
  BY <1>1, <1>4

\* What is pending afterwards.
LEMMA SettledPending ==
    ASSUME NEW before, NEW after, NEW seqs, Settles(before, after, seqs)
    PROVE  Pending(after) = {r \in Pending(before) : r.seq \notin seqs}
<1>1. ASSUME NEW t \in after, ~t.acked PROVE t \in before /\ t.seq \notin seqs
  <2>1. PICK r \in before : r.seq = t.seq /\ ~r.acked /\ r.seq \notin seqs
    BY <1>1 DEF Settles
  <2>2. r \in after
    BY <2>1 DEF Settles
  <2>3. r = t
    BY <2>1, <2>2 DEF Settles, UniqueSeqs
  <2> QED
    BY <2>1, <2>3
<1>2. ASSUME NEW r \in before, ~r.acked, r.seq \notin seqs PROVE r \in after
  BY <1>2 DEF Settles
<1> QED
  BY <1>1, <1>2 DEF Pending

\* Acknowledging none of them changes nothing.
LEMMA AcknowledgeNone ==
    ASSUME NEW rows
    PROVE  AcknowledgeAll(rows, {}) = rows
<1>1. {IF r.seq \in {} THEN [r EXCEPT !.acked = TRUE] ELSE r : r \in rows} = rows
  OBVIOUS
<1> QED
  BY <1>1 DEF AcknowledgeAll

\* The greater of two numbers.
LEMMA MaxOfTwo ==
    ASSUME NEW a \in Nat, NEW b \in Nat
    PROVE  Max({a, b}) \in {a, b} /\ a <= Max({a, b}) /\ b <= Max({a, b})
<1> DEFINE T == {a, b}
<1>1. T \in SUBSET Nat /\ T # {} /\ a \in T /\ b \in T
  OBVIOUS
<1>2. \E x \in T : \A y \in T : x >= y
  BY <1>1
<1>3. Max(T) \in T /\ \A y \in T : Max(T) >= y
  <2> HIDE DEF T
  <2> QED
    BY <1>2 DEF Max
<1> QED
  BY <1>3

-----------------------------------------------------------------------------
(* Sequences at their ends.                                                 *)

LEMMA TailFacts ==
    ASSUME NEW S, NEW s \in Seq(S), s # <<>>
    PROVE  /\ Head(s) = s[1] /\ 1 \in DOMAIN s /\ s[1] \in S
           /\ Tail(s) \in Seq(S) /\ Len(Tail(s)) = Len(s) - 1 /\ Len(s) \in Nat \ {0}
           /\ DOMAIN s = 1 .. Len(s) /\ DOMAIN Tail(s) = 1 .. Len(s) - 1
           /\ \A i \in DOMAIN Tail(s) : i + 1 \in DOMAIN s /\ Tail(s)[i] = s[i + 1]
OBVIOUS

LEMMA AppendFacts ==
    ASSUME NEW S, NEW s \in Seq(S), NEW x \in S
    PROVE  /\ Append(s, x) \in Seq(S) /\ Len(Append(s, x)) = Len(s) + 1
           /\ Len(s) \in Nat /\ DOMAIN s = 1 .. Len(s)
           /\ DOMAIN Append(s, x) = 1 .. Len(s) + 1
           /\ Append(s, x)[Len(s) + 1] = x
           /\ \A i \in DOMAIN s : i \in DOMAIN Append(s, x) /\ Append(s, x)[i] = s[i]
           /\ \A i \in DOMAIN Append(s, x) : i \in DOMAIN s \/ i = Len(s) + 1
OBVIOUS

\* An element before one or two others.
LEMMA ConcatTwo == ASSUME NEW a, NEW b PROVE <<a>> \o <<b>> = <<a, b>>
<1> DEFINE S == {a, b}
           s == <<a>> \o <<b>>
           t == <<a, b>>
<1>1. s \in Seq(S) /\ Len(s) = 2 /\ s[1] = a /\ s[2] = b
  OBVIOUS
<1>2. t \in Seq(S) /\ Len(t) = 2 /\ t[1] = a /\ t[2] = b
  OBVIOUS
<1> HIDE DEF s, t
<1>3. \A i \in 1 .. Len(s) : s[i] = t[i]
  BY <1>1, <1>2
<1>4. s = t
  BY <1>1, <1>2, <1>3, SeqEqual
<1> QED
  BY <1>4 DEF s, t

LEMMA ConcatThree == ASSUME NEW a, NEW b, NEW c PROVE <<a>> \o <<b, c>> = <<a, b, c>>
<1> DEFINE S == {a, b, c}
           s == <<a>> \o <<b, c>>
           t == <<a, b, c>>
<1>1. s \in Seq(S) /\ Len(s) = 3 /\ s[1] = a /\ s[2] = b /\ s[3] = c
  OBVIOUS
<1>2. t \in Seq(S) /\ Len(t) = 3 /\ t[1] = a /\ t[2] = b /\ t[3] = c
  OBVIOUS
<1> HIDE DEF s, t
<1>3. \A i \in 1 .. Len(s) : s[i] = t[i]
  BY <1>1, <1>2
<1>4. s = t
  BY <1>1, <1>2, <1>3, SeqEqual
<1> QED
  BY <1>4 DEF s, t

-----------------------------------------------------------------------------
(* The acknowledgements on the wire.                                        *)

LEMMA NoAckPositions == AckPositions(<<>>) = {} /\ Cardinality(AckPositions(<<>>)) = 0
<1>1. AckPositions(<<>>) = {}
  BY DEF AckPositions
<1> QED
  BY <1>1, FS_EmptySet

LEMMA AckPositionsType ==
    ASSUME NEW S, NEW frames \in Seq(S)
    PROVE  IsFiniteSet(AckPositions(frames)) /\ Cardinality(AckPositions(frames)) \in Nat
<1>1. IsFiniteSet(1 .. Len(frames)) /\ AckPositions(frames) \in SUBSET (1 .. Len(frames))
  BY FS_Interval DEF AckPositions
<1> QED
  BY <1>1, FS_Subset, FS_CardinalityType

\* A frame is put on the wire.
LEMMA AckPositionsAppend ==
    ASSUME NEW S, NEW frames \in Seq(S), NEW x \in S
    PROVE  Cardinality(AckPositions(Append(frames, x))) =
             Cardinality(AckPositions(frames)) + (IF x.kind = "ack" THEN 1 ELSE 0)
<1> DEFINE n == Len(frames) + 1
           longer == Append(frames, x)
<1>1. /\ Len(longer) = n /\ longer[n] = x
      /\ \A i \in 1 .. Len(frames) : longer[i] = frames[i]
      /\ DOMAIN longer = 1 .. n /\ DOMAIN frames = 1 .. Len(frames)
  OBVIOUS
<1>2. IsFiniteSet(AckPositions(frames)) /\ Cardinality(AckPositions(frames)) \in Nat
  BY AckPositionsType
<1>3. n \notin AckPositions(frames)
  BY DEF AckPositions
<1>4. CASE x.kind = "ack"
  <2>1. AckPositions(longer) = AckPositions(frames) \cup {n}
    <3> HIDE DEF longer
    <3> QED
      BY <1>1, <1>4 DEF AckPositions
  <2> QED
    BY <2>1, <1>2, <1>3, <1>4, FS_AddElement
<1>5. CASE x.kind # "ack"
  <2>1. AckPositions(longer) = AckPositions(frames)
    <3> HIDE DEF longer
    <3> QED
      BY <1>1, <1>5 DEF AckPositions
  <2> QED
    BY <2>1, <1>2, <1>5
<1> QED
  BY <1>4, <1>5

\* A frame is taken from the wire.
LEMMA AckPositionsTail ==
    ASSUME NEW S, NEW frames \in Seq(S), frames # <<>>
    PROVE  Cardinality(AckPositions(Tail(frames))) =
             Cardinality(AckPositions(frames)) - (IF Head(frames).kind = "ack" THEN 1 ELSE 0)
<1> DEFINE rest == Tail(frames)
           shifted == AckPositions(frames) \ {1}
           f == [i \in AckPositions(rest) |-> i + 1]
<1>1. /\ rest \in Seq(S) /\ Len(rest) = Len(frames) - 1
      /\ \A i \in 1 .. Len(rest) : rest[i] = frames[i + 1]
      /\ DOMAIN rest = 1 .. Len(rest) /\ DOMAIN frames = 1 .. Len(frames)
      /\ Len(frames) \in Nat \ {0} /\ Head(frames) = frames[1]
  OBVIOUS
<1>2. f \in Bijection(AckPositions(rest), shifted)
  <2> HIDE DEF rest
  <2>1. \A i \in AckPositions(rest) : i \in Nat \ {0} /\ i + 1 \in shifted
    BY <1>1 DEF AckPositions
  <2>2. \A j \in shifted : j - 1 \in AckPositions(rest) /\ f[j - 1] = j
    BY <1>1 DEF AckPositions
  <2>3. \A i, j \in AckPositions(rest) : f[i] = f[j] => i = j
    BY <2>1
  <2>4. f \in [AckPositions(rest) -> shifted]
    BY <2>1
  <2> QED
    <3> HIDE DEF f, shifted
    <3>1. f \in Injection(AckPositions(rest), shifted)
      BY <2>3, <2>4 DEF Injection, IsInjective
    <3>2. f \in Surjection(AckPositions(rest), shifted)
      BY <2>2, <2>4 DEF Surjection
    <3> QED
      BY <3>1, <3>2 DEF Bijection
<1>3. IsFiniteSet(AckPositions(rest))
  <2> HIDE DEF rest
  <2> QED
    BY <1>1, AckPositionsType
<1>4. Cardinality(shifted) = Cardinality(AckPositions(rest))
  <2> HIDE DEF f, rest, shifted
  <2> QED
    BY <1>2, <1>3, FS_Bijection DEF ExistsBijection
<1>5. IsFiniteSet(AckPositions(frames)) /\ Cardinality(AckPositions(frames)) \in Nat
  BY AckPositionsType
<1>6. 1 \in AckPositions(frames) <=> Head(frames).kind = "ack"
  BY <1>1 DEF AckPositions
<1>7. Cardinality(shifted) = IF 1 \in AckPositions(frames)
                             THEN Cardinality(AckPositions(frames)) - 1
                             ELSE Cardinality(AckPositions(frames))
  BY <1>5, FS_RemoveElement
<1> HIDE DEF rest, shifted
<1> QED
  BY <1>4, <1>5, <1>6, <1>7 DEF rest

-----------------------------------------------------------------------------
(* The offers on the wire.                                                  *)

LEMMA NoOffersIn == OffersIn(<<>>) = {} /\ Ascending(<<>>)
BY DEF OffersIn, Ascending

\* A frame is put on the wire, numbered above the others when it is an offer.
LEMMA OffersInAppend ==
    ASSUME NEW S, NEW frames \in Seq(S), NEW x \in S, Ascending(frames),
           x.kind = "offer" => \A f \in OffersIn(frames) : f.seq < x.seq
    PROVE  /\ OffersIn(Append(frames, x)) =
                 OffersIn(frames) \cup (IF x.kind = "offer" THEN {x} ELSE {})
           /\ Ascending(Append(frames, x))
<1> DEFINE longer == Append(frames, x)
           n == Len(frames) + 1
<1>1. /\ n \in Nat \ {0} /\ DOMAIN longer = 1 .. n /\ DOMAIN frames = 1 .. n - 1 /\ longer[n] = x
      /\ \A i \in DOMAIN frames : i \in DOMAIN longer /\ longer[i] = frames[i] /\ i < n
      /\ \A i \in DOMAIN longer : i \in DOMAIN frames \/ i = n
  BY AppendFacts
<1> HIDE DEF longer, n
<1>2. n \in DOMAIN longer /\ n \notin DOMAIN frames
  BY <1>1
<1>3. OffersIn(longer) = OffersIn(frames) \cup (IF x.kind = "offer" THEN {x} ELSE {})
  <2>1. ASSUME NEW f \in OffersIn(longer)
        PROVE  f \in OffersIn(frames) \cup (IF x.kind = "offer" THEN {x} ELSE {})
    BY <1>1, <2>1 DEF OffersIn
  <2>2. ASSUME NEW f \in OffersIn(frames) PROVE f \in OffersIn(longer)
    BY <1>1, <2>2 DEF OffersIn
  <2>3. x.kind = "offer" => x \in OffersIn(longer)
    BY <1>1, <1>2 DEF OffersIn
  <2> QED
    BY <2>1, <2>2, <2>3
<1>4. Ascending(longer)
  <2> SUFFICES ASSUME NEW i \in DOMAIN longer, NEW j \in DOMAIN longer,
                      longer[i].kind = "offer", longer[j].kind = "offer", i < j
               PROVE  longer[i].seq < longer[j].seq
    BY DEF Ascending
  <2>1. i \in DOMAIN frames
    BY <1>1
  <2>2. CASE j \in DOMAIN frames
    BY <1>1, <2>1, <2>2 DEF Ascending
  <2>3. CASE j = n
    <3>1. frames[i] \in OffersIn(frames)
      BY <1>1, <2>1 DEF OffersIn
    <3> QED
      BY <1>1, <2>1, <2>3, <3>1
  <2> QED
    BY <1>1, <2>2, <2>3
<1> QED
  BY <1>3, <1>4 DEF longer

\* A frame is taken from the wire: an offer is below those behind it.
LEMMA OffersInTail ==
    ASSUME NEW S, NEW frames \in Seq(S), frames # <<>>, Ascending(frames)
    PROVE  /\ OffersIn(frames) =
                 OffersIn(Tail(frames)) \cup (IF Head(frames).kind = "offer" THEN {Head(frames)} ELSE {})
           /\ Head(frames).kind = "offer" =>
                 \A f \in OffersIn(Tail(frames)) : Head(frames).seq < f.seq
           /\ Ascending(Tail(frames))
<1> DEFINE rest == Tail(frames)
<1>1. /\ Head(frames) = frames[1] /\ 1 \in DOMAIN frames /\ Len(frames) \in Nat \ {0}
      /\ DOMAIN frames = 1 .. Len(frames) /\ DOMAIN rest = 1 .. Len(frames) - 1
      /\ \A i \in DOMAIN rest : i + 1 \in DOMAIN frames /\ rest[i] = frames[i + 1]
  BY TailFacts
<1> HIDE DEF rest
<1>2. ASSUME NEW i \in DOMAIN frames, i # 1
      PROVE  i - 1 \in DOMAIN rest /\ rest[i - 1] = frames[i]
  <2>1. i - 1 \in DOMAIN rest /\ (i - 1) + 1 = i
    BY <1>1, <1>2
  <2> QED
    BY <1>1, <2>1
<1>3. OffersIn(frames) = OffersIn(rest) \cup (IF frames[1].kind = "offer" THEN {frames[1]} ELSE {})
  <2>1. ASSUME NEW f \in OffersIn(frames)
        PROVE  f \in OffersIn(rest) \cup (IF frames[1].kind = "offer" THEN {frames[1]} ELSE {})
    <3>1. PICK i \in DOMAIN frames : f = frames[i] /\ frames[i].kind = "offer"
      BY <2>1 DEF OffersIn
    <3>2. CASE i = 1
      BY <3>1, <3>2
    <3>3. CASE i # 1
      BY <1>2, <3>1, <3>3 DEF OffersIn
    <3> QED
      BY <3>2, <3>3
  <2>2. ASSUME NEW f \in OffersIn(rest) PROVE f \in OffersIn(frames)
    BY <1>1, <2>2 DEF OffersIn
  <2>3. frames[1].kind = "offer" => frames[1] \in OffersIn(frames)
    BY <1>1 DEF OffersIn
  <2> QED
    BY <2>1, <2>2, <2>3
<1>4. ASSUME frames[1].kind = "offer", NEW f \in OffersIn(rest) PROVE frames[1].seq < f.seq
  <2>1. PICK i \in DOMAIN rest : f = rest[i] /\ rest[i].kind = "offer"
    BY <1>4 DEF OffersIn
  <2>2. i + 1 \in DOMAIN frames /\ f = frames[i + 1] /\ 1 < i + 1
    BY <1>1, <2>1
  <2> QED
    BY <1>1, <1>4, <2>1, <2>2 DEF Ascending
<1>5. Ascending(rest)
  <2> SUFFICES ASSUME NEW i \in DOMAIN rest, NEW j \in DOMAIN rest,
                      rest[i].kind = "offer", rest[j].kind = "offer", i < j
               PROVE  rest[i].seq < rest[j].seq
    BY DEF Ascending
  <2>1. i + 1 \in DOMAIN frames /\ j + 1 \in DOMAIN frames /\ i + 1 < j + 1
    BY <1>1
  <2> QED
    BY <1>1, <2>1 DEF Ascending
<1> QED
  BY <1>1, <1>3, <1>4, <1>5 DEF rest

-----------------------------------------------------------------------------
(* Replies.                                                                 *)

Messages == [kind : {"accepted", "rejected", "progress", "completed"},
             reported : OperationStates \cup {"none"}]
ReplyTargets == {"Running", "WaitingRemote", "Failed", "Cancelled", "Unknown", "Succeeded"}

\* What the target of a reply says about it.
LEMMA ReplyTargetSound ==
    ASSUME NEW msg \in Messages
    PROVE  /\ ReplyTarget(msg) \in ReplyTargets
           /\ msg.kind \in {"rejected", "completed"} => ReplyTarget(msg) \in TerminalStates
           /\ ReplyTarget(msg) \in {"Succeeded", "Cancelled", "Unknown"} =>
                 msg.kind = "completed" /\ msg.reported = ReplyTarget(msg)
BY DEF Messages, ReplyTarget, ReplyTargets, PersistedStates, TerminalStates

\* Scoring a reply moves a record forward: a finished one stays, a final
\* reply finishes it, and it never finishes in a state nobody reported.
LEMMA ScoringMovesForward ==
    ASSUME NEW s \in PersistedStates \cup TerminalStates, NEW t \in ReplyTargets
    PROVE  /\ ApplyEvents(s, t) \in PersistedStates \cup TerminalStates
           /\ s \in TerminalStates => ApplyEvents(s, t) = s
           /\ t \in TerminalStates => ApplyEvents(s, t) \in TerminalStates
           /\ ApplyEvents(s, t) \in TerminalStates => ApplyEvents(s, t) \in {s, t}
           /\ s = "Running" => ApplyEvents(s, t) # "Queued"
           /\ s = "WaitingRemote" => ApplyEvents(s, t) = "WaitingRemote" \/ t \in TerminalStates
<1>1. /\ Absorb("Queued", "ValidationStarted") = "Validating"
      /\ Absorb("Validating", "ValidationPassed") = "Running"
      /\ Absorb("Queued", "Failed") = "Failed"
      /\ Absorb("Queued", "CancellationRequested") = "Cancelled"
  BY DEF Absorb, transition, Invalid
<1>2. /\ Absorb("Running", "ValidationStarted") = "Running"
      /\ Absorb("Running", "ValidationPassed") = "Running"
      /\ Absorb("Running", "RemoteTaskStarted") = "WaitingRemote"
      /\ Absorb("Running", "RemoteTaskCompleted") = "Running"
      /\ Absorb("Running", "ExecutionAccepted") = "Verifying"
      /\ Absorb("Running", "OutcomeUnknown") = "Unknown"
      /\ Absorb("Running", "Failed") = "Failed"
      /\ Absorb("Running", "CancellationRequested") = "Cancelled"
  BY DEF Absorb, transition, Invalid
<1>3. /\ Absorb("WaitingRemote", "ValidationStarted") = "WaitingRemote"
      /\ Absorb("WaitingRemote", "ValidationPassed") = "WaitingRemote"
      /\ Absorb("WaitingRemote", "RemoteTaskStarted") = "WaitingRemote"
      /\ Absorb("WaitingRemote", "RemoteTaskCompleted") = "Verifying"
      /\ Absorb("WaitingRemote", "OutcomeUnknown") = "Unknown"
      /\ Absorb("WaitingRemote", "Failed") = "Failed"
      /\ Absorb("WaitingRemote", "CancellationRequested") = "Cancelled"
      /\ Absorb("Verifying", "ExecutionAccepted") = "Verifying"
      /\ Absorb("Verifying", "VerificationPassed") = "Succeeded"
  BY DEF Absorb, transition, Invalid
<1>4. CASE s \in TerminalStates
  <2>1. \A e : Absorb(s, e) = s
    BY <1>4 DEF Absorb, transition, Invalid, TerminalStates
  <2>2. Started(s) = s
    BY <2>1 DEF Started
  <2>3. ApplyEvents(s, t) = s
    BY <2>1, <2>2 DEF ApplyEvents, ReplyTargets, PersistedStates, TerminalStates
  <2> QED
    BY <1>4, <2>3 DEF TerminalStates
<1>5. CASE s = "Queued"
  <2>1. Started(s) = "Running"
    BY <1>1, <1>5 DEF Started
  <2> QED
    BY <1>1, <1>2, <1>3, <1>5, <2>1 DEF ApplyEvents, ReplyTargets, PersistedStates, TerminalStates
<1>6. CASE s = "Running"
  <2>1. Started(s) = "Running"
    BY <1>2, <1>6 DEF Started
  <2> QED
    BY <1>2, <1>3, <1>6, <2>1 DEF ApplyEvents, ReplyTargets, PersistedStates, TerminalStates
<1>7. CASE s = "WaitingRemote"
  <2>1. Started(s) = "WaitingRemote"
    BY <1>3, <1>7 DEF Started
  <2> QED
    BY <1>3, <1>7, <2>1 DEF ApplyEvents, ReplyTargets, PersistedStates, TerminalStates
<1> QED
  BY <1>4, <1>5, <1>6, <1>7 DEF PersistedStates

\* Later is what the transition matrix of domain/src/operation.rs makes it:
\* the states reached by one legal event, or by one and then later ones.  So
\* SiteExecute takes the row to any state a run of the scheduler's contract
\* leads to, and to no other.
THEOREM LaterIsReached ==
    ASSUME NEW s \in OperationStates, NEW to \in OperationStates
    PROVE  to \in Later(s) <=>
              \/ LegalStep(s, to)
              \/ \E mid \in OperationStates : LegalStep(s, mid) /\ to \in Later(mid)
<1>1. LegalStep(s, to) => to \in Later(s)
  BY DEF LegalStep, Later, transition, Invalid, OperationEvents, OperationStates, TerminalStates
<1>2. ASSUME NEW mid \in OperationStates, LegalStep(s, mid), to \in Later(mid)
      PROVE  to \in Later(s)
  <2>1. mid \in Later(s)
    BY <1>2 DEF LegalStep, Later, transition, Invalid, OperationEvents, OperationStates,
                TerminalStates
  <2> QED
    BY <1>2, <2>1 DEF Later, OperationStates, TerminalStates
<1>3. ASSUME to \in Later(s), ~LegalStep(s, to)
      PROVE  \E mid \in OperationStates : LegalStep(s, mid) /\ to \in Later(mid)
  <2>1. /\ LegalStep("Queued", "Validating") /\ LegalStep("Validating", "Running")
        /\ LegalStep("Running", "Verifying") /\ LegalStep("WaitingRemote", "Verifying")
        /\ LegalStep("Running", "Unknown") /\ LegalStep("WaitingRemote", "Unknown")
        /\ LegalStep("Running", "WaitingRemote") /\ LegalStep("Verifying", "Succeeded")
        /\ LegalStep("Verifying", "Unknown")
        /\ \A q \in OperationStates \ TerminalStates : LegalStep(q, "Failed")
        /\ \A q \in OperationStates \ (TerminalStates \cup {"Verifying"}) : LegalStep(q, "Cancelled")
    BY DEF LegalStep, transition, OperationEvents, OperationStates, TerminalStates
  <2>2. CASE s = "Queued"
    BY <1>3, <2>1, <2>2 DEF Later, OperationStates, TerminalStates
  <2>3. CASE s = "Validating"
    BY <1>3, <2>1, <2>3 DEF Later, OperationStates, TerminalStates
  <2>4. CASE s = "Running"
    BY <1>3, <2>1, <2>4 DEF Later, OperationStates, TerminalStates
  <2>5. CASE s = "WaitingRemote"
    BY <1>3, <2>1, <2>5 DEF Later, OperationStates, TerminalStates
  <2>6. CASE s \in TerminalStates \cup {"Verifying"}
    BY <1>3, <2>1, <2>6 DEF Later, OperationStates, TerminalStates
  <2> QED
    BY <2>2, <2>3, <2>4, <2>5, <2>6 DEF OperationStates
<1> QED
  BY <1>1, <1>2, <1>3
==============================================================================
