----------------------------- MODULE StreamProofs -----------------------------
(***************************************************************************)
(* Proofs about the distribution of artifacts, for any number of artifacts *)
(* and chunks, any window of the clean-up, any rows of other reports, and  *)
(* any damaged files, stalls and faults.                                   *)
(***************************************************************************)
EXTENDS ArtifactStream, NumberLemmas, SequenceTheorems

-----------------------------------------------------------------------------
(* The inductive invariant.                                                *)

Rows == [seq : Nat \ {0}, art : Artifacts \cup {Other}, chunk : 0 .. Chunks, ok : BOOLEAN]
WorkPcs == {"clean", "manifest", "chunk", "retire"}
SitePcs == {"down", "report", "list", "save", "flush", "up"} \cup WorkPcs
CenterPcs == {"receive", "write", "count", "advance", "ack"}

SiteTypes ==
    /\ phase \in [Artifacts -> Phases]
    /\ disk \in [Artifacts -> {"intact", "missing", "wrong"}]
    /\ cursor \in Artifacts \cup {0} /\ newest \in Artifacts \cup {0}
    /\ box \subseteq Rows /\ nextSeq \in Nat \ {0}
    /\ spc \in SitePcs
    /\ todo \subseteq Artifacts /\ part \in 1 .. Chunks + 1 /\ digestOk \in BOOLEAN
    /\ began \in Nat

CenterTypes ==
    /\ cphase \in [Artifacts -> Phases]
    /\ chave \in [Artifacts -> 0 .. Chunks]
    /\ cfile \in [Artifacts -> Seq(BOOLEAN)]
    /\ ccursor \in Nat
    /\ cpc \in CenterPcs

Types == SiteTypes /\ CenterTypes

\* The outbox numbers its rows as they are queued.
Numbered ==
    /\ ccursor < nextSeq /\ began <= nextSeq
    /\ \A r \in box : r.seq < nextSeq
    /\ \A r, s \in box : r.seq = s.seq => r = s
    /\ \A r \in box : r.art = Other => r.ok

\* A round works on what the listing found and has not passed yet, and has
\* queued the artifact in hand up to the part it is at, in the order of the
\* file.  Older rows of the same artifact may be pending too.
Round ==
    /\ spc \in WorkPcs => todo # {}
    /\ spc = "save" => todo = {}
    /\ \A a \in todo : phase[a] = "ready" /\ a > cursor
    /\ spc = "chunk" =>
          /\ \A r \in Ledger : r.chunk < part
          /\ \A r, s \in Ledger : r.seq < s.seq => r.chunk < s.chunk
          /\ \A c \in 0 .. part - 1 : \E r \in Ledger : r.chunk = c /\ r.seq > ccursor

\* The center works only on a connection that was flushed, on rows that are
\* still in the outbox, and has processed the ones before.
Busy == wire # {} \/ cpc # "receive"
Exchange ==
    /\ spc \notin {"up", "down"} => ~Busy
    /\ wire \subseteq box
    /\ cpc # "receive" => got \in box /\ \A w \in wire : got.seq < w.seq
    /\ Busy => \A r \in box \ wire : r.seq <= ccursor \/ (cpc # "receive" /\ r = got)
    /\ cpc \in {"write", "count", "advance"} => got.seq > ccursor /\ got.art \in Artifacts
    /\ cpc = "ack" => got.seq <= ccursor

Control == Types /\ Numbered /\ Round /\ Exchange

-----------------------------------------------------------------------------
(* Wrong bytes: the rows of a damaged file are past the cursor, so the next *)
(* round comes to them and retires them, unless its scan does not reach     *)
(* them; what goes on the wire nevertheless is in left or hidden.           *)

Excepted == left \cup hidden

WrongIsAhead ==
    \A r \in box : ~r.ok /\ r.art \notin hidden =>
        /\ phase[r.art] = "ready" /\ r.art > cursor
        /\ spc \in WorkPcs \cup {"save", "flush"} => r.art \in todo
        /\ spc = "manifest" \/ (spc = "flush" /\ todo # {}) => r.art # Current
        /\ spc \in {"chunk", "retire"} /\ r.art = Current => r \in Ledger
        /\ spc = "chunk" /\ r.art = Current => ~digestOk

WrongIsLeft ==
    /\ \A r \in wire : r.ok \/ r.art \in Excepted
    /\ cpc # "receive" => got.ok \/ got.art \in Excepted

\* The center's row and file, and what it is about to count.
FileIsCounted ==
    \A a \in Artifacts :
        /\ Len(cfile[a]) \in {chave[a], chave[a] + 1}
        /\ a \notin Excepted => \A i \in 1 .. chave[a] : cfile[a][i] = TRUE
        /\ cphase[a] \in Terminal <=> chave[a] = Chunks
        /\ cphase[a] = "none" => chave[a] = 0

CountIsNext ==
    cpc = "count" =>
        /\ cphase[got.art] = "uploading" /\ got.chunk = chave[got.art] + 1
        /\ Len(cfile[got.art]) = got.chunk /\ cfile[got.art][got.chunk] = got.ok

Files == WrongIsAhead /\ WrongIsLeft /\ FileIsCounted /\ CountIsNext /\ CenterRefusesOnlyLeftovers

-----------------------------------------------------------------------------
(* Nothing is skipped: what the center still needs of an artifact that the  *)
(* cursor or the round has passed is pending and not processed.  The rows   *)
(* that supply it are those of one round, from some sequence on; older rows *)
(* of the artifact may come before, in any order.                           *)

From(a, m) == {r \in Of(a) : r.seq >= m}
Needed(a, m, c) == \E r \in From(a, m) : r.chunk = c /\ r.seq > ccursor

Ordered(a, m) == \A r, s \in From(a, m) : r.seq < s.seq => r.chunk < s.chunk
Pending(a, m) ==
    /\ cphase[a] = "none" => Needed(a, m, 0)
    /\ \A c \in chave[a] + 1 .. Chunks : Needed(a, m, c)
Taken(a, m) ==
    cpc = "advance" /\ got.art = a /\ got.seq >= m =>
        cphase[a] # "none" /\ got.chunk <= chave[a]

SuppliedFrom(a, m) == Ordered(a, m) /\ Pending(a, m) /\ Taken(a, m)

Passed(a) ==
    \/ phase[a] = "ready" /\ a <= cursor /\ a \notin late
    \/ spc \in WorkPcs \cup {"save"} /\ a \in listed \ todo

Supply == \A a \in Artifacts : Passed(a) => \E m \in Nat : SuppliedFrom(a, m)

IInv == Control /\ Files /\ Supply

-----------------------------------------------------------------------------
(* Lemmas about the operators.                                             *)

LEMMA ArtifactNumbers ==
    Artifacts \subseteq Nat \ {0} /\ \A n \in Artifacts : 1 .. n \subseteq Artifacts
<1>1. Cardinality(Artifacts) \in Nat
  BY ArtifactsAssumption, FS_CardinalityType
<1> DEFINE N == Cardinality(Artifacts)
<1>2. Artifacts = 1 .. N
  BY ArtifactsAssumption
<1> HIDE DEF N
<1> QED
  BY <1>1, <1>2 DEF N

LEMMA OtherIsNone == Other \notin Artifacts
BY ArtifactNumbers DEF Other

LEMMA ChunkNumber == Chunks \in Nat \ {0}
BY StreamAssumption

\* The artifact in hand is the first of those still to distribute.
LEMMA CurrentIsFirst ==
    ASSUME todo \subseteq Artifacts, todo # {}
    PROVE  Current \in todo /\ \A a \in todo : Current <= a
<1>1. todo \in SUBSET Nat
  BY ArtifactNumbers
<1> QED
  BY <1>1, MinProperties DEF Current

\* A set of rows that is not empty has an oldest one.
LEMMA OldestIsIn ==
    ASSUME NEW rows \in SUBSET Rows, rows # {}
    PROVE  Oldest(rows) \in rows /\ \A s \in rows : Oldest(rows).seq <= s.seq
<1> DEFINE T == {r.seq : r \in rows}
<1>1. T \in SUBSET Nat /\ T # {}
  BY DEF Rows
<1>2. PICK n \in T : \A m \in T : n <= m
  <2> HIDE DEF T
  <2> QED
    BY <1>1, LeastNumber
<1>3. PICK r \in rows : r.seq = n
  BY <1>2
<1>4. \A s \in rows : r.seq <= s.seq
  BY <1>2, <1>3
<1> QED
  BY <1>3, <1>4 DEF Oldest

\* A chunk written at or right behind the end of the file.
LEMMA WriteAtEndOfFile ==
    ASSUME NEW S, NEW f \in Seq(S), NEW i \in Nat \ {0}, NEW ok \in S,
           Len(f) = i \/ Len(f) = i - 1
    PROVE  /\ WriteAt(f, i, ok) \in Seq(S)
           /\ Len(WriteAt(f, i, ok)) = i
           /\ WriteAt(f, i, ok)[i] = ok
           /\ \A j \in 1 .. i - 1 : WriteAt(f, i, ok)[j] = f[j]
<1> DEFINE g == [j \in 1 .. i |-> IF j = i THEN ok ELSE f[j]]
<1>1. Len(f) \in Nat
  OBVIOUS
<1>2. WriteAt(f, i, ok) = g
  BY <1>1 DEF WriteAt
<1>3. \A j \in 1 .. i : j # i => f[j] \in S
  BY ElementOfSeq
<1>4. g \in [1 .. i -> S]
  BY <1>3
<1>5. g \in Seq(S) /\ Len(g) = i
  BY <1>4, IsASeq
<1> QED
  BY <1>2, <1>5

-----------------------------------------------------------------------------
(* Types, numbers, rounds and the exchange.                                *)

LEMMA ControlInit == StreamInit => Control
<1> SUFFICES ASSUME StreamInit PROVE Control
  OBVIOUS
<1>1. <<>> \in Seq(BOOLEAN)
  OBVIOUS
<1> QED
  BY <1>1, ChunkNumber, ArtifactNumbers
  DEF StreamInit, Control, Types, SiteTypes, CenterTypes, Numbered, Round, Exchange, Busy,
      Phases, SitePcs, CenterPcs, WorkPcs

\* Steps that change neither the outbox nor the exchange.
LEMMA UploadControl ==
    ASSUME Control, NEW a \in Artifacts, BecomeReady(a) \/ Damage(a) \/ Restore(a)
    PROVE  Control'
<1> USE DEF Control, siteVars, centerVars, used, artifactVars, history
<1>1. Types'
  BY DEF Types, SiteTypes, CenterTypes, BecomeReady, MarkReady, Damage, Restore, Phases, Terminal
<1>2. Numbered' /\ Exchange'
  BY DEF Numbered, Exchange, Busy, BecomeReady, MarkReady, Damage, Restore
<1>3. Ledger' = Ledger /\ todo' = todo /\ cursor' = cursor /\ spc' = spc
      /\ part' = part /\ ccursor' = ccursor
  BY DEF Ledger, Of, Current, BecomeReady, Damage, Restore
<1>4. \A b \in Artifacts : phase[b] = "ready" => phase'[b] = "ready"
  BY DEF BecomeReady, MarkReady, Damage, Restore, Types, SiteTypes
<1>5. Round'
  BY <1>3, <1>4 DEF Round, Types, SiteTypes
<1> QED
  BY <1>1, <1>2, <1>5

\* The engine ends: the outbox and what the center has in hand stay.
LEMMA DownControl ==
    ASSUME Control, Down, UNCHANGED <<artifactVars, disk>>,
           \/ UNCHANGED <<cphase, chave, cfile, ccursor, cpc, got, wire>>
           \/ /\ cpc' = "receive" /\ wire' = {}
              /\ UNCHANGED <<cphase, chave, cfile, ccursor>>
    PROVE  Control'
<1> USE DEF Control, Down, artifactVars
<1>1. Types'
  BY ChunkNumber DEF Types, SiteTypes, CenterTypes, SitePcs, CenterPcs
<1>2. Numbered'
  BY DEF Numbered, Types, SiteTypes
<1>3. Round'
  BY DEF Round, WorkPcs
<1>4. Exchange'
  BY DEF Exchange, Busy
<1> QED
  BY <1>1, <1>2, <1>3, <1>4

LEMMA ConnectControl ==
    ASSUME Control, Connect PROVE Control'
<1> USE DEF Control, Connect, artifactVars
<1>1. Types'
  BY DEF Types, SiteTypes, CenterTypes, SitePcs
<1>2. Numbered'
  BY DEF Numbered
<1>3. Round'
  BY DEF Round, WorkPcs
<1>4. Exchange'
  BY DEF Exchange, Busy
<1> QED
  BY <1>1, <1>2, <1>3, <1>4

\* The rows of the other reports are numbered behind all that are pending.
LEMMA ReportControl ==
    ASSUME Control, Report PROVE Control'
<1> USE DEF Control, artifactVars, centerVars, siteFrame
<1>0. /\ box \subseteq Rows /\ ~Busy /\ nextSeq \in Nat \ {0} /\ ccursor \in Nat
      /\ ccursor < nextSeq /\ began \in Nat /\ began <= nextSeq
  BY DEF Report, Types, SiteTypes, CenterTypes, Exchange, Numbered
<1>1. PICK n \in Nat :
        /\ box' = box \cup {Row(q, Other, 0, TRUE) : q \in nextSeq .. nextSeq + n - 1}
        /\ nextSeq' = nextSeq + n
  BY StreamAssumption DEF Report
<1> DEFINE fresh == {Row(q, Other, 0, TRUE) : q \in nextSeq .. nextSeq + n - 1}
<1>2. /\ fresh \subseteq Rows
      /\ \A r \in fresh : r.seq \in nextSeq .. nextSeq + n - 1 /\ r.ok
      /\ \A r, t \in fresh : r.seq = t.seq => r = t
  <2>1. ASSUME NEW q \in nextSeq .. nextSeq + n - 1
        PROVE  /\ Row(q, Other, 0, TRUE) \in Rows
               /\ Row(q, Other, 0, TRUE).seq = q /\ Row(q, Other, 0, TRUE).ok
    BY <1>0, ChunkNumber DEF Row, Rows
  <2>2. \A r \in fresh : \E q \in nextSeq .. nextSeq + n - 1 : r = Row(q, Other, 0, TRUE)
    OBVIOUS
  <2> HIDE DEF fresh
  <2>3. fresh \subseteq Rows /\ \A r \in fresh : r.seq \in nextSeq .. nextSeq + n - 1 /\ r.ok
    BY <2>1, <2>2
  <2>4. \A r \in fresh : r = Row(r.seq, Other, 0, TRUE)
    BY <2>1, <2>2
  <2>5. \A r, t \in fresh : r.seq = t.seq => r = t
    BY <2>4
  <2> QED
    BY <2>3, <2>5
<1>3. box' = box \cup fresh /\ nextSeq' = nextSeq + n
  BY <1>1
<1> HIDE DEF fresh
<1>4. Types'
  <2>1. nextSeq' \in Nat \ {0} /\ box' \subseteq Rows
    BY <1>0, <1>2, <1>3
  <2> QED
    BY <2>1 DEF Types, SiteTypes, CenterTypes, SitePcs, Report
<1>5. Numbered'
  <2>1. \A r \in box : r.seq \in Nat /\ r.seq < nextSeq
    BY <1>0 DEF Numbered, Rows
  <2>2. \A r \in fresh : r.seq \in Nat /\ r.seq >= nextSeq /\ r.seq < nextSeq + n
    BY <1>0, <1>2
  <2>3. UNCHANGED <<ccursor, began>>
    BY DEF Report
  <2>4. \A r \in box' : r.seq < nextSeq' /\ (r.art = Other => r.ok)
    BY <1>0, <1>2, <1>3, <2>1, <2>2 DEF Numbered
  <2>5. \A r, t \in box' : r.seq = t.seq => r = t
    BY <1>0, <1>2, <1>3, <2>1, <2>2 DEF Numbered
  <2> QED
    BY <1>0, <1>3, <2>3, <2>4, <2>5 DEF Numbered
<1>6. Round'
  BY DEF Round, WorkPcs, Report
<1>7. Exchange'
  BY <1>0, <1>3 DEF Exchange, Busy, Report
<1> QED
  BY <1>4, <1>5, <1>6, <1>7

LEMMA ListControl ==
    ASSUME Control, List PROVE Control'
<1> USE DEF Control, List, artifactVars, centerVars
<1>1. Types'
  BY ArtifactNumbers DEF Types, SiteTypes, CenterTypes, SitePcs, WorkPcs, PastCursor
<1>2. Numbered'
  BY DEF Numbered
<1>3. Round'
  BY DEF Round, WorkPcs, PastCursor
<1>4. Exchange'
  BY DEF Exchange, Busy
<1> QED
  BY <1>1, <1>2, <1>3, <1>4

LEMMA SaveControl ==
    ASSUME Control, SaveCursor PROVE Control'
<1> USE DEF Control, SaveCursor, artifactVars, centerVars
<1>1. Types'
  BY DEF Types, SiteTypes, CenterTypes, SitePcs
<1>2. Numbered'
  BY DEF Numbered
<1>3. Round'
  BY DEF Round, WorkPcs
<1>4. Exchange'
  BY DEF Exchange, Busy
<1> QED
  BY <1>1, <1>2, <1>3, <1>4

LEMMA FlushControl ==
    ASSUME Control, Flush PROVE Control'
<1> USE DEF Control, Flush, artifactVars
<1>1. Types'
  BY DEF Types, SiteTypes, CenterTypes, SitePcs
<1>2. Numbered'
  BY DEF Numbered
<1>3. Round'
  BY DEF Round, WorkPcs
<1>4. Exchange'
  BY DEF Exchange, Busy
<1> QED
  BY <1>1, <1>2, <1>3, <1>4

\* One row of the artifact in hand is retired, or none is left.
LEMMA DropControl ==
    ASSUME Control, Clean \/ RetireRefused PROVE Control'
<1> USE DEF Control, artifactVars, centerVars, siteFrame
<1>0. todo # {} /\ todo \subseteq Artifacts /\ box \subseteq Rows /\ ~Busy
  BY DEF Clean, RetireRefused, Round, WorkPcs, Types, SiteTypes, Exchange
<1>1. box' \subseteq box /\ UNCHANGED <<ccursor, cpc, got, wire, nextSeq, todo, began, cursor,
                                      phase>>
  BY DEF Clean, RetireRefused
<1>2. Types'
  BY <1>1 DEF Types, SiteTypes, CenterTypes, SitePcs, WorkPcs, Clean, RetireRefused
<1>3. Numbered'
  BY <1>1 DEF Numbered
<1>4. Round'
  <2>1. spc' \in {"clean", "manifest", "retire", "flush"}
    BY DEF Clean, RetireRefused
  <2> QED
    BY <1>0, <1>1, <2>1 DEF Round
<1>5. Exchange'
  BY <1>0, <1>1 DEF Exchange, Busy, Clean, RetireRefused
<1> QED
  BY <1>2, <1>3, <1>4, <1>5

LEMMA ManifestControl ==
    ASSUME Control, EnqueueManifest PROVE Control'
<1> USE DEF Control, artifactVars, centerVars, siteFrame
<1> DEFINE row == Row(nextSeq, Current, 0, TRUE)
<1>0. /\ todo # {} /\ todo \subseteq Artifacts /\ box \subseteq Rows /\ ~Busy
      /\ nextSeq \in Nat \ {0} /\ ccursor \in Nat /\ ccursor < nextSeq
      /\ spc = "manifest"
  BY DEF EnqueueManifest, Round, WorkPcs, Types, SiteTypes, CenterTypes, Exchange, Numbered
<1>1. UNCHANGED <<ccursor, cpc, got, wire, todo, cursor, phase>> /\ part' = 1
      /\ Current' = Current /\ began' = nextSeq
  BY DEF EnqueueManifest, Current
<1>2. row \in Rows /\ row.seq = nextSeq /\ row.art = Current /\ row.chunk = 0 /\ row.ok
  BY <1>0, CurrentIsFirst, ChunkNumber DEF Row, Rows
<1>3. \/ box' = box /\ nextSeq' = nextSeq /\ spc' = "flush"
      \/ box' = box \cup {row} /\ nextSeq' = nextSeq + 1 /\ spc' = "chunk"
  BY DEF EnqueueManifest, Enqueue
<1> HIDE DEF row
<1>4. Types'
  BY <1>0, <1>1, <1>2, <1>3, ChunkNumber DEF Types, SiteTypes, CenterTypes, SitePcs, WorkPcs, EnqueueManifest
<1>5. Numbered'
  <2>1. \A r \in box : r.seq < nextSeq /\ r.seq \in Nat
    BY <1>0 DEF Numbered, Rows
  <2> QED
    BY <1>0, <1>1, <1>2, <1>3, <2>1 DEF Numbered
<1>6. Round'
  <2>1. CASE spc' = "flush"
    BY <1>0, <1>1, <1>3, <2>1 DEF Round, WorkPcs, Of
  <2>2. CASE spc' = "chunk"
    <3>0. \A r \in box : r.seq < nextSeq /\ r.seq \in Nat
      BY <1>0 DEF Numbered, Rows
    <3>1. Ledger' = {row}
      BY <1>0, <1>1, <1>2, <1>3, <2>2, <3>0 DEF Of, Ledger
    <3> QED
      BY <1>0, <1>1, <1>2, <2>2, <3>1 DEF Round, WorkPcs
  <2> QED
    BY <1>3, <2>1, <2>2
<1>7. Exchange'
  BY <1>0, <1>1, <1>3 DEF Exchange, Busy
<1> QED
  BY <1>4, <1>5, <1>6, <1>7

LEMMA ChunkControl ==
    ASSUME Control, EnqueueChunk PROVE Control'
<1> USE DEF Control, artifactVars, centerVars, siteFrame
<1> DEFINE row == Row(nextSeq, Current, part, disk[Current] # "wrong")
<1>0. /\ todo # {} /\ todo \subseteq Artifacts /\ box \subseteq Rows /\ ~Busy
      /\ nextSeq \in Nat \ {0} /\ ccursor \in Nat /\ ccursor < nextSeq
      /\ spc = "chunk" /\ part \in 1 .. Chunks + 1 /\ began \in Nat /\ began <= nextSeq
  BY DEF EnqueueChunk, Round, WorkPcs, Types, SiteTypes, CenterTypes, Exchange, Numbered
<1>1. UNCHANGED <<ccursor, cpc, got, wire, cursor, phase, began>>
  BY DEF EnqueueChunk
<1>2. Current \in todo
  BY <1>0, CurrentIsFirst
<1>3. CASE part <= Chunks
  <2>1. /\ box' = box \cup {row} /\ nextSeq' = nextSeq + 1 /\ part' = part + 1
        /\ digestOk' \in BOOLEAN /\ UNCHANGED <<spc, todo, newest>> /\ Current' = Current
    BY <1>3 DEF EnqueueChunk, Enqueue, Current
  <2>2. row \in Rows /\ row.seq = nextSeq /\ row.art = Current /\ row.chunk = part
    BY <1>0, <1>2, <1>3, ChunkNumber DEF Row, Rows
  <2> HIDE DEF row
  <2>3. Types'
    BY <1>0, <1>1, <1>3, <2>1, <2>2, ChunkNumber
    DEF Types, SiteTypes, CenterTypes, EnqueueChunk
  <2>4. Numbered'
    <3>1. \A r \in box : r.seq < nextSeq /\ r.seq \in Nat
      BY <1>0 DEF Numbered, Rows
    <3>2. row.art # Other
      BY <1>0, <1>2, <2>2, OtherIsNone
    <3> QED
      BY <1>0, <1>1, <2>1, <2>2, <3>1, <3>2 DEF Numbered
  <2>5. Round'
    <3>1. Ledger' = Ledger \cup {row}
      BY <1>0, <1>1, <2>1, <2>2 DEF Of, Ledger
    <3>2. /\ \A r \in Ledger' : r.chunk < part + 1
          /\ \A r, t \in Ledger' : r.seq < t.seq => r.chunk < t.chunk
      <4>1. \A r \in Ledger : /\ r.chunk < part /\ r.chunk \in Nat
                              /\ r.seq < nextSeq /\ r.seq \in Nat
        BY <1>0, ChunkNumber DEF Round, Ledger, Of, Rows, Numbered
      <4>2. \A r, t \in Ledger : r.seq < t.seq => r.chunk < t.chunk
        BY <1>0 DEF Round
      <4> QED
        BY <1>0, <2>2, <3>1, <4>1, <4>2
    <3>3. \A c \in 0 .. part : \E r \in Ledger' : r.chunk = c /\ r.seq > ccursor
      <4> SUFFICES ASSUME NEW c \in 0 .. part
                   PROVE  \E r \in Ledger' : r.chunk = c /\ r.seq > ccursor
        OBVIOUS
      <4>1. CASE c = part
        BY <1>0, <2>2, <3>1, <4>1
      <4>2. CASE c # part
        <5>1. c \in 0 .. part - 1
          BY <1>0, <4>2, ChunkNumber
        <5> QED
          BY <1>0, <3>1, <5>1 DEF Round
      <4> QED
        BY <4>1, <4>2
    <3>4. part' - 1 = part
      BY <1>0, <2>1, ChunkNumber
    <3> QED
      BY <1>0, <1>1, <2>1, <3>2, <3>3, <3>4 DEF Round, WorkPcs
  <2>6. Exchange'
    BY <1>0, <1>1, <2>1 DEF Exchange, Busy
  <2> QED
    BY <2>3, <2>4, <2>5, <2>6
<1>4. CASE ~(part <= Chunks)
  <2>1. /\ UNCHANGED <<box, nextSeq, part, digestOk>>
        /\ \/ newest' = Current /\ todo' = todo \ {Current}
              /\ spc' = IF todo = {Current} THEN "save" ELSE "clean"
           \/ spc' = "retire" /\ UNCHANGED <<todo, newest>>
    BY <1>4 DEF EnqueueChunk
  <2>2. Types'
    BY <1>0, <1>1, <1>2, <2>1 DEF Types, SiteTypes, CenterTypes, EnqueueChunk, SitePcs, WorkPcs
  <2>3. Numbered' /\ Exchange'
    BY <1>0, <1>1, <2>1 DEF Numbered, Exchange, Busy
  <2>4. Round'
    BY <1>0, <1>1, <2>1 DEF Round, WorkPcs
  <2> QED
    BY <2>2, <2>3, <2>4
<1> QED
  BY <1>3, <1>4

LEMMA ReceiveControl ==
    ASSUME Control, Receive PROVE Control'
<1> USE DEF Control, artifactVars, siteVars, centerFrame
<1>0. wire \in SUBSET Rows /\ wire # {} /\ wire \subseteq box /\ ccursor \in Nat
  BY DEF Receive, Exchange, Types, SiteTypes, CenterTypes
<1> DEFINE row == Oldest(wire)
<1>1. row \in wire /\ \A w \in wire : row.seq <= w.seq
  BY <1>0, OldestIsIn
<1>2. /\ got' = row /\ wire' = wire \ {row} /\ cpc' \in {"ack", "write"}
      /\ cpc' = "write" <=> row.seq > ccursor /\ row.art # Other
      /\ ccursor' = IF row.seq > ccursor /\ row.art = Other THEN row.seq ELSE ccursor
      /\ UNCHANGED <<box, spc, siteVars, phase, disk, cphase, chave, cfile>>
  <2>1. row.seq \in Nat
    BY <1>0, <1>1 DEF Rows
  <2> QED
    BY <1>0, <2>1 DEF Receive
<1>3. row \in Rows /\ row.seq \in Nat /\ row \in box /\ spc \in {"up", "down"}
      /\ nextSeq \in Nat /\ ccursor' \in Nat /\ ccursor <= ccursor'
  BY <1>0, <1>1, <1>2 DEF Rows, Exchange, Busy, Types, SiteTypes, Receive
<1> HIDE DEF row
<1>4. Types'
  BY <1>2, <1>3 DEF Types, SiteTypes, CenterTypes, CenterPcs
<1>5. Numbered'
  BY <1>2, <1>3 DEF Numbered
<1>6. Round'
  BY <1>2, <1>3 DEF Round, WorkPcs
<1>7. Exchange'
  <2>1. \A w \in wire' : row.seq < w.seq
    <3> SUFFICES ASSUME NEW w \in wire, w # row PROVE row.seq < w.seq
      BY <1>2
    <3>1. row.seq \in Nat /\ w.seq \in Nat /\ row.seq # w.seq
      BY <1>0, <1>1 DEF Numbered, Rows
    <3> QED
      BY <1>1, <3>1
  <2>2. \A r \in box \ wire' : r.seq <= ccursor' \/ r = row
    <3>1. \A r \in box \ wire' : r.seq <= ccursor \/ r = row
      BY <1>0, <1>2 DEF Exchange, Busy, Receive
    <3>2. \A r \in box : r.seq \in Nat
      BY DEF Types, SiteTypes, Rows
    <3> QED
      BY <1>0, <1>3, <3>1, <3>2
  <2>3. cpc' = "ack" => row.seq <= ccursor'
    BY <1>0, <1>2, <1>3
  <2>4. cpc' = "write" => row.seq > ccursor' /\ row.art \in Artifacts
    BY <1>2, <1>3 DEF Rows
  <2> QED
    BY <1>0, <1>1, <1>2, <1>3, <2>1, <2>2, <2>3, <2>4 DEF Exchange, Busy
<1> QED
  BY <1>4, <1>5, <1>6, <1>7

LEMMA WriteControl ==
    ASSUME Control, Files, Write PROVE Control'
<1> USE DEF Control, artifactVars, siteVars, centerFrame
<1>0. got \in Rows /\ cpc = "write" /\ got.art \in Artifacts
  BY DEF Exchange, Write, Types, SiteTypes
<1>1. UNCHANGED <<chave, ccursor, got, wire, siteVars, phase, disk>> /\ cpc' \in {"count", "advance"}
  BY DEF Write
<1>2. Types'
  <2>1. cphase' \in [Artifacts -> Phases]
    BY <1>0 DEF Write, Types, CenterTypes, Phases
  <2>2. cfile' \in [Artifacts -> Seq(BOOLEAN)]
    <3>1. CASE cfile' = cfile
      BY <3>1 DEF Types, CenterTypes
    <3>2. CASE /\ got.chunk = chave[got.art] + 1
               /\ cfile' = [cfile EXCEPT ![got.art] = WriteAt(@, got.chunk, got.ok)]
      <4>1. /\ cfile[got.art] \in Seq(BOOLEAN) /\ got.chunk \in Nat \ {0} /\ got.ok \in BOOLEAN
            /\ Len(cfile[got.art]) = got.chunk \/ Len(cfile[got.art]) = got.chunk - 1
        BY <1>0, <3>2, ChunkNumber DEF Rows, Types, CenterTypes, Files, FileIsCounted
      <4>2. WriteAt(cfile[got.art], got.chunk, got.ok) \in Seq(BOOLEAN)
        BY <4>1, WriteAtEndOfFile
      <4> QED
        BY <3>2, <4>2 DEF Types, CenterTypes
    <3> QED
      BY <3>1, <3>2 DEF Write
  <2> QED
    BY <1>1, <2>1, <2>2 DEF Types, SiteTypes, CenterTypes, CenterPcs
<1>3. Numbered'
  BY <1>1 DEF Numbered
<1>4. Round'
  BY <1>1 DEF Round, Ledger, Of, Current
<1>5. Exchange'
  BY <1>0, <1>1 DEF Exchange, Busy
<1> QED
  BY <1>2, <1>3, <1>4, <1>5

LEMMA CountControl ==
    ASSUME Control, Count PROVE Control'
<1> USE DEF Control, artifactVars, siteVars, centerFrame
<1>0. got \in Rows /\ cpc = "count" /\ got.art \in Artifacts
  BY DEF Exchange, Count, Types, SiteTypes
<1>1. UNCHANGED <<cfile, ccursor, got, wire, siteVars, phase, disk>> /\ cpc' = "advance"
  BY DEF Count
<1>2. Types'
  <2>1. cphase' \in [Artifacts -> Phases] /\ chave' \in [Artifacts -> 0 .. Chunks]
    BY <1>0 DEF Count, Types, CenterTypes, Phases, Terminal, Rows
  <2> QED
    BY <1>1, <2>1 DEF Types, SiteTypes, CenterTypes, CenterPcs
<1>3. Numbered'
  BY <1>1 DEF Numbered
<1>4. Round'
  BY <1>1 DEF Round, Ledger, Of, Current
<1>5. Exchange'
  BY <1>0, <1>1 DEF Exchange, Busy
<1> QED
  BY <1>2, <1>3, <1>4, <1>5

LEMMA AdvanceControl ==
    ASSUME Control, AdvanceCursor PROVE Control'
<1> USE DEF Control, artifactVars, siteVars, centerFrame
<1>0. /\ got \in Rows /\ got \in box /\ cpc = "advance" /\ box \subseteq Rows /\ ccursor \in Nat
      /\ got.seq > ccursor /\ got.art \in Artifacts /\ spc \in {"up", "down"}
  BY DEF Exchange, AdvanceCursor, Types, SiteTypes, CenterTypes, Busy
<1>1. /\ UNCHANGED <<cphase, chave, cfile, got, wire, siteVars, phase, disk>>
      /\ cpc' = "ack" /\ ccursor' = got.seq
  BY DEF AdvanceCursor
<1>2. Types'
  BY <1>0, <1>1 DEF Types, SiteTypes, CenterTypes, CenterPcs, Rows
<1>3. Numbered'
  BY <1>0, <1>1 DEF Numbered
<1>4. Round'
  BY <1>0, <1>1 DEF Round, WorkPcs
<1>5. Exchange'
  <2>1. got.seq \in Nat /\ \A r \in box : r.seq \in Nat
    BY <1>0 DEF Rows
  <2> QED
    BY <1>0, <1>1, <2>1 DEF Exchange, Busy
<1> QED
  BY <1>2, <1>3, <1>4, <1>5

LEMMA AckControl ==
    ASSUME Control, Ack PROVE Control'
<1> USE DEF Control, artifactVars, history, used
<1>0. /\ got \in Rows /\ cpc = "ack" /\ box \subseteq Rows /\ ccursor \in Nat
      /\ got.seq <= ccursor /\ spc \in {"up", "down"}
  BY DEF Exchange, Ack, Types, SiteTypes, CenterTypes, Busy
<1>1. /\ UNCHANGED <<cphase, chave, cfile, ccursor, wire, cursor, nextSeq, spc, todo, part, began,
                     digestOk, newest, phase, disk>>
      /\ cpc' = "receive" /\ box' \in {box, {r \in box : r.seq > got.seq}}
  BY DEF Ack
<1>2. box' \subseteq box
  BY <1>1
<1>3. Types'
  BY <1>1, <1>2 DEF Types, SiteTypes, CenterTypes, CenterPcs
<1>4. Numbered'
  BY <1>1, <1>2 DEF Numbered
<1>5. Round'
  BY <1>0, <1>1 DEF Round, WorkPcs
<1>6. Exchange'
  <2>1. wire \subseteq box'
    BY <1>0, <1>1 DEF Exchange
  <2> QED
    BY <1>0, <1>1, <1>2, <2>1 DEF Exchange, Busy
<1> QED
  BY <1>3, <1>4, <1>5, <1>6

LEMMA ControlStep == Control /\ Files /\ [StreamNext]_vars => Control'
<1> SUFFICES ASSUME Control, Files, [StreamNext]_vars PROVE Control'
  OBVIOUS
<1> USE DEF siteVars, centerVars, artifactVars, siteFrame
<1>1. CASE \E a \in Artifacts : BecomeReady(a) \/ Damage(a) \/ Restore(a)
  BY <1>1, UploadControl
<1>2. CASE EndStalled \/ EndQuiet \/ SiteStops
  <2>1. Down /\ UNCHANGED <<artifactVars, disk>>
        /\ UNCHANGED <<cphase, chave, cfile, ccursor, cpc, got, wire>>
    BY <1>2 DEF EndStalled, EndQuiet, SiteStops
  <2> QED
    BY <2>1, DownControl
<1>3. CASE CenterStops
  <2>1. CASE spc = "up"
    BY <1>3, <2>1, DownControl DEF CenterStops
  <2>2. CASE spc # "up"
    <3>1. /\ UNCHANGED <<siteVars, cphase, chave, cfile, ccursor, artifactVars, disk>>
          /\ cpc' = "receive" /\ wire' = {}
      BY <1>3, <2>2 DEF CenterStops
    <3>2. Types' /\ Numbered'
      BY <3>1 DEF Control, Types, SiteTypes, CenterTypes, Numbered, CenterPcs
    <3>3. Round'
      BY <3>1 DEF Control, Round, Ledger, Of, Current
    <3>4. Exchange'
      BY <3>1 DEF Control, Exchange, Busy
    <3> QED
      BY <3>2, <3>3, <3>4 DEF Control
  <2> QED
    BY <2>1, <2>2
<1>4. CASE UNCHANGED vars
  <2>1. Types' /\ Numbered'
    BY <1>4 DEF Control, Types, SiteTypes, CenterTypes, Numbered, vars
  <2>2. Round'
    BY <1>4 DEF Control, Round, Ledger, Of, Current, vars
  <2>3. Exchange'
    BY <1>4 DEF Control, Exchange, Busy, vars
  <2> QED
    BY <2>1, <2>2, <2>3 DEF Control
<1> QED
  BY <1>1, <1>2, <1>3, <1>4, ConnectControl, ReportControl, ListControl, DropControl, ManifestControl,
     ChunkControl, SaveControl, FlushControl, ReceiveControl, WriteControl, CountControl,
     AdvanceControl, AckControl
  DEF StreamNext, SiteStep, CenterStep

-----------------------------------------------------------------------------
(* Wrong bytes and the center's files.                                     *)

LEMMA FilesInit == StreamInit => Files
<1> SUFFICES ASSUME StreamInit PROVE Files
  OBVIOUS
<1>1. Len(<<>>) = 0
  OBVIOUS
<1> QED
  BY <1>1, ChunkNumber
  DEF StreamInit, Files, WrongIsAhead, WrongIsLeft, FileIsCounted, CountIsNext, Terminal,
      CenterRefusesOnlyLeftovers

\* Nothing is taken out of the exceptions.
LEMMA ExceptedGrows ==
    ASSUME left \subseteq left', hidden \subseteq hidden'
    PROVE  Excepted \subseteq Excepted'
BY DEF Excepted

LEMMA WrongIsOfArtifact ==
    ASSUME Control, NEW r \in box, ~r.ok
    PROVE  r.art \in Artifacts
BY DEF Control, Types, SiteTypes, Numbered, Rows

\* What the site does leaves the center's files alone.
LEMMA SiteKeepsFiles ==
    ASSUME Files, UNCHANGED <<cphase, chave, cfile>>, left \subseteq left',
           hidden \subseteq hidden', cpc' = "receive" \/ (UNCHANGED <<cpc, got>>)
    PROVE  FileIsCounted' /\ CountIsNext' /\ CenterRefusesOnlyLeftovers'
BY ExceptedGrows DEF Files, FileIsCounted, CountIsNext, CenterRefusesOnlyLeftovers

LEMMA SiteKeepsLeft ==
    ASSUME Files, left \subseteq left', hidden \subseteq hidden', wire' \subseteq wire,
           cpc' = "receive" \/ (UNCHANGED <<cpc, got>>)
    PROVE  WrongIsLeft'
BY ExceptedGrows DEF Files, WrongIsLeft

\* What the center does leaves the rows of a damaged file ahead.
LEMMA CenterKeepsAhead ==
    ASSUME Files, box' \subseteq box,
           UNCHANGED <<phase, cursor, spc, todo, digestOk, began, hidden>>
    PROVE  WrongIsAhead'
BY DEF Files, WrongIsAhead, Current, Ledger, Of

LEMMA UploadFiles ==
    ASSUME Control, Files, NEW a \in Artifacts, BecomeReady(a) \/ Damage(a) \/ Restore(a)
    PROVE  Files'
<1> USE DEF siteVars, centerVars, artifactVars, history, used
<1>1. \A b \in Artifacts : phase[b] = "ready" => phase'[b] = "ready"
  BY DEF BecomeReady, MarkReady, Damage, Restore, Control, Types, SiteTypes
<1>2. UNCHANGED <<siteVars, centerVars, left, hidden>>
  BY DEF BecomeReady, Damage, Restore
<1>3. WrongIsAhead'
  BY <1>1, <1>2, WrongIsOfArtifact DEF Files, WrongIsAhead, Current, Ledger, Of
<1>4. WrongIsLeft' /\ FileIsCounted' /\ CountIsNext' /\ CenterRefusesOnlyLeftovers'
  BY <1>2, SiteKeepsFiles, SiteKeepsLeft
<1> QED
  BY <1>3, <1>4 DEF Files

LEMMA DownFiles ==
    ASSUME Files, Down, UNCHANGED <<artifactVars, history, cphase, chave, cfile>>,
           wire' \subseteq wire, cpc' = "receive" \/ (UNCHANGED <<cpc, got>>)
    PROVE  Files'
<1>1. WrongIsAhead'
  BY DEF Files, WrongIsAhead, Down, artifactVars, history, WorkPcs
<1>2. WrongIsLeft' /\ FileIsCounted' /\ CountIsNext' /\ CenterRefusesOnlyLeftovers'
  BY SiteKeepsFiles, SiteKeepsLeft DEF history
<1> QED
  BY <1>1, <1>2 DEF Files

\* Steps before the first artifact of a round: the rows of a damaged file
\* are among those that the listing finds.
LEMMA StartFiles ==
    ASSUME Control, Files, Connect \/ Report \/ List PROVE Files'
<1> USE DEF artifactVars, centerVars, history, siteFrame
<1>1. UNCHANGED <<cphase, chave, cfile, cpc, got, left, hidden, phase, cursor>>
      /\ wire' \subseteq wire
  BY DEF Connect, Report, List
<1>2. WrongIsLeft' /\ FileIsCounted' /\ CountIsNext' /\ CenterRefusesOnlyLeftovers'
  BY <1>1, SiteKeepsFiles, SiteKeepsLeft
<1>3. \A r \in box : ~r.ok /\ r.art \notin hidden =>
          r.art \in Artifacts /\ phase[r.art] = "ready" /\ r.art > cursor
  BY WrongIsOfArtifact DEF Files, WrongIsAhead
<1>4. WrongIsAhead'
  <2>1. CASE Connect
    BY <1>1, <1>3, <2>1 DEF WrongIsAhead, Connect, WorkPcs
  <2>2. CASE Report
    <3>1. spc' = "list" /\ \A r \in box' : r \in box \/ r.ok
      BY <2>2 DEF Report, Row
    <3> QED
      BY <1>1, <1>3, <3>1 DEF WrongIsAhead, WorkPcs
  <2>3. CASE List
    <3>1. \A r \in box : ~r.ok /\ r.art \notin hidden => r.art \in PastCursor
      BY <1>3 DEF PastCursor
    <3>2. /\ spc' \in {"clean", "flush"} /\ todo' = PastCursor /\ box' = box
          /\ spc' = "flush" => PastCursor = {}
      BY <2>3 DEF List
    <3> QED
      BY <1>1, <1>3, <3>1, <3>2 DEF WrongIsAhead
  <2> QED
    BY <2>1, <2>2, <2>3
<1> QED
  BY <1>2, <1>4 DEF Files

\* Retiring rows: wrong bytes that the clean-up leaves are in hidden, and
\* a refused file leaves none.
LEMMA DropFiles ==
    ASSUME Control, Files, Clean \/ RetireRefused PROVE Files'
<1> USE DEF artifactVars, centerVars, history, siteFrame
<1>1. /\ UNCHANGED <<cphase, chave, cfile, cpc, got, wire, left, phase, cursor, todo, began>>
      /\ box' \subseteq box /\ hidden \subseteq hidden' /\ spc \in WorkPcs /\ Current' = Current
  BY DEF Clean, RetireRefused, WorkPcs, Current
<1>2. WrongIsLeft' /\ FileIsCounted' /\ CountIsNext' /\ CenterRefusesOnlyLeftovers'
  BY <1>1, SiteKeepsFiles, SiteKeepsLeft
<1>3. \A r \in box' : ~r.ok /\ r.art \notin hidden' =>
          /\ r \in box /\ r.art \notin hidden
          /\ phase[r.art] = "ready" /\ r.art > cursor /\ r.art \in todo
  BY <1>1 DEF Files, WrongIsAhead
<1>4. WrongIsAhead'
  <2>1. CASE Clean
    <3>1. spc' = "clean" \/ spc' = "manifest"
      BY <2>1 DEF Clean
    <3>2. spc' = "manifest" => \A r \in box' : ~r.ok /\ r.art = Current => r.art \in hidden'
      BY <2>1 DEF Clean, Of
    <3> QED
      BY <1>1, <1>3, <3>1, <3>2 DEF WrongIsAhead
  <2>2. CASE RetireRefused
    <3>1. spc = "retire" /\ (spc' = "retire" \/ (spc' = "flush" /\ Ledger = {}))
      BY <2>2 DEF RetireRefused
    <3>2. \A r \in box' : ~r.ok /\ r.art \notin hidden' /\ r.art = Current => r \in Ledger
      BY <1>3, <3>1 DEF Files, WrongIsAhead
    <3>3. \A r \in box' : r \in Ledger => r \in Ledger'
      BY <1>1 DEF Ledger, Of
    <3> QED
      BY <1>1, <1>3, <3>1, <3>2, <3>3 DEF WrongIsAhead
  <2> QED
    BY <2>1, <2>2
<1> QED
  BY <1>2, <1>4 DEF Files

LEMMA RoundFiles ==
    ASSUME Control, Files, EnqueueManifest \/ EnqueueChunk \/ SaveCursor PROVE Files'
<1> USE DEF artifactVars, centerVars, history, siteFrame
<1>1. UNCHANGED <<cphase, chave, cfile, cpc, got, wire, left, hidden, phase>>
  BY DEF EnqueueManifest, EnqueueChunk, SaveCursor
<1>2. WrongIsLeft' /\ FileIsCounted' /\ CountIsNext' /\ CenterRefusesOnlyLeftovers'
  BY <1>1, SiteKeepsFiles, SiteKeepsLeft
<1>3. /\ todo \subseteq Artifacts /\ part \in 1 .. Chunks + 1 /\ digestOk \in BOOLEAN
      /\ \A a \in todo : phase[a] = "ready" /\ a > cursor
      /\ began \in Nat /\ nextSeq \in Nat /\ began <= nextSeq
      /\ \A r \in box : r.seq \in Nat /\ r.seq < nextSeq
  BY DEF Control, Types, SiteTypes, Round, Numbered, Rows
<1>4. \A r \in box : ~r.ok /\ r.art \notin hidden =>
          phase[r.art] = "ready" /\ r.art > cursor
  BY DEF Files, WrongIsAhead
<1>5. WrongIsAhead'
  <2>1. CASE EnqueueManifest
    <3>1. /\ UNCHANGED <<phase, cursor, todo>> /\ spc = "manifest" /\ Current' = Current
          /\ spc' \in {"flush", "chunk"}
          /\ \A r \in box' : r \in box \/ r.ok
      BY <2>1 DEF EnqueueManifest, Enqueue, Row, Current
    <3>2. \A r \in box : ~r.ok /\ r.art \notin hidden => r.art # Current /\ r.art \in todo
      BY <3>1 DEF Files, WrongIsAhead, WorkPcs
    <3> QED
      BY <1>1, <1>4, <3>1, <3>2 DEF WrongIsAhead
  <2>2. CASE EnqueueChunk
    <3>0. spc = "chunk" /\ Current \in todo /\ UNCHANGED <<phase, cursor, began>>
      BY <1>3, <2>2, CurrentIsFirst DEF EnqueueChunk, Control, Round, WorkPcs
    <3>1. \A r \in box : ~r.ok /\ r.art \notin hidden =>
              r.art \in todo /\ (r.art = Current => r \in Ledger /\ ~digestOk)
      BY <3>0 DEF Files, WrongIsAhead, WorkPcs
    <3>2. CASE part <= Chunks
      <4>1. /\ UNCHANGED <<spc, todo>> /\ Current' = Current /\ box \subseteq box'
            /\ \A r \in box' \ box : /\ r.seq = nextSeq /\ r.art = Current
                                      /\ r.ok = (disk[Current] # "wrong")
            /\ digestOk' = (digestOk /\ disk[Current] # "wrong")
        BY <2>2, <3>2 DEF EnqueueChunk, Enqueue, Row, Current
      <4>2. Ledger \subseteq Ledger' /\ \A r \in box' \ box : r \in Ledger'
        BY <1>3, <3>0, <4>1 DEF Ledger, Of
      <4>3. ASSUME NEW r \in box', ~r.ok, r.art \notin hidden
            PROVE  /\ phase[r.art] = "ready" /\ r.art > cursor /\ r.art \in todo
                   /\ r.art = Current => r \in Ledger' /\ ~digestOk'
        <5>1. CASE r \in box
          BY <1>4, <3>1, <4>1, <4>2, <4>3, <5>1
        <5>2. CASE r \notin box
          BY <1>3, <3>0, <4>1, <4>2, <4>3, <5>2
        <5> QED
          BY <5>1, <5>2
      <4> QED
        BY <1>1, <3>0, <4>1, <4>3 DEF WrongIsAhead
    <3>3. CASE ~(part <= Chunks)
      <4>1. CASE digestOk
        <5>1. todo' = todo \ {Current} /\ spc' \in {"save", "clean"} /\ box' = box
          BY <2>2, <3>3, <4>1 DEF EnqueueChunk
        <5> QED
          BY <1>1, <1>4, <3>0, <3>1, <4>1, <5>1 DEF WrongIsAhead
      <4>2. CASE ~digestOk
        <5>1. todo' = todo /\ spc' = "retire" /\ box' = box /\ Ledger' = Ledger
              /\ Current' = Current
          BY <2>2, <3>0, <3>3, <4>2 DEF EnqueueChunk, Ledger, Of, Current
        <5> QED
          BY <1>1, <1>4, <3>0, <3>1, <5>1 DEF WrongIsAhead
      <4> QED
        BY <4>1, <4>2
    <3> QED
      BY <3>2, <3>3
  <2>3. CASE SaveCursor
    <3>1. \A r \in box : r.ok \/ r.art \in hidden
      BY <2>3 DEF SaveCursor, Control, Round, Files, WrongIsAhead
    <3> QED
      BY <1>1, <2>3, <3>1 DEF SaveCursor, WrongIsAhead
  <2> QED
    BY <2>1, <2>2, <2>3
<1> QED
  BY <1>2, <1>5 DEF Files

LEMMA FlushFiles ==
    ASSUME Control, Files, Flush PROVE Files'
<1> USE DEF artifactVars
<1>1. /\ UNCHANGED <<cphase, chave, cfile, cpc, got, phase, cursor, todo, box, hidden>>
      /\ left \subseteq left' /\ spc = "flush" /\ spc' = "up" /\ wire' = box
  BY DEF Flush
<1>2. FileIsCounted' /\ CountIsNext' /\ CenterRefusesOnlyLeftovers'
  BY <1>1, SiteKeepsFiles
<1>3. WrongIsAhead'
  BY <1>1 DEF Files, WrongIsAhead, WorkPcs
<1>4. WrongIsLeft'
  <2>1. cpc = "receive"
    BY <1>1 DEF Control, Exchange, Busy
  <2>2. ASSUME NEW r \in box, ~r.ok, r.art \notin hidden PROVE r.art \in left'
    <3>1. r.art \in todo /\ todo \subseteq Artifacts /\ r.art # Current
      BY <1>1, <2>2 DEF Files, WrongIsAhead, Control, Types, SiteTypes
    <3>2. Current \in todo /\ Current <= r.art
      BY <3>1, CurrentIsFirst
    <3>3. r.art \in Nat /\ Current \in Nat
      BY <3>1, <3>2, ArtifactNumbers
    <3>4. r.art > Current
      BY <3>1, <3>2, <3>3
    <3> QED
      BY <2>2, <3>1, <3>4 DEF Flush, Of
  <2> QED
    BY <1>1, <2>1, <2>2 DEF WrongIsLeft, Excepted
<1> QED
  BY <1>2, <1>3, <1>4 DEF Files

LEMMA QuietCenterFiles ==
    ASSUME Control, Files, Receive \/ AdvanceCursor \/ Ack PROVE Files'
<1> USE DEF artifactVars, siteVars, history, centerFrame
<1>1. /\ UNCHANGED <<cphase, chave, cfile, left, hidden, phase, cursor, spc, todo, began,
                     digestOk>>
      /\ box' \subseteq box /\ cpc' # "count"
  BY DEF Receive, AdvanceCursor, Ack
<1>2. WrongIsAhead'
  BY <1>1, CenterKeepsAhead
<1>3. FileIsCounted' /\ CountIsNext' /\ CenterRefusesOnlyLeftovers'
  BY <1>1 DEF Files, FileIsCounted, CountIsNext, CenterRefusesOnlyLeftovers, Excepted
<1>4. WrongIsLeft'
  <2>1. CASE Receive
    <3>1. wire \in SUBSET Rows /\ wire # {}
      BY <2>1 DEF Receive, Control, Exchange, Types, SiteTypes
    <3>2. Oldest(wire) \in wire
      BY <3>1, OldestIsIn
    <3> QED
      BY <2>1, <3>2 DEF Receive, Files, WrongIsLeft, Excepted
  <2>2. CASE AdvanceCursor \/ Ack
    BY <2>2 DEF AdvanceCursor, Ack, Files, WrongIsLeft, Excepted
  <2> QED
    BY <2>1, <2>2
<1> QED
  BY <1>2, <1>3, <1>4 DEF Files

LEMMA WriteFiles ==
    ASSUME Control, Files, Write PROVE Files'
<1> USE DEF artifactVars, siteVars, history, centerFrame
<1> DEFINE a == got.art
           next == got.chunk # 0 /\ cphase[a] = "uploading" /\ got.chunk = chave[a] + 1
<1>0. got \in Rows /\ cpc = "write" /\ a \in Artifacts /\ got.chunk \in 0 .. Chunks
      /\ got.ok \in BOOLEAN /\ cphase \in [Artifacts -> Phases]
      /\ chave \in [Artifacts -> 0 .. Chunks] /\ cfile \in [Artifacts -> Seq(BOOLEAN)]
  BY DEF Control, Exchange, Write, Types, SiteTypes, CenterTypes, Rows
<1>1. /\ UNCHANGED <<chave, got, wire, left, hidden, phase, cursor, spc, todo, began, digestOk,
                     box>>
      /\ cpc' = IF next THEN "count" ELSE "advance"
      /\ cphase' = [cphase EXCEPT ![a] =
                       IF got.chunk = 0 /\ @ = "none" THEN "uploading" ELSE @]
      /\ cfile' = IF next THEN [cfile EXCEPT ![a] = WriteAt(@, got.chunk, got.ok)] ELSE cfile
  BY DEF Write
<1>2. WrongIsAhead' /\ Excepted' = Excepted
  BY <1>1, CenterKeepsAhead DEF Excepted
<1>3. WrongIsLeft'
  BY <1>0, <1>1, <1>2 DEF Files, WrongIsLeft
<1>4. ASSUME NEW b \in Artifacts
      PROVE  /\ cphase'[b] \in Terminal <=> cphase[b] \in Terminal
             /\ cphase'[b] = "failed" => cphase[b] = "failed"
             /\ cphase'[b] = "none" => cphase[b] = "none"
  BY <1>0, <1>1 DEF Terminal
<1>5. CenterRefusesOnlyLeftovers'
  BY <1>1, <1>4 DEF Files, CenterRefusesOnlyLeftovers
<1>6. next =>
        /\ cfile'[a] \in Seq(BOOLEAN) /\ Len(cfile'[a]) = got.chunk
        /\ cfile'[a][got.chunk] = got.ok
        /\ \A j \in 1 .. chave[a] : cfile'[a][j] = cfile[a][j]
        /\ \A b \in Artifacts \ {a} : cfile'[b] = cfile[b]
  <2> SUFFICES ASSUME next
               PROVE  /\ cfile'[a] \in Seq(BOOLEAN) /\ Len(cfile'[a]) = got.chunk
                      /\ cfile'[a][got.chunk] = got.ok
                      /\ \A j \in 1 .. chave[a] : cfile'[a][j] = cfile[a][j]
                      /\ \A b \in Artifacts \ {a} : cfile'[b] = cfile[b]
    OBVIOUS
  <2>0. chave[a] \in Nat /\ got.chunk = chave[a] + 1 /\ got.chunk \in Nat
    BY <1>0, ChunkNumber
  <2>1. /\ got.chunk \in Nat \ {0} /\ got.chunk - 1 = chave[a]
        /\ Len(cfile[a]) = got.chunk \/ Len(cfile[a]) = got.chunk - 1
    <3>1. Len(cfile[a]) \in {chave[a], chave[a] + 1}
      BY <1>0 DEF Files, FileIsCounted
    <3> QED
      BY <2>0, <3>1
  <2>2. cfile'[a] = WriteAt(cfile[a], got.chunk, got.ok)
    BY <1>0, <1>1
  <2>3. \A b \in Artifacts \ {a} : cfile'[b] = cfile[b]
    BY <1>0, <1>1
  <2>4. cfile[a] \in Seq(BOOLEAN) /\ got.ok \in BOOLEAN
    BY <1>0
  <2> HIDE DEF a, next
  <2> DEFINE f == cfile[a]
             i == got.chunk
             ok == got.ok
             new == WriteAt(f, i, ok)
  <2>5. /\ new \in Seq(BOOLEAN) /\ Len(new) = got.chunk
        /\ new[got.chunk] = got.ok
        /\ \A j \in 1 .. got.chunk - 1 : new[j] = cfile[a][j]
    <3>1. /\ f \in Seq(BOOLEAN) /\ i \in Nat \ {0} /\ ok \in BOOLEAN
          /\ Len(f) = i \/ Len(f) = i - 1
      BY <2>1, <2>4
    <3> HIDE DEF f, i, ok
    <3>2. new \in Seq(BOOLEAN) /\ Len(new) = i /\ new[i] = ok
      BY <3>1, WriteAtEndOfFile
    <3>3. \A j \in 1 .. i - 1 : new[j] = f[j]
      BY <3>1, WriteAtEndOfFile
    <3> QED
      BY <3>2, <3>3 DEF f, i, ok
  <2> HIDE DEF new
  <2> QED
    BY <2>1, <2>2, <2>3, <2>5 DEF new
<1>7. FileIsCounted'
  <2> SUFFICES ASSUME NEW b \in Artifacts
               PROVE  /\ Len(cfile'[b]) \in {chave[b], chave[b] + 1}
                      /\ b \notin Excepted => \A i \in 1 .. chave[b] : cfile'[b][i] = TRUE
                      /\ cphase'[b] \in Terminal <=> chave[b] = Chunks
                      /\ cphase'[b] = "none" => chave[b] = 0
    BY <1>1, <1>2 DEF FileIsCounted
  <2>1. /\ Len(cfile[b]) \in {chave[b], chave[b] + 1}
        /\ b \notin Excepted => \A i \in 1 .. chave[b] : cfile[b][i] = TRUE
        /\ cphase[b] \in Terminal <=> chave[b] = Chunks
        /\ cphase[b] = "none" => chave[b] = 0
    BY DEF Files, FileIsCounted
  <2>2. CASE next /\ b = a
    BY <1>4, <1>6, <2>1, <2>2
  <2>3. CASE ~(next /\ b = a)
    BY <1>1, <1>4, <1>6, <2>1, <2>3
  <2> QED
    BY <2>2, <2>3
<1>8. CountIsNext'
  BY <1>0, <1>1, <1>6 DEF CountIsNext
<1> QED
  BY <1>2, <1>3, <1>5, <1>7, <1>8 DEF Files

LEMMA CountFiles ==
    ASSUME Control, Files, Count PROVE Files'
<1> USE DEF artifactVars, siteVars, history, centerFrame
<1> DEFINE a == got.art
           full == [i \in 1 .. Chunks |-> TRUE]
<1>0. /\ cpc = "count" /\ a \in Artifacts /\ got.chunk \in 0 .. Chunks
      /\ got.ok \in BOOLEAN /\ cphase \in [Artifacts -> Phases]
      /\ chave \in [Artifacts -> 0 .. Chunks] /\ cfile \in [Artifacts -> Seq(BOOLEAN)]
  BY DEF Control, Exchange, Count, Types, SiteTypes, CenterTypes, Rows
<1>1. /\ UNCHANGED <<cfile, got, wire, left, hidden, phase, cursor, spc, todo, began, digestOk,
                     box>>
      /\ cpc' = "advance"
      /\ chave' = [chave EXCEPT ![a] = got.chunk]
      /\ cphase' = [cphase EXCEPT ![a] = IF got.chunk < Chunks THEN @
                                         ELSE IF cfile[a] = full THEN "ready" ELSE "failed"]
  BY DEF Count
<1>2. /\ cphase[a] = "uploading" /\ got.chunk = chave[a] + 1
      /\ Len(cfile[a]) = got.chunk /\ cfile[a][got.chunk] = got.ok
  BY <1>0 DEF Files, CountIsNext
<1>3. WrongIsAhead' /\ WrongIsLeft' /\ CountIsNext' /\ Excepted' = Excepted
  BY <1>0, <1>1, CenterKeepsAhead DEF Files, WrongIsLeft, CountIsNext, Excepted
<1>4. a \notin Excepted => \A i \in 1 .. got.chunk : cfile[a][i] = TRUE
  <2>1. a \notin Excepted => got.ok = TRUE /\ \A i \in 1 .. chave[a] : cfile[a][i] = TRUE
    BY <1>0 DEF Files, WrongIsLeft, FileIsCounted
  <2>2. \A i \in 1 .. got.chunk : i \in 1 .. chave[a] \/ i = got.chunk
    BY <1>0, <1>2, ChunkNumber
  <2> QED
    BY <1>2, <2>1, <2>2
<1>5. a \notin Excepted /\ got.chunk = Chunks => cfile[a] = full
  <2> SUFFICES ASSUME a \notin Excepted, got.chunk = Chunks PROVE cfile[a] = full
    OBVIOUS
  <2>1. cfile[a] = [i \in 1 .. Chunks |-> cfile[a][i]]
    BY <1>0, <1>2, LenProperties
  <2> QED
    BY <1>4, <2>1
<1> HIDE DEF full
<1>6. CenterRefusesOnlyLeftovers'
  BY <1>0, <1>1, <1>2, <1>5, ChunkNumber DEF Files, CenterRefusesOnlyLeftovers, Excepted
<1>7. FileIsCounted'
  <2> SUFFICES ASSUME NEW b \in Artifacts
               PROVE  /\ Len(cfile[b]) \in {chave'[b], chave'[b] + 1}
                      /\ b \notin Excepted => \A i \in 1 .. chave'[b] : cfile[b][i] = TRUE
                      /\ cphase'[b] \in Terminal <=> chave'[b] = Chunks
                      /\ cphase'[b] = "none" => chave'[b] = 0
    BY <1>1, <1>3 DEF FileIsCounted
  <2>1. /\ Len(cfile[b]) \in {chave[b], chave[b] + 1}
        /\ b \notin Excepted => \A i \in 1 .. chave[b] : cfile[b][i] = TRUE
        /\ cphase[b] \in Terminal <=> chave[b] = Chunks
        /\ cphase[b] = "none" => chave[b] = 0
    BY DEF Files, FileIsCounted
  <2>2. CASE b = a
    <3>1. chave'[b] = got.chunk
      BY <1>0, <1>1, <2>2
    <3>2. /\ cphase'[b] \in Terminal <=> got.chunk = Chunks
          /\ cphase'[b] # "none"
      BY <1>0, <1>1, <1>2, <2>2, ChunkNumber DEF Terminal
    <3> QED
      BY <1>2, <1>4, <2>2, <3>1, <3>2
  <2>3. CASE b # a
    BY <1>0, <1>1, <2>1, <2>3
  <2> QED
    BY <2>2, <2>3
<1> QED
  BY <1>3, <1>6, <1>7 DEF Files

LEMMA FilesStep == Control /\ Files /\ [StreamNext]_vars => Files'
<1> SUFFICES ASSUME Control, Files, [StreamNext]_vars PROVE Files'
  OBVIOUS
<1> USE DEF siteVars, centerVars, artifactVars, siteFrame, history
<1>1. CASE \E a \in Artifacts : BecomeReady(a) \/ Damage(a) \/ Restore(a)
  BY <1>1, UploadFiles
<1>2. CASE EndStalled \/ EndQuiet \/ SiteStops
  <2>1. Down /\ UNCHANGED <<artifactVars, history, cphase, chave, cfile, cpc, got, wire>>
    BY <1>2 DEF EndStalled, EndQuiet, SiteStops
  <2> QED
    BY <2>1, DownFiles
<1>3. CASE CenterStops
  <2>1. CASE spc = "up"
    BY <1>3, <2>1, DownFiles DEF CenterStops
  <2>2. CASE spc # "up"
    <3>1. /\ UNCHANGED <<siteVars, cphase, chave, cfile, artifactVars, history>>
          /\ cpc' = "receive" /\ wire' = {}
      BY <1>3, <2>2 DEF CenterStops
    <3>2. WrongIsLeft' /\ FileIsCounted' /\ CountIsNext' /\ CenterRefusesOnlyLeftovers'
      BY <3>1, SiteKeepsFiles, SiteKeepsLeft
    <3>3. WrongIsAhead'
      BY <3>1, CenterKeepsAhead
    <3> QED
      BY <3>2, <3>3 DEF Files
  <2> QED
    BY <2>1, <2>2
<1>4. CASE UNCHANGED vars
  <2>1. WrongIsLeft' /\ FileIsCounted' /\ CountIsNext' /\ CenterRefusesOnlyLeftovers'
    BY <1>4, SiteKeepsFiles, SiteKeepsLeft DEF vars
  <2>2. WrongIsAhead'
    BY <1>4, CenterKeepsAhead DEF vars
  <2> QED
    BY <2>1, <2>2 DEF Files
<1> QED
  BY <1>1, <1>2, <1>3, <1>4, StartFiles, DropFiles, RoundFiles, FlushFiles, QuietCenterFiles,
     WriteFiles, CountFiles
  DEF StreamNext, SiteStep, CenterStep

-----------------------------------------------------------------------------
(* Nothing is skipped.                                                     *)

LEMMA SupplyInit == StreamInit => Supply
<1> SUFFICES ASSUME StreamInit PROVE Supply
  OBVIOUS
<1>1. \A a \in Artifacts : ~Passed(a)
  BY DEF StreamInit, Passed, WorkPcs
<1> QED
  BY <1>1 DEF StreamInit, Supply

\* No row of a passed artifact is added, and none that is not processed
\* goes: what they supply stays.
LEMMA SuppliedStays ==
    ASSUME NEW a, NEW m, SuppliedFrom(a, m), UNCHANGED <<cphase, chave, ccursor>>,
           Of(a)' \subseteq Of(a), \A r \in Of(a) : r.seq > ccursor => r \in Of(a)',
           cpc' # "advance" \/ (UNCHANGED <<cpc, got>>)
    PROVE  SuppliedFrom(a, m)'
<1>1. From(a, m)' \subseteq From(a, m)
  BY DEF From
<1>2. \A c : Needed(a, m, c) => Needed(a, m, c)'
  BY DEF Needed, From
<1> QED
  BY <1>1, <1>2 DEF SuppliedFrom, Ordered, Pending, Taken

LEMMA SupplyFrame ==
    ASSUME Supply, UNCHANGED <<cphase, chave, ccursor>>,
           \A a \in Artifacts : Passed(a)' => Passed(a),
           \A a \in Artifacts : Passed(a) =>
               /\ Of(a)' \subseteq Of(a)
               /\ \A r \in Of(a) : r.seq > ccursor => r \in Of(a)',
           cpc' # "advance" \/ (UNCHANGED <<cpc, got>>)
    PROVE  Supply'
<1> SUFFICES ASSUME NEW a \in Artifacts, Passed(a)'
             PROVE  \E m \in Nat : SuppliedFrom(a, m)'
  BY DEF Supply
<1>1. PICK m \in Nat : SuppliedFrom(a, m)
  BY DEF Supply
<1>2. SuppliedFrom(a, m)'
  BY <1>1, SuppliedStays
<1> QED
  BY <1>2

LEMMA UploadSupply ==
    ASSUME Control, Supply, NEW a \in Artifacts, BecomeReady(a) \/ Damage(a) \/ Restore(a)
    PROVE  Supply'
<1> USE DEF siteVars, centerVars, artifactVars, history, used
<1>1. UNCHANGED <<siteVars, centerVars, listed>>
  BY DEF BecomeReady, Damage, Restore
<1>2. \A b \in Artifacts : Passed(b)' => Passed(b)
  <2>1. CASE BecomeReady(a)
    BY <1>1, <2>1 DEF BecomeReady, MarkReady, Passed, Control, Types, SiteTypes
  <2>2. CASE Damage(a) \/ Restore(a)
    BY <1>1, <2>2 DEF Damage, Restore, Passed
  <2> QED
    BY <2>1, <2>2
<1> QED
  BY <1>1, <1>2, SupplyFrame DEF Of

\* Steps of the site that pass no artifact and retire no row.
LEMMA IdleSupply ==
    ASSUME Control, Supply, UNCHANGED <<cphase, chave, ccursor, box, phase, cursor, late>>,
           spc' \notin WorkPcs \cup {"save"} \/ listed' \subseteq todo',
           cpc' # "advance" \/ (UNCHANGED <<cpc, got>>)
    PROVE  Supply'
<1>1. \A a \in Artifacts : Passed(a)' => Passed(a)
  BY DEF Passed
<1> QED
  BY <1>1, SupplyFrame DEF Of

\* The rows of the other reports are of no artifact.
LEMMA ReportSupply ==
    ASSUME Control, Supply, Report PROVE Supply'
<1> USE DEF artifactVars, centerVars, siteFrame, history
<1>1. /\ UNCHANGED <<cphase, chave, ccursor, cpc, got, phase, cursor, late, listed, todo>>
      /\ spc' = "list" /\ box \subseteq box'
      /\ \A r \in box' : r \in box \/ r.art = Other
  BY DEF Report, Row
<1>2. \A a \in Artifacts : Passed(a)' => Passed(a)
  BY <1>1 DEF Passed, WorkPcs
<1>3. \A a \in Artifacts : Of(a)' = Of(a)
  BY <1>1, OtherIsNone DEF Of
<1> QED
  BY <1>1, <1>2, <1>3, SupplyFrame

LEMMA DropSupply ==
    ASSUME Control, Supply, Clean \/ RetireRefused PROVE Supply'
<1> USE DEF artifactVars, centerVars, siteFrame, history
<1>1. /\ UNCHANGED <<cphase, chave, ccursor, cpc, got, phase, cursor, late, listed, todo>>
      /\ spc \in WorkPcs
  BY DEF Clean, RetireRefused, WorkPcs
<1>2. todo # {} /\ todo \subseteq Artifacts /\ Current \in todo /\ box \subseteq Rows
      /\ Current > cursor /\ Current \in Nat /\ cursor \in Nat
  <2>1. todo # {} /\ todo \subseteq Artifacts /\ box \subseteq Rows /\ cursor \in Nat
    BY <1>1, ArtifactNumbers DEF Control, Round, Types, SiteTypes
  <2> QED
    BY <2>1, CurrentIsFirst, ArtifactNumbers DEF Control, Round
<1>3. box' \subseteq box /\ \A r \in box : r.art # Current => r \in box'
  <2>1. CASE box' = box
    BY <2>1
  <2>2. CASE box' # box
    <3>1. PICK stale \in SUBSET Of(Current) : stale # {} /\ box' = box \ {Oldest(stale)}
      BY <2>2 DEF Clean, RetireRefused, Ledger
    <3>2. Oldest(stale) \in stale
      <4>1. stale \in SUBSET Rows
        BY <1>2 DEF Of
      <4> QED
        BY <3>1, <4>1, OldestIsIn
    <3> QED
      BY <3>1, <3>2 DEF Of
  <2> QED
    BY <2>1, <2>2
<1>4. ~Passed(Current)
  BY <1>2 DEF Passed
<1>5. \A a \in Artifacts : Passed(a)' => Passed(a)
  BY <1>1 DEF Passed
<1>6. \A a \in Artifacts : Passed(a) => Of(a)' = Of(a)
  BY <1>3, <1>4 DEF Of
<1> QED
  BY <1>1, <1>5, <1>6, SupplyFrame

\* What is queued is of the artifact in hand, which is not passed yet.
LEMMA QueuedIsNotPassed ==
    ASSUME Control, spc \in WorkPcs
    PROVE  Current \in Artifacts /\ Current \in todo /\ ~Passed(Current)
<1>1. todo # {} /\ todo \subseteq Artifacts /\ cursor \in Nat
  BY ArtifactNumbers DEF Control, Round, Types, SiteTypes
<1>2. Current \in todo /\ Current > cursor /\ Current \in Nat
  BY <1>1, CurrentIsFirst, ArtifactNumbers DEF Control, Round
<1> QED
  BY <1>1, <1>2 DEF Passed

LEMMA ManifestSupply ==
    ASSUME Control, Supply, EnqueueManifest PROVE Supply'
<1> USE DEF artifactVars, centerVars, siteFrame, history
<1>1. /\ UNCHANGED <<cphase, chave, ccursor, cpc, got, phase, cursor, late, listed, todo>>
      /\ spc \in WorkPcs /\ box \subseteq box' /\ \A r \in box' : r \in box \/ r.art = Current
  BY DEF EnqueueManifest, Enqueue, Row, WorkPcs
<1>2. \A a \in Artifacts : Passed(a)' => Passed(a)
  BY <1>1 DEF Passed
<1>3. \A a \in Artifacts : Passed(a) => Of(a)' = Of(a)
  BY <1>1, QueuedIsNotPassed DEF Of
<1> QED
  BY <1>1, <1>2, <1>3, SupplyFrame

\* The last chunk of an artifact: all that the center may need is queued,
\* from the sequence at which its distribution began.
LEMMA ChunkSupply ==
    ASSUME Control, Supply, EnqueueChunk PROVE Supply'
<1> USE DEF artifactVars, centerVars, siteFrame, history
<1>1. /\ UNCHANGED <<cphase, chave, ccursor, cpc, got, phase, cursor, late, listed>>
      /\ spc = "chunk" /\ spc \in WorkPcs /\ box \subseteq box'
      /\ \A r \in box' : r \in box \/ r.art = Current
  BY DEF EnqueueChunk, Enqueue, Row, WorkPcs
<1>2. \A a \in Artifacts : Passed(a) => Of(a)' = Of(a)
  BY <1>1, QueuedIsNotPassed DEF Of
<1>3. CASE todo' = todo
  <2>1. \A a \in Artifacts : Passed(a)' => Passed(a)
    BY <1>1, <1>3 DEF Passed
  <2> QED
    BY <1>1, <1>2, <2>1, SupplyFrame
<1>4. CASE todo' # todo
  <2>1. todo' = todo \ {Current} /\ ~(part <= Chunks) /\ box' = box
    BY <1>4 DEF EnqueueChunk
  <2>2. Ledger = From(Current, began)
    BY DEF Ledger, From
  <2>3. \A c \in 0 .. Chunks : Needed(Current, began, c)
    <3>1. part \in Nat /\ Chunks \in Nat /\ part > Chunks
      BY <2>1, ChunkNumber DEF Control, Types, SiteTypes
    <3>2. \A c \in 0 .. Chunks : c \in 0 .. part - 1
      BY <3>1
    <3> QED
      BY <1>1, <2>2, <3>2 DEF Control, Round, Needed
  <2>4. began \in Nat /\ SuppliedFrom(Current, began)
    <3>1. Current \in Artifacts /\ began \in Nat
      BY <1>1, QueuedIsNotPassed DEF Control, Types, SiteTypes
    <3>2. chave[Current] \in Nat /\ Chunks \in Nat
      BY <3>1, ChunkNumber DEF Control, Types, CenterTypes
    <3>3. \A c \in chave[Current] + 1 .. Chunks : c \in 0 .. Chunks
      BY <3>2
    <3>4. Pending(Current, began)
      BY <2>3, <3>2, <3>3 DEF Pending
    <3>5. Ordered(Current, began)
      BY <1>1, <2>2 DEF Ordered, Control, Round
    <3>6. Taken(Current, began)
      BY <1>1 DEF Taken, Control, Exchange, Busy
    <3> QED
      BY <3>1, <3>4, <3>5, <3>6 DEF SuppliedFrom
  <2>5. ASSUME NEW a \in Artifacts, Passed(a)'
        PROVE  \E m \in Nat : SuppliedFrom(a, m)
    <3>1. a = Current \/ Passed(a)
      BY <1>1, <2>1, <2>5 DEF Passed
    <3> QED
      BY <2>4, <3>1 DEF Supply
  <2>6. ASSUME NEW a \in Artifacts, NEW m \in Nat, SuppliedFrom(a, m)
        PROVE  SuppliedFrom(a, m)'
    BY <1>1, <2>1, <2>6, SuppliedStays DEF Of
  <2> QED
    BY <2>5, <2>6 DEF Supply
<1> QED
  BY <1>3, <1>4

\* The cursor moves to what the round has passed; what became ready
\* meanwhile is late.
LEMMA SaveSupply ==
    ASSUME Control, Supply, SaveCursor PROVE Supply'
<1> USE DEF artifactVars, centerVars
<1>1. /\ UNCHANGED <<cphase, chave, ccursor, cpc, got, phase, listed, todo, box>>
      /\ spc = "save" /\ spc' = "flush" /\ cursor' = newest /\ todo = {}
      /\ late' = late \cup {a \in 1 .. newest : phase[a] = "ready" /\ a \notin listed /\ a > cursor}
  BY DEF SaveCursor, Control, Round
<1>2. \A a \in Artifacts : Passed(a)' => Passed(a)
  <2> SUFFICES ASSUME NEW a \in Artifacts, Passed(a)' PROVE Passed(a)
    OBVIOUS
  <2>1. phase[a] = "ready" /\ a <= newest /\ a \notin late'
    BY <1>1 DEF Passed, WorkPcs
  <2>2. a \in Nat \ {0} /\ newest \in Nat /\ cursor \in Nat
    BY ArtifactNumbers DEF Control, Types, SiteTypes
  <2>3. CASE a <= cursor
    BY <1>1, <2>1, <2>3 DEF Passed
  <2>4. CASE ~(a <= cursor)
    <3>1. a \in listed
      BY <1>1, <2>1, <2>2, <2>4
    <3> QED
      BY <1>1, <3>1 DEF Passed
  <2> QED
    BY <2>3, <2>4
<1> QED
  BY <1>1, <1>2, SupplyFrame DEF Of

\* A row of another report supplies nothing, so the cursor may pass it.
LEMMA ReceiveSupply ==
    ASSUME Control, Supply, Receive PROVE Supply'
<1> USE DEF artifactVars, siteVars, history, centerFrame
<1>0. wire \in SUBSET Rows /\ wire # {} /\ wire \subseteq box /\ ccursor \in Nat
  BY DEF Receive, Control, Exchange, Types, SiteTypes, CenterTypes
<1> DEFINE row == Oldest(wire)
<1>1. row \in wire /\ \A w \in wire : row.seq <= w.seq
  BY <1>0, OldestIsIn
<1>2. /\ UNCHANGED <<cphase, chave, box, phase, cursor, spc, todo, late, listed>>
      /\ cpc' # "advance"
      /\ ccursor' = ccursor \/ (ccursor' = row.seq /\ row.art = Other)
  BY DEF Receive
<1> HIDE DEF row
<1>3. \A a : (Passed(a)' <=> Passed(a)) /\ Of(a)' = Of(a)
  BY <1>2 DEF Passed, Of
<1>4. ASSUME NEW a \in Artifacts, NEW r \in Of(a), r.seq > ccursor PROVE r.seq > ccursor'
  <2>1. r \in wire /\ r \in Rows /\ row \in Rows
    BY <1>0, <1>1, <1>4 DEF Of, Receive, Control, Exchange, Busy, Types, SiteTypes, Rows
  <2>2. r.seq \in Nat /\ row.seq \in Nat /\ row.seq <= r.seq
    BY <1>1, <2>1 DEF Rows
  <2>3. row.art = Other => row # r
    BY <1>4, OtherIsNone DEF Of
  <2>4. row.art = Other => row.seq # r.seq
    BY <1>0, <1>1, <2>1, <2>3 DEF Control, Numbered
  <2> QED
    BY <1>2, <1>4, <2>2, <2>4
<1>5. ASSUME NEW a \in Artifacts, NEW m \in Nat, SuppliedFrom(a, m)
      PROVE  SuppliedFrom(a, m)'
  <2>1. From(a, m)' = From(a, m)
    BY <1>3 DEF From
  <2>2. \A c : Needed(a, m, c) => Needed(a, m, c)'
    BY <1>4, <2>1 DEF Needed, From
  <2> QED
    BY <1>2, <1>5, <2>1, <2>2 DEF SuppliedFrom, Ordered, Pending, Taken
<1> QED
  BY <1>3, <1>5 DEF Supply

\* The first row that is not processed is the one in hand, so the center
\* gets the chunks of a passed artifact in order.
LEMMA WriteSupply ==
    ASSUME Control, Files, Supply, Write PROVE Supply'
<1> USE DEF artifactVars, siteVars, history, centerFrame
<1> DEFINE a == got.art
           next == got.chunk # 0 /\ cphase[a] = "uploading" /\ got.chunk = chave[a] + 1
<1>0. /\ got \in Rows /\ cpc = "write" /\ a \in Artifacts /\ got.chunk \in Nat
      /\ got.chunk \in 0 .. Chunks /\ cphase \in [Artifacts -> Phases]
      /\ chave[a] \in Nat /\ chave[a] \in 0 .. Chunks /\ box \subseteq Rows /\ Chunks \in Nat
      /\ got \in box
  BY ChunkNumber DEF Control, Exchange, Write, Types, SiteTypes, CenterTypes, Rows
<1>1. /\ UNCHANGED <<chave, ccursor, got, wire, phase, cursor, spc, todo, box, late, listed>>
      /\ cpc' = IF next THEN "count" ELSE "advance"
      /\ cphase' = [cphase EXCEPT ![a] =
                       IF got.chunk = 0 /\ @ = "none" THEN "uploading" ELSE @]
  BY DEF Write
<1>2. \A b \in Artifacts : Passed(b)' = Passed(b)
  BY <1>1 DEF Passed
<1>3. ASSUME NEW b \in Artifacts, NEW m \in Nat, SuppliedFrom(b, m)
      PROVE  Ordered(b, m)' /\ Pending(b, m)'
  <2>1. cphase'[b] = "none" => cphase[b] = "none"
    BY <1>0, <1>1
  <2>2. From(b, m)' = From(b, m) /\ \A c : Needed(b, m, c)' <=> Needed(b, m, c)
    BY <1>1 DEF Needed, From, Of
  <2> QED
    BY <1>1, <1>3, <2>1, <2>2 DEF SuppliedFrom, Ordered, Pending
<1>4. ASSUME NEW m \in Nat, SuppliedFrom(a, m), got.seq >= m, ~next
      PROVE  cphase'[a] # "none" /\ got.chunk <= chave[a]
  <2>1. ASSUME NEW r \in From(a, m), r.seq > ccursor PROVE got.chunk <= r.chunk
    <3>1. r \in box /\ r \in Rows /\ r.art = a /\ got \in From(a, m)
      BY <1>0, <1>4 DEF From, Of
    <3>2. r.seq \in Nat /\ ccursor \in Nat /\ got.seq \in Nat /\ r.chunk \in Nat
      BY <1>0, <3>1 DEF Control, Types, CenterTypes, Rows
    <3>3. CASE r \in wire
      <4>1. got.seq < r.seq
        BY <1>0, <3>3 DEF Control, Exchange
      <4>2. got.chunk < r.chunk
        BY <1>4, <3>1, <4>1 DEF SuppliedFrom, Ordered
      <4> QED
        BY <1>0, <3>2, <4>2
    <3>4. CASE r \notin wire
      <4>1. r = got
        BY <1>0, <2>1, <3>1, <3>2, <3>4 DEF Control, Exchange, Busy
      <4> QED
        BY <1>0, <4>1
    <3> QED
      BY <3>3, <3>4
  <2>2. cphase[a] = "none" => got.chunk = 0
    <3>1. cphase[a] = "none" => \E r \in From(a, m) : r.chunk = 0 /\ r.seq > ccursor
      BY <1>4 DEF SuppliedFrom, Pending, Needed
    <3> QED
      BY <1>0, <2>1, <3>1
  <2>3. cphase'[a] # "none"
    BY <1>0, <1>1, <2>2
  <2>4. got.chunk <= chave[a] + 1
    <3>1. CASE chave[a] = Chunks
      BY <1>0, <3>1
    <3>2. CASE chave[a] # Chunks
      <4>1. chave[a] + 1 \in chave[a] + 1 .. Chunks
        BY <1>0, <3>2
      <4>2. PICK r \in From(a, m) : r.chunk = chave[a] + 1 /\ r.seq > ccursor
        BY <1>4, <4>1 DEF SuppliedFrom, Pending, Needed
      <4> QED
        BY <2>1, <4>2
    <3> QED
      BY <3>1, <3>2
  <2>5. cphase[a] # "none" /\ cphase[a] # "uploading" => chave[a] = Chunks
    BY <1>0 DEF Files, FileIsCounted, Phases
  <2>6. got.chunk <= chave[a]
    BY <1>0, <1>4, <2>2, <2>4, <2>5
  <2> QED
    BY <2>3, <2>6
<1>5. ASSUME NEW b \in Artifacts, NEW m \in Nat, SuppliedFrom(b, m)
      PROVE  Taken(b, m)'
  BY <1>1, <1>4, <1>5 DEF Taken
<1> QED
  BY <1>2, <1>3, <1>5 DEF Supply, SuppliedFrom

LEMMA CountSupply ==
    ASSUME Control, Files, Supply, Count PROVE Supply'
<1> USE DEF artifactVars, siteVars, history, centerFrame
<1> DEFINE a == got.art
<1>0. /\ cpc = "count" /\ a \in Artifacts /\ got.chunk \in Nat
      /\ cphase \in [Artifacts -> Phases] /\ chave \in [Artifacts -> 0 .. Chunks]
      /\ chave[a] \in Nat /\ Chunks \in Nat
      /\ cphase[a] = "uploading" /\ got.chunk = chave[a] + 1
  BY ChunkNumber DEF Control, Exchange, Count, Types, SiteTypes, CenterTypes, Rows, Files,
                     CountIsNext
<1>1. /\ UNCHANGED <<ccursor, got, phase, cursor, spc, todo, box, late, listed>>
      /\ chave' = [chave EXCEPT ![a] = got.chunk]
      /\ \A b \in Artifacts : cphase'[b] = "none" => cphase[b] = "none" /\ b # a
  BY <1>0 DEF Count
<1>2. \A b \in Artifacts : Passed(b)' = Passed(b)
  BY <1>1 DEF Passed
<1>3. ASSUME NEW b \in Artifacts, NEW m \in Nat, SuppliedFrom(b, m)
      PROVE  SuppliedFrom(b, m)'
  <2>1. \A c \in chave'[b] + 1 .. Chunks : c \in chave[b] + 1 .. Chunks
    <3>1. chave[b] \in Nat
      BY <1>0
    <3>2. chave'[b] = chave[b] \/ chave'[b] = chave[b] + 1
      BY <1>0, <1>1
    <3> QED
      BY <1>0, <3>1, <3>2
  <2>2. From(b, m)' = From(b, m) /\ \A c : Needed(b, m, c)' <=> Needed(b, m, c)
    BY <1>1 DEF Needed, From, Of
  <2>3. Ordered(b, m)' /\ Pending(b, m)'
    BY <1>1, <1>3, <2>1, <2>2 DEF SuppliedFrom, Ordered, Pending
  <2>4. Taken(b, m)'
    BY <1>0, <1>1 DEF Taken
  <2> QED
    BY <2>3, <2>4 DEF SuppliedFrom
<1> QED
  BY <1>2, <1>3 DEF Supply

\* The row in hand is the only one that the cursor passes now, and the
\* center has taken from it what it needed.
LEMMA AdvanceSupply ==
    ASSUME Control, Supply, AdvanceCursor PROVE Supply'
<1> USE DEF artifactVars, siteVars, history, centerFrame
<1>0. /\ cpc = "advance" /\ got \in Rows /\ box \subseteq Rows /\ ccursor \in Nat
      /\ chave \in [Artifacts -> 0 .. Chunks] /\ Chunks \in Nat
  BY ChunkNumber DEF Control, Exchange, AdvanceCursor, Types, SiteTypes, CenterTypes
<1>1. /\ UNCHANGED <<cphase, chave, got, phase, cursor, spc, todo, box, late, listed>>
      /\ ccursor' = got.seq /\ cpc' = "ack"
  BY DEF AdvanceCursor
<1>2. \A b \in Artifacts : Passed(b)' = Passed(b)
  BY <1>1 DEF Passed
<1>3. ASSUME NEW r \in box, r.seq > ccursor, r # got PROVE r.seq > got.seq
  <2>1. r.seq \in Nat /\ got.seq \in Nat
    BY <1>0 DEF Rows
  <2>2. r \in wire
    BY <1>0, <1>3, <2>1 DEF Control, Exchange, Busy
  <2> QED
    BY <1>0, <2>1, <2>2 DEF Control, Exchange
<1>4. ASSUME NEW b \in Artifacts, NEW m \in Nat, SuppliedFrom(b, m)
      PROVE  SuppliedFrom(b, m)'
  <2>1. From(b, m)' = From(b, m)
    BY <1>1 DEF From, Of
  <2>2. ASSUME NEW c, Needed(b, m, c), got \notin From(b, m) \/ c # got.chunk
        PROVE  Needed(b, m, c)'
    <3>1. PICK r \in From(b, m) : r.chunk = c /\ r.seq > ccursor
      BY <2>2 DEF Needed
    <3>2. r \in box /\ r # got
      BY <2>2, <3>1 DEF From, Of
    <3> QED
      BY <1>1, <1>3, <2>1, <3>1, <3>2 DEF Needed
  <2>3. got \in From(b, m) => cphase[b] # "none" /\ got.chunk <= chave[b]
    BY <1>0, <1>4 DEF SuppliedFrom, Taken, From, Of
  <2>4. \A c \in chave[b] + 1 .. Chunks : got \notin From(b, m) \/ c # got.chunk
    <3>1. chave[b] \in Nat /\ got.chunk \in Nat
      BY <1>0 DEF Rows
    <3> QED
      BY <1>0, <2>3, <3>1
  <2>5. Pending(b, m)'
    BY <1>1, <1>4, <2>2, <2>3, <2>4 DEF SuppliedFrom, Pending
  <2> QED
    BY <1>1, <1>4, <2>1, <2>5 DEF SuppliedFrom, Ordered, Taken
<1> QED
  BY <1>2, <1>4 DEF Supply

LEMMA AckSupply ==
    ASSUME Control, Supply, Ack PROVE Supply'
<1> USE DEF artifactVars, history
<1>0. /\ cpc = "ack" /\ got \in Rows /\ box \subseteq Rows /\ ccursor \in Nat
      /\ got.seq <= ccursor
  BY DEF Control, Exchange, Ack, Types, SiteTypes, CenterTypes
<1>1. /\ UNCHANGED <<cphase, chave, ccursor, phase, cursor, spc, todo, late, listed>>
      /\ cpc' = "receive" /\ box' \in {box, {r \in box : r.seq > got.seq}}
  BY DEF Ack
<1>2. \A b \in Artifacts : Passed(b)' => Passed(b)
  BY <1>1 DEF Passed
<1>3. box' \subseteq box /\ \A r \in box : r.seq > ccursor => r \in box'
  <2>1. got.seq \in Nat /\ \A r \in box : r.seq \in Nat
    BY <1>0 DEF Rows
  <2> QED
    BY <1>0, <1>1, <2>1
<1> QED
  BY <1>1, <1>2, <1>3, SupplyFrame DEF Of

LEMMA SupplyStep == Control /\ Files /\ Supply /\ [StreamNext]_vars => Supply'
<1> SUFFICES ASSUME Control, Files, Supply, [StreamNext]_vars PROVE Supply'
  OBVIOUS
<1> USE DEF siteVars, centerVars, artifactVars, siteFrame, centerFrame, history
<1>1. CASE \E a \in Artifacts : BecomeReady(a) \/ Damage(a) \/ Restore(a)
  BY <1>1, UploadSupply
<1>2. CASE EndStalled \/ EndQuiet \/ SiteStops
  BY <1>2, IdleSupply DEF EndStalled, EndQuiet, SiteStops, Down, WorkPcs
<1>3. CASE Connect \/ Flush
  BY <1>3, IdleSupply DEF Connect, Flush, WorkPcs
<1>4. CASE List
  BY <1>4, IdleSupply DEF List
<1>5. CASE CenterStops
  <2>1. UNCHANGED <<cphase, chave, ccursor, box, phase, cursor, late, listed>>
        /\ cpc' # "advance" /\ (spc' = "down" \/ UNCHANGED <<spc, todo>>)
    BY <1>5 DEF CenterStops, Down
  <2>2. \A a \in Artifacts : Passed(a)' => Passed(a)
    BY <2>1 DEF Passed, WorkPcs
  <2> QED
    BY <2>1, <2>2, SupplyFrame DEF Of
<1>6. CASE UNCHANGED vars
  <2>1. \A a \in Artifacts : Passed(a)' => Passed(a)
    BY <1>6 DEF Passed, vars
  <2> QED
    BY <1>6, <2>1, SupplyFrame DEF Of, vars
<1> QED
  BY <1>1, <1>2, <1>3, <1>4, <1>5, <1>6, ReportSupply, DropSupply, ManifestSupply,
     ChunkSupply, SaveSupply, ReceiveSupply, WriteSupply, CountSupply, AdvanceSupply, AckSupply
  DEF StreamNext, SiteStep, CenterStep

-----------------------------------------------------------------------------
(* The theorems.                                                           *)

\* The invariant holds in every reachable state: what the outbox, the wire,
\* the round in progress and the center's file say of each other.
THEOREM Inductive == StreamSpec => []IInv
<1>1. StreamInit => IInv
  BY ControlInit, FilesInit, SupplyInit DEF IInv
<1>2. IInv /\ [StreamNext]_vars => IInv'
  BY ControlStep, FilesStep, SupplyStep DEF IInv
<1> QED
  BY <1>1, <1>2, PTL DEF StreamSpec

\* The center never gets bytes it has to refuse, but for what a stall at an
\* earlier artifact left in the outbox (distribute_artifact) and what the
\* clean-up scan did not reach (retire_pending_artifact_entries).
THEOREM RefusalsHold == StreamSpec => []CenterRefusesOnlyLeftovers
<1>1. IInv => CenterRefusesOnlyLeftovers
  BY DEF IInv, Files
<1> QED
  BY <1>1, Inductive, PTL

\* The cursor covers only what is at the center or pending, but for what
\* became ready behind it (report_artifacts).
THEOREM CursorHolds == StreamSpec => []CursorCoversDelivered
<1>1. IInv => CursorCoversDelivered
  <2> SUFFICES ASSUME IInv, NEW a \in Artifacts \ late, phase[a] = "ready", a <= cursor
               PROVE  \A c \in chave[a] + 1 .. Chunks : \E r \in Of(a) : r.chunk = c
    BY DEF CursorCoversDelivered
  <2>1. PICK m \in Nat : SuppliedFrom(a, m)
    BY DEF IInv, Supply, Passed
  <2> QED
    BY <2>1 DEF SuppliedFrom, Pending, Needed, From
<1> QED
  BY <1>1, Inductive, PTL
=============================================================================
