---------------------------- MODULE ArtifactStream ----------------------------
(***************************************************************************)
(* The distribution of ready artifacts to the center: the site reports     *)
(* once per connection what lies past its cursor, through the durable      *)
(* outbox it shares with the other reports; the center assembles the       *)
(* chunks and verifies the digest.                                         *)
(* Artifacts are numbered in the order of their created_at.  The uploads   *)
(* are those of ArtifactContract.                                          *)
(***************************************************************************)
EXTENDS ArtifactContract, Naturals, Sequences, FiniteSetsExt

CONSTANTS
    Chunks,         \* chunks of every artifact
    Window,         \* artifact_set_size_bound: the rows a clean-up scan reads
    Batches,        \* bound: the numbers of rows that the other reports queue
    LastBatch,      \* bound: the last sequence at which they queue any
    LastStall,      \* bound: the last at which a stalled round ends unrestored
    MaxDamaged,     \* bound: files damaged in a behaviour, each once
    MaxFaults       \* bound: crashes, failed calls and lost connections

ASSUME ArtifactsAssumption ==
    IsFiniteSet(Artifacts) /\ Artifacts = 1 .. Cardinality(Artifacts)
ASSUME StreamAssumption ==
    /\ Chunks \in Nat \ {0} /\ Window \in Nat /\ Window > Chunks
    /\ Batches \subseteq Nat
    /\ {LastBatch, LastStall, MaxDamaged, MaxFaults} \subseteq Nat

VARIABLES
    disk,           \* the site's file: "intact", "missing", or "wrong" bytes
    cursor,         \* the artifact stream cursor, 0 at first
    box,            \* the pending outbox rows; their sequence orders them
    nextSeq,        \* the next outbox sequence
    spc,            \* where the site's engine is
    todo,           \* the ready artifacts past the cursor still to distribute
    part,           \* the next chunk of the artifact in hand
    began,          \* the sequence at which its distribution began
    digestOk,       \* the chunks read so far have the declared bytes
    newest,         \* newest_distributed
    cphase,         \* the center's row: "none", "uploading", "ready", "failed"
    chave,          \* the chunks the center's row counts
    cfile,          \* the center's file: the chunks written, TRUE if declared bytes
    ccursor,        \* the highest sequence the center has processed
    cpc,            \* where the center's session is
    got,            \* the row in hand
    wire,           \* the rows sent on this connection and not yet received
    listed,         \* history: what the last report found past the cursor
    late,           \* history: became ready behind the cursor
    left,           \* history: wrong bytes sent because an earlier one stalled
    hidden,         \* history: wrong bytes that the clean-up scan did not reach
    damaged, faults \* what is used up of the bounds

siteVars == <<cursor, box, nextSeq, spc, todo, part, began, digestOk, newest>>
centerVars == <<cphase, chave, cfile, ccursor, cpc, got, wire>>
history == <<listed, late, left, hidden>>
used == <<damaged, faults>>
vars == <<artifactVars, disk, siteVars, centerVars, history, used>>

Row(seq, a, i, ok) == [seq |-> seq, art |-> a, chunk |-> i, ok |-> ok]
Other == 0          \* a row of another report: no artifact has this number
NoRow == Row(0, Other, 0, TRUE)

\* The artifacts are declared and their bytes received before the first
\* connection; one whose upload fails never enters the stream.
StreamInit ==
    /\ phase = [a \in Artifacts |-> "uploading"]
    /\ good = Artifacts /\ complete = Artifacts
    /\ disk = [a \in Artifacts |-> "intact"]
    /\ cursor = 0 /\ box = {} /\ nextSeq = 1 /\ spc = "down"
    /\ todo = {} /\ part = 1 /\ began = 0 /\ digestOk = TRUE /\ newest = 0
    /\ cphase = [a \in Artifacts |-> "none"]
    /\ chave = [a \in Artifacts |-> 0] /\ cfile = [a \in Artifacts |-> <<>>]
    /\ ccursor = 0 /\ cpc = "receive" /\ got = NoRow /\ wire = {}
    /\ listed = {} /\ late = {} /\ left = {} /\ hidden = {}
    /\ damaged = {} /\ faults = 0

TakeFault == faults < MaxFaults /\ faults' = faults + 1

-----------------------------------------------------------------------------
(* Uploads and files.                                                      *)

BecomeReady(a) ==
    /\ MarkReady(a)
    /\ late' = IF a <= cursor THEN late \cup {a} ELSE late
    /\ UNCHANGED <<disk, siteVars, centerVars, listed, left, hidden, used>>

\* A ready file is lost or damaged, and restored by the operator.
Damage(a) ==
    /\ phase[a] = "ready" /\ disk[a] = "intact"
    /\ a \notin damaged /\ Cardinality(damaged) < MaxDamaged
    /\ damaged' = damaged \cup {a}
    /\ \E d \in {"missing", "wrong"} : disk' = [disk EXCEPT ![a] = d]
    /\ UNCHANGED <<artifactVars, siteVars, centerVars, history, faults>>

Restore(a) ==
    /\ disk[a] # "intact"
    /\ disk' = [disk EXCEPT ![a] = "intact"]
    /\ UNCHANGED <<artifactVars, siteVars, centerVars, history, used>>

-----------------------------------------------------------------------------
(* The site: report_artifacts and distribute_artifact.                     *)

siteFrame == <<artifactVars, disk, centerVars, history, used>>

\* The center takes a connection when it has none of the site.
Connect ==
    /\ spc = "down" /\ cpc = "receive"
    /\ spc' = "report"
    /\ wire' = {}
    /\ UNCHANGED <<artifactVars, disk, cursor, box, nextSeq, todo, part, began, digestOk,
                   newest, cphase, chave, cfile, ccursor, cpc, got, history, used>>

\* report_center_operations, report_endpoint_projection, report_event_batch:
\* their rows go before the artifacts' into the same outbox.
Report ==
    /\ spc = "report"
    /\ spc' = "list"
    /\ \E n \in Batches :
          /\ n = 0 \/ nextSeq <= LastBatch
          /\ box' = box \cup {Row(q, Other, 0, TRUE) : q \in nextSeq .. nextSeq + n - 1}
          /\ nextSeq' = nextSeq + n
    /\ UNCHANGED <<cursor, todo, part, began, digestOk, newest>>
    /\ UNCHANGED siteFrame

\* The report goes through them in the order of their numbers.
PastCursor == {a \in Artifacts : phase[a] = "ready" /\ a > cursor}
Current == Min(todo)

\* Mutant: the cursor is saved before the rows are queued.
ListSavesCursor ==
    /\ spc = "list"
    /\ todo' = PastCursor
    /\ newest' = 0
    /\ cursor' = IF PastCursor = {} THEN cursor ELSE Max(PastCursor)
    /\ spc' = IF PastCursor = {} THEN "flush" ELSE "clean"
    /\ listed' = PastCursor
    /\ UNCHANGED <<box, nextSeq, part, began, digestOk>>
    /\ UNCHANGED <<artifactVars, disk, centerVars, late, left, hidden, used>>

List ==
    /\ spc = "list"
    /\ todo' = PastCursor
    /\ newest' = 0
    /\ spc' = IF PastCursor = {} THEN "flush" ELSE "clean"
    /\ listed' = PastCursor
    /\ UNCHANGED <<cursor, box, nextSeq, part, began, digestOk>>
    /\ UNCHANGED <<artifactVars, disk, centerVars, late, left, hidden, used>>

Of(a) == {r \in box : r.art = a}
Oldest(rows) == CHOOSE r \in rows : \A s \in rows : r.seq <= s.seq

\* list_pending: the oldest rows of the outbox, whatever they carry.
Scanned == {r \in box : Cardinality({o \in box : o.seq < r.seq}) < Window}

\* retire_pending_artifact_entries: one acknowledgement at a time, until a
\* scan shows no row of the artifact.  Rows behind the scan stay.
Clean ==
    /\ spc = "clean"
    /\ LET stale == Scanned \cap Of(Current)
       IN IF stale # {}
          THEN box' = box \ {Oldest(stale)} /\ UNCHANGED <<spc, hidden>>
          ELSE /\ spc' = "manifest" /\ UNCHANGED box
               /\ hidden' = IF \E r \in Of(Current) : ~r.ok THEN hidden \cup {Current}
                            ELSE hidden
    /\ UNCHANGED <<cursor, nextSeq, todo, part, began, digestOk, newest>>
    /\ UNCHANGED <<artifactVars, disk, centerVars, listed, late, left, used>>

Enqueue(row) == box' = box \cup {row} /\ nextSeq' = nextSeq + 1

\* The manifest follows the first chunk's read; a missing file stalls the
\* stream before anything is queued.
EnqueueManifest ==
    /\ spc = "manifest"
    /\ IF disk[Current] = "missing"
       THEN spc' = "flush" /\ UNCHANGED <<box, nextSeq>>
       ELSE spc' = "chunk" /\ Enqueue(Row(nextSeq, Current, 0, TRUE))
    /\ part' = 1 /\ began' = nextSeq /\ digestOk' = TRUE
    /\ UNCHANGED <<cursor, todo, newest>>
    /\ UNCHANGED siteFrame

\* The reader streams the chunks and compares the digest at the end; an
\* open file can be read to its end, a damaged one gives wrong bytes.
EnqueueChunk ==
    /\ spc = "chunk"
    /\ LET a == Current
           ok == disk[a] # "wrong"
       IN IF part <= Chunks
          THEN /\ Enqueue(Row(nextSeq, a, part, ok))
               /\ part' = part + 1
               /\ digestOk' = (digestOk /\ ok)
               /\ UNCHANGED <<spc, todo, newest>>
          ELSE /\ IF digestOk
                  THEN /\ newest' = a /\ todo' = todo \ {a}
                       /\ spc' = IF todo = {a} THEN "save" ELSE "clean"
                  ELSE spc' = "retire" /\ UNCHANGED <<todo, newest>>
               /\ UNCHANGED <<box, nextSeq, part, digestOk>>
    /\ UNCHANGED <<cursor, began>>
    /\ UNCHANGED siteFrame

\* distribution_entries: the rows that this distribution has queued.
Ledger == {r \in Of(Current) : r.seq >= began}

\* Mutant: the rows queued before the refusal are left to the next round.
RetireRefusedLater ==
    /\ spc = "retire"
    /\ spc' = "flush"
    /\ UNCHANGED <<cursor, box, nextSeq, todo, part, began, digestOk, newest>>
    /\ UNCHANGED siteFrame

\* A refused file: the rows of this round are retired and the stream stops;
\* the cursor is left alone.
RetireRefused ==
    /\ spc = "retire"
    /\ IF Ledger # {}
       THEN box' = box \ {Oldest(Ledger)} /\ UNCHANGED spc
       ELSE spc' = "flush" /\ UNCHANGED box
    /\ UNCHANGED <<cursor, nextSeq, todo, part, began, digestOk, newest>>
    /\ UNCHANGED siteFrame

SaveCursor ==
    /\ spc = "save"
    /\ cursor' = newest
    /\ spc' = "flush"
    /\ late' = late \cup {a \in 1 .. newest : phase[a] = "ready" /\ a \notin listed
                                             /\ a > cursor}
    /\ UNCHANGED <<box, nextSeq, todo, part, began, digestOk, newest>>
    /\ UNCHANGED <<artifactVars, disk, centerVars, listed, left, hidden, used>>

\* flush_outbox: every pending row, also those of an artifact that this
\* round did not reach.
Flush ==
    /\ spc = "flush"
    /\ spc' = "up"
    /\ wire' = box
    /\ left' = left \cup {a \in Artifacts : /\ todo # {} /\ a > Current
                                            /\ \E r \in Of(a) : ~r.ok}
    /\ UNCHANGED <<artifactVars, disk, cursor, box, nextSeq, todo, part, began, digestOk,
                   newest, cphase, chave, cfile, ccursor, cpc, got, listed, late, hidden,
                   used>>

Down ==
    /\ spc' = "down" /\ todo' = {} /\ part' = 1 /\ began' = 0 /\ digestOk' = TRUE
    /\ newest' = 0
    /\ UNCHANGED <<cursor, box, nextSeq>>

\* The stall timer ends a connection whose report stopped at an artifact.
EndStalled ==
    /\ spc = "up" /\ todo # {}
    /\ nextSeq <= LastStall \/ \A a \in Artifacts : disk[a] = "intact"
    /\ Down
    /\ UNCHANGED siteFrame

\* A quiet connection may end at any time, and need not.
EndQuiet ==
    /\ spc = "up" /\ todo = {} /\ cpc = "receive" /\ wire = {}
    /\ Down
    /\ UNCHANGED siteFrame

\* The connection breaks, a store call of the engine fails, or the site dies.
SiteStops ==
    /\ spc # "down" /\ TakeFault
    /\ Down
    /\ UNCHANGED <<artifactVars, disk, centerVars, history, damaged>>

-----------------------------------------------------------------------------
(* The center: consume_artifact_manifest and consume_artifact_chunk.       *)

centerFrame == <<artifactVars, disk, siteVars, history, used>>

\* What was sent before a connection broke may still be received.  A
\* sequence the cursor covers was processed before; a row of another report
\* is processed by another handler.
Receive ==
    /\ cpc = "receive" /\ wire # {}
    /\ got' = Oldest(wire) /\ wire' = wire \ {Oldest(wire)}
    /\ cpc' = IF got'.seq <= ccursor \/ got'.art = Other THEN "ack" ELSE "write"
    /\ ccursor' = IF got'.seq > ccursor /\ got'.art = Other THEN got'.seq ELSE ccursor
    /\ UNCHANGED <<cphase, chave, cfile>>
    /\ UNCHANGED centerFrame

\* Mutant: the bytes are written at the end of the file.
WriteAtEnd(f, i, ok) == Append(f, ok)

WriteAt(f, i, ok) ==
    [j \in 1 .. (IF i > Len(f) THEN i ELSE Len(f)) |-> IF j = i THEN ok ELSE f[j]]

\* The manifest declares the row; the next chunk in order is written; any
\* other frame is absorbed.
Write ==
    /\ cpc = "write"
    /\ LET a == got.art
           next == got.chunk # 0 /\ cphase[a] = "uploading" /\ got.chunk = chave[a] + 1
       IN /\ cphase' = [cphase EXCEPT ![a] =
                           IF got.chunk = 0 /\ @ = "none" THEN "uploading" ELSE @]
          /\ cfile' = IF next
                      THEN [cfile EXCEPT ![a] = WriteAt(@, got.chunk, got.ok)]
                      ELSE cfile
          /\ cpc' = IF next THEN "count" ELSE "advance"
    /\ UNCHANGED <<chave, ccursor, got, wire>>
    /\ UNCHANGED centerFrame

\* The row advances; the last chunk brings the verdict (finalize_artifact).
Count ==
    /\ cpc = "count"
    /\ chave' = [chave EXCEPT ![got.art] = got.chunk]
    /\ cphase' = [cphase EXCEPT ![got.art] =
                     IF got.chunk < Chunks THEN @
                     ELSE IF cfile[got.art] = [i \in 1 .. Chunks |-> TRUE]
                          THEN "ready" ELSE "failed"]
    /\ cpc' = "advance"
    /\ UNCHANGED <<cfile, ccursor, got, wire>>
    /\ UNCHANGED centerFrame

AdvanceCursor ==
    /\ cpc = "advance"
    /\ ccursor' = got.seq
    /\ cpc' = "ack"
    /\ UNCHANGED <<cphase, chave, cfile, got, wire>>
    /\ UNCHANGED centerFrame

\* The acknowledgement retires at the site what was sent up to this row, or
\* is lost with the connection.  All of the outbox was sent (Flush).
Ack ==
    /\ cpc = "ack"
    /\ box' = IF spc = "up" THEN {r \in box : r.seq > got.seq} ELSE box
    /\ cpc' = "receive" /\ got' = NoRow
    /\ UNCHANGED <<cursor, nextSeq, spc, todo, part, began, digestOk, newest,
                   cphase, chave, cfile, ccursor, wire>>
    /\ UNCHANGED <<artifactVars, disk, history, used>>

\* The center dies or a call of the session fails: the connection ends.
CenterStops ==
    /\ cpc # "receive" /\ TakeFault
    /\ cpc' = "receive" /\ got' = NoRow /\ wire' = {}
    /\ IF spc = "up" THEN Down ELSE UNCHANGED siteVars
    /\ UNCHANGED <<cphase, chave, cfile, ccursor>>
    /\ UNCHANGED <<artifactVars, disk, history, damaged>>

SiteStep ==
    \/ Connect \/ Report \/ List \/ Clean \/ EnqueueManifest \/ EnqueueChunk
    \/ RetireRefused \/ SaveCursor \/ Flush \/ EndStalled

CenterStep == Receive \/ Write \/ Count \/ AdvanceCursor \/ Ack

StreamNext ==
    \/ \E a \in Artifacts : BecomeReady(a) \/ Damage(a) \/ Restore(a)
    \/ SiteStep \/ EndQuiet \/ SiteStops
    \/ CenterStep \/ CenterStops

StreamSpec == StreamInit /\ [][StreamNext]_vars

\* The engines go on and the site dials for ever (connect_loop).  That
\* damaged files are restored is an assumption: the stream waits for the
\* operator.
StreamFairness ==
    /\ WF_vars(SiteStep) /\ WF_vars(CenterStep)
    /\ \A a \in Artifacts : WF_vars(Restore(a))

FairStreamSpec == StreamSpec /\ StreamFairness

-----------------------------------------------------------------------------
(* Properties.                                                             *)

\* The center never gets bytes it has to refuse, although the site queues
\* chunks before it knows the digest and may die before it retires them
\* (distribute_artifact).  Rows that a dead round left are retired when their
\* artifact is reached, with two exceptions: a stream that stalls at an
\* earlier artifact does not reach it, and the scan of the clean-up does not
\* see rows that have Window pending ones before them.
CenterRefusesOnlyLeftovers ==
    \A a \in Artifacts : cphase[a] = "failed" => a \in left \cup hidden

\* Nothing is skipped: an artifact the cursor has passed is at the center,
\* or the rows it still needs are pending.  The exception is an artifact
\* that became ready behind the cursor.
CursorCoversDelivered ==
    \A a \in Artifacts \ late :
        phase[a] = "ready" /\ a <= cursor =>
            \/ cphase[a] = "ready"
            \/ \A c \in chave[a] + 1 .. Chunks : \E r \in Of(a) : r.chunk = c

\* Every ready artifact reaches the center, with these exceptions, provided
\* that the site is without a connection again and again: report_artifacts
\* runs once per connection, and nothing ends a quiet one.
ReadyReachesCenter ==
    []<>(spc = "down") =>
        \A a \in Artifacts :
            phase[a] = "ready" ~> cphase[a] = "ready" \/ a \in late \cup left \cup hidden
=============================================================================
