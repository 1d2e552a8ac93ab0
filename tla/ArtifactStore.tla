----------------------------- MODULE ArtifactStore -----------------------------
(***************************************************************************)
(* Uploads of firmware artifacts (ArtifactStore): a row with the received  *)
(* count and a file, worked on by concurrent requests.  A request reads    *)
(* the row, works on the file and updates the row; the file work runs in a *)
(* blocking task that goes on when its request is cancelled.  A file is    *)
(* the sequence of its units: unit i of the declared content is i, a unit  *)
(* that is not of it is 0.  A client sends the same bytes for an offset    *)
(* every time (append_chunk relies on that), in pieces of any length.      *)
(***************************************************************************)
EXTENDS Naturals, Sequences

CONSTANTS
    Artifacts,
    NoArtifact,     \* no artifact
    Size,           \* units of every artifact
    Requests,       \* requests that run at one time
    MaxFaults       \* bound: crashes, failed calls and cancelled requests

ASSUME NoArtifactAssumption == NoArtifact \notin Artifacts
ASSUME SizeAssumption == Size \in Nat \ {0}
ASSUME FaultsAssumption == MaxFaults \in Nat

VARIABLES
    phase,          \* the row's state, or "none"
    received,       \* the row's uploaded_bytes
    good,           \* the artifacts whose client sends the declared bytes
    file,           \* the stored file
    rpc,            \* where each request is; "orphan" is a write without its request
    rart,           \* its artifact
    roff,           \* the received count it read
    rlen,           \* the length of its piece
    rpos,           \* how far its file work is
    rok,            \* whether the units hashed so far match
    faults

rowVars == <<phase, received>>
reqVars == <<rpc, rart, roff, rlen, rpos, rok>>
vars == <<rowVars, good, file, reqVars, faults>>

Init ==
    /\ phase = [a \in Artifacts |-> "none"]
    /\ received = [a \in Artifacts |-> 0]
    /\ good \in SUBSET Artifacts
    /\ file = [a \in Artifacts |-> <<>>]
    /\ rpc = [r \in Requests |-> "idle"] /\ rart = [r \in Requests |-> NoArtifact]
    /\ roff = [r \in Requests |-> 0] /\ rlen = [r \in Requests |-> 0]
    /\ rpos = [r \in Requests |-> 0] /\ rok = [r \in Requests |-> TRUE]
    /\ faults = 0

\* Unit i of what the client sends; its last unit is not the declared one
\* when the artifact is not good.
Unit(a, i) == IF a \notin good /\ i = Size THEN 0 ELSE i

TakeFault == faults < MaxFaults /\ faults' = faults + 1

Goto(r, next) ==
    /\ rpc' = [rpc EXCEPT ![r] = next]
    /\ UNCHANGED <<rart, roff, rlen, rpos, rok>>

Start(r, next, a, len) ==
    /\ rpc' = [rpc EXCEPT ![r] = next]
    /\ rart' = [rart EXCEPT ![r] = a]
    /\ roff' = [roff EXCEPT ![r] = received[a]]
    /\ rlen' = [rlen EXCEPT ![r] = len]
    /\ rpos' = [rpos EXCEPT ![r] = 0]
    /\ rok' = [rok EXCEPT ![r] = TRUE]

Return(r) ==
    /\ rpc' = [rpc EXCEPT ![r] = "idle"]
    /\ rart' = [rart EXCEPT ![r] = NoArtifact]
    /\ roff' = [roff EXCEPT ![r] = 0]
    /\ rlen' = [rlen EXCEPT ![r] = 0]
    /\ rpos' = [rpos EXCEPT ![r] = 0]
    /\ rok' = [rok EXCEPT ![r] = TRUE]

-----------------------------------------------------------------------------
(* The row.                                                                *)

create(a) ==
    /\ phase[a] = "none"
    /\ phase' = [phase EXCEPT ![a] = "uploading"]
    /\ UNCHANGED <<received, good, file, reqVars, faults>>

\* Mutant: the transaction does not look at the stored row.
update_artifactBlind(a, n, state) ==
    /\ phase' = [phase EXCEPT ![a] = state]
    /\ received' = [received EXCEPT ![a] = n]

\* Mutant: progress must grow with every update, the verdict's too.
update_artifactStrict(a, n, state) ==
    IF phase[a] = "uploading" /\ received[a] < n /\ n <= Size
    THEN /\ phase' = [phase EXCEPT ![a] = state]
         /\ received' = [received EXCEPT ![a] = n]
    ELSE UNCHANGED rowVars

\* One transaction; a refusal leaves the row as it is.
update_artifact(a, n, state) ==
    IF /\ phase[a] = "uploading"
       /\ received[a] <= n /\ n <= Size
       /\ state = "ready" => n = Size
    THEN /\ phase' = [phase EXCEPT ![a] = state]
         /\ received' = [received EXCEPT ![a] = n]
    ELSE UNCHANGED rowVars

-----------------------------------------------------------------------------
(* append_chunk.  A piece at another offset than the received count, and   *)
(* an empty one, are answered without any effect.                          *)

AppendRead(r, a, len) ==
    /\ rpc[r] = "idle"
    /\ phase[a] = "uploading"
    /\ received[a] + len <= Size
    /\ Start(r, "write", a, len)
    /\ UNCHANGED <<rowVars, good, file, faults>>

\* Mutant: the unit goes to the current end of the file.
write_chunkAppends(f, i, unit) == IF Len(f) < Size THEN Append(f, unit) ELSE f

\* The unit lands at its place; one past the end fills the gap with zeros.
write_chunk(f, i, unit) ==
    [j \in 1 .. (IF i > Len(f) THEN i ELSE Len(f)) |->
        IF j = i THEN unit ELSE IF j <= Len(f) THEN f[j] ELSE 0]

WriteUnit(r) ==
    /\ rpc[r] \in {"write", "orphan"}
    /\ LET a == rart[r]
           i == roff[r] + rpos[r] + 1
       IN file' = [file EXCEPT ![a] = write_chunk(@, i, Unit(a, i))]
    /\ IF rpos[r] + 1 < rlen[r]
       THEN rpos' = [rpos EXCEPT ![r] = @ + 1] /\ UNCHANGED <<rpc, rart, roff, rlen, rok>>
       ELSE IF rpc[r] = "orphan" THEN Return(r) ELSE Goto(r, "advance")
    /\ UNCHANGED <<rowVars, good, faults>>

Advance(r) ==
    /\ rpc[r] = "advance"
    /\ update_artifact(rart[r], roff[r] + rlen[r], "uploading")
    /\ Return(r)
    /\ UNCHANGED <<good, file, faults>>

-----------------------------------------------------------------------------
(* finalize.                                                               *)

FinalizeRead(r, a) ==
    /\ rpc[r] = "idle"
    /\ phase[a] = "uploading"
    /\ Start(r, IF received[a] < Size THEN "failed" ELSE "hash", a, 0)
    /\ UNCHANGED <<rowVars, good, file, faults>>

\* Mutant: only the length of the file is compared.
HashUnitLength(r) ==
    /\ rpc[r] = "hash"
    /\ Goto(r, IF Len(file[rart[r]]) = Size THEN "ready" ELSE "failed")
    /\ UNCHANGED <<rowVars, good, file, faults>>

\* hash_file reads up to the end of the file.
HashUnit(r) ==
    /\ rpc[r] = "hash"
    /\ LET f == file[rart[r]]
           i == rpos[r] + 1
       IN IF i <= Len(f)
          THEN /\ rpos' = [rpos EXCEPT ![r] = i]
               /\ rok' = [rok EXCEPT ![r] = @ /\ f[i] = i]
               /\ UNCHANGED <<rpc, rart, roff, rlen>>
          ELSE Goto(r, IF rok[r] /\ rpos[r] = Size THEN "ready" ELSE "failed")
    /\ UNCHANGED <<rowVars, good, file, faults>>

\* The verdict carries the count that was read at the start.
Verdict(r) ==
    /\ rpc[r] \in {"ready", "failed"}
    /\ update_artifact(rart[r], roff[r], rpc[r])
    /\ Return(r)
    /\ UNCHANGED <<good, file, faults>>

-----------------------------------------------------------------------------
(* Failures.                                                               *)

\* A store call fails, or the request is cancelled: a started write goes on.
RequestFails(r) ==
    /\ rpc[r] \notin {"idle", "orphan"} /\ TakeFault
    /\ IF rpc[r] = "write" THEN Goto(r, "orphan") ELSE Return(r)
    /\ UNCHANGED <<rowVars, good, file>>

\* The process dies, in the middle of a write perhaps.
Crash ==
    /\ TakeFault
    /\ rpc' = [r \in Requests |-> "idle"] /\ rart' = [r \in Requests |-> NoArtifact]
    /\ roff' = [r \in Requests |-> 0] /\ rlen' = [r \in Requests |-> 0]
    /\ rpos' = [r \in Requests |-> 0] /\ rok' = [r \in Requests |-> TRUE]
    /\ UNCHANGED <<rowVars, good, file>>

Step(r) == WriteUnit(r) \/ Advance(r) \/ HashUnit(r) \/ Verdict(r)

Next ==
    \/ \E a \in Artifacts : create(a)
    \/ \E r \in Requests, a \in Artifacts :
          \/ \E len \in 1 .. Size : AppendRead(r, a, len)
          \/ FinalizeRead(r, a)
    \/ \E r \in Requests : Step(r) \/ RequestFails(r)
    \/ Crash

Spec == Init /\ [][Next]_vars

\* Requests go on, and the client resumes its upload at the received count
\* until it is complete, and then finalizes it.
Fairness ==
    /\ \A r \in Requests : WF_vars(Step(r))
    /\ \A a \in Artifacts :
          /\ WF_vars(\E r \in Requests, len \in 1 .. Size : AppendRead(r, a, len))
          /\ WF_vars(received[a] = Size /\ \E r \in Requests : FinalizeRead(r, a))

FairSpec == Spec /\ Fairness

-----------------------------------------------------------------------------
(* Properties.                                                             *)

\* The resume point is honest: the bytes before the received count are in
\* the file, whatever requests overlapped, were cancelled or died between
\* the write and the row (append_chunk).
ProgressIsWritten ==
    \A a \in Artifacts : /\ received[a] <= Len(file[a])
                         /\ \A i \in 1 .. received[a] : file[a][i] = Unit(a, i)

\* A ready artifact's file has the declared bytes, also while overtaken
\* requests still write to it (finalize; the executor sends the file of a
\* ready row without another check).
ReadyMatchesDigest ==
    \A a \in Artifacts : phase[a] = "ready" => file[a] = [i \in 1 .. Size |-> i]

Contract == INSTANCE ArtifactContract
            WITH complete <- {a \in Artifacts : received[a] = Size}

\* The store keeps the contract: one verdict, never revised; Ready only for
\* the declared bytes; a complete upload of them never fails, although the
\* verdict is decided on a row read earlier.
ImplementsContract == Contract!Spec

\* An interrupted upload is resumed or fails explicitly (finalize's
\* acceptance criterion).
UploadEnds ==
    \A a \in Artifacts : phase[a] = "uploading" ~> phase[a] \in {"ready", "failed"}
=============================================================================
