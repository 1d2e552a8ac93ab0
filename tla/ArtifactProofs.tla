---------------------------- MODULE ArtifactProofs ----------------------------
(***************************************************************************)
(* Proofs about the artifact store, for any number of artifacts and        *)
(* requests, any size and any number of faults.                            *)
(***************************************************************************)
EXTENDS ArtifactStore, TLAPS

RequestPcs == {"idle", "write", "orphan", "advance", "hash", "ready", "failed"}

Types ==
    /\ phase \in [Artifacts -> {"none", "uploading", "ready", "failed"}]
    /\ received \in [Artifacts -> 0 .. Size]
    /\ good \subseteq Artifacts
    /\ file \in [Artifacts -> Seq(Nat)]
    /\ rpc \in [Requests -> RequestPcs]
    /\ rart \in [Requests -> Artifacts \cup {NoArtifact}]
    /\ roff \in [Requests -> 0 .. Size]
    /\ rlen \in [Requests -> 0 .. Size]
    /\ rpos \in [Requests -> 0 .. Size]
    /\ rok \in [Requests -> BOOLEAN]

\* A file never has a gap nor a unit that its client did not send, at any
\* place, although unacknowledged writes reach past the received count.
FileIsPrefix ==
    \A a \in Artifacts :
        /\ Len(file[a]) <= Size
        /\ \A i \in 1 .. Len(file[a]) : file[a][i] = Unit(a, i)

ReceivedIsThere == \A a \in Artifacts : received[a] <= Len(file[a])

\* What a request has read is behind the row, and what it will write starts
\* inside its file.
IsBehind(r) ==
    rpc[r] # "idle" =>
        /\ rart[r] \in Artifacts
        /\ roff[r] <= received[rart[r]]
        /\ rpc[r] \in {"write", "orphan"} =>
              /\ rpos[r] < rlen[r]
              /\ roff[r] + rlen[r] <= Size
              /\ roff[r] + rpos[r] <= Len(file[rart[r]])
        /\ rpc[r] = "advance" => roff[r] + rlen[r] <= Len(file[rart[r]])

RequestIsBehind == \A r \in Requests : IsBehind(r)

\* A verdict is decided by the declared bytes alone, because a row that was
\* read complete has its whole file.
VerdictIsFounded ==
    \A r \in Requests :
        /\ rpc[r] \in {"hash", "ready"} => roff[r] = Size
        /\ rpc[r] = "hash" => (rok[r] <=> \A i \in 1 .. rpos[r] : Unit(rart[r], i) = i)
        /\ rpc[r] = "ready" => rart[r] \in good
        /\ rpc[r] = "failed" => roff[r] < Size \/ rart[r] \notin good

RowIsFounded ==
    \A a \in Artifacts :
        /\ phase[a] = "none" => received[a] = 0
        /\ phase[a] = "ready" => received[a] = Size /\ a \in good

IInv ==
    /\ Types /\ FileIsPrefix /\ ReceivedIsThere
    /\ RequestIsBehind /\ VerdictIsFounded /\ RowIsFounded

-----------------------------------------------------------------------------
(* Lemmas about the operators.                                             *)

\* write_chunk at a place inside the file or right after it leaves a longer
\* or equal file that differs at that place alone.
LEMMA WriteChunkProperties ==
    ASSUME NEW f \in Seq(Nat), NEW i \in 1 .. Len(f) + 1, NEW u \in Nat
    PROVE  /\ write_chunk(f, i, u) \in Seq(Nat)
           /\ Len(write_chunk(f, i, u)) = IF i > Len(f) THEN i ELSE Len(f)
           /\ \A j \in 1 .. Len(write_chunk(f, i, u)) :
                 write_chunk(f, i, u)[j] = IF j = i THEN u ELSE f[j]
<1> DEFINE n == IF i > Len(f) THEN i ELSE Len(f)
           g == write_chunk(f, i, u)
<1>1. Len(f) \in Nat /\ n \in Nat /\ (n = Len(f) \/ (n = i /\ i = Len(f) + 1))
  OBVIOUS
<1>2. \A j \in 1 .. Len(f) : f[j] \in Nat
  OBVIOUS
<1>3. g = [j \in 1 .. n |-> IF j = i THEN u ELSE IF j <= Len(f) THEN f[j] ELSE 0]
  BY DEF write_chunk
<1>4. \A j \in 1 .. n : j # i => j \in 1 .. Len(f)
  BY <1>1
<1>5. g \in [1 .. n -> Nat]
  BY <1>1, <1>2, <1>3
<1>6. g \in Seq(Nat) /\ Len(g) = n
  BY <1>1, <1>5
<1>7. \A j \in 1 .. n : g[j] = IF j = i THEN u ELSE f[j]
  BY <1>1, <1>3, <1>4
<1> QED
  BY <1>6, <1>7

\* update_artifact refuses, or moves an uploading row forward.
LEMMA UpdateProperties ==
    ASSUME Types, NEW a \in Artifacts, NEW n \in Nat,
           NEW s \in {"uploading", "ready", "failed"}, update_artifact(a, n, s)
    PROVE  \/ UNCHANGED <<phase, received>>
           \/ /\ phase[a] = "uploading" /\ received[a] <= n /\ n <= Size
              /\ s = "ready" => n = Size
              /\ phase' = [phase EXCEPT ![a] = s]
              /\ received' = [received EXCEPT ![a] = n]
BY DEF update_artifact, rowVars

\* The unit a client sends is a number, and bad content shows in the last
\* unit alone.
LEMMA UnitProperties ==
    ASSUME NEW a, NEW i \in 1 .. Size
    PROVE  Unit(a, i) \in Nat /\ (Unit(a, i) = i <=> a \in good \/ i # Size)
BY SizeAssumption DEF Unit

-----------------------------------------------------------------------------
(* The invariant is inductive.                                             *)

LEMMA InitIInv == Init => IInv
<1> SUFFICES ASSUME Init PROVE IInv
  OBVIOUS
<1>1. Types
  BY SizeAssumption DEF Init, Types, RequestPcs
<1>2. \A a \in Artifacts : file[a] = <<>> /\ received[a] = 0 /\ phase[a] = "none"
  BY DEF Init
<1>3. FileIsPrefix /\ ReceivedIsThere /\ RowIsFounded
  BY <1>2, SizeAssumption DEF FileIsPrefix, ReceivedIsThere, RowIsFounded
<1>4. RequestIsBehind /\ VerdictIsFounded
  BY DEF Init, RequestIsBehind, IsBehind, VerdictIsFounded
<1> QED
  BY <1>1, <1>3, <1>4 DEF IInv

\* The step of one request that leaves the rows and files alone: what holds
\* of the other requests stays true.
LEMMA RequestStep ==
    ASSUME IInv, NEW r \in Requests, UNCHANGED <<phase, received, good, file>>,
           NEW p \in RequestPcs, NEW a \in Artifacts \cup {NoArtifact},
           NEW off \in 0 .. Size, NEW len \in 0 .. Size, NEW pos \in 0 .. Size,
           NEW ok \in BOOLEAN,
           rpc' = [rpc EXCEPT ![r] = p], rart' = [rart EXCEPT ![r] = a],
           roff' = [roff EXCEPT ![r] = off], rlen' = [rlen EXCEPT ![r] = len],
           rpos' = [rpos EXCEPT ![r] = pos], rok' = [rok EXCEPT ![r] = ok],
           p # "idle" =>
              /\ a \in Artifacts
              /\ off <= received[a]
              /\ p \in {"write", "orphan"} =>
                    pos < len /\ off + len <= Size /\ off + pos <= Len(file[a])
              /\ p = "advance" => off + len <= Len(file[a]),
           p \in {"hash", "ready"} => off = Size,
           p = "hash" => (ok <=> \A i \in 1 .. pos : Unit(a, i) = i),
           p = "ready" => a \in good,
           p = "failed" => off < Size \/ a \notin good
    PROVE  IInv'
<1>1. Types'
  BY DEF IInv, Types
<1>2. FileIsPrefix' /\ ReceivedIsThere' /\ RowIsFounded'
  BY DEF IInv, FileIsPrefix, ReceivedIsThere, RowIsFounded, Unit
<1>3. /\ rpc'[r] = p /\ rart'[r] = a /\ roff'[r] = off
      /\ rlen'[r] = len /\ rpos'[r] = pos /\ rok'[r] = ok
  BY DEF IInv, Types
<1>4. \A q \in Requests \ {r} :
         /\ rpc'[q] = rpc[q] /\ rart'[q] = rart[q] /\ roff'[q] = roff[q]
         /\ rlen'[q] = rlen[q] /\ rpos'[q] = rpos[q] /\ rok'[q] = rok[q]
  BY DEF IInv, Types
<1>5. RequestIsBehind'
  BY <1>3, <1>4 DEF IInv, RequestIsBehind, IsBehind
<1>6. \A b, i : Unit(b, i)' = Unit(b, i)
  BY DEF Unit
<1>7. VerdictIsFounded'
  BY <1>3, <1>4, <1>6 DEF IInv, VerdictIsFounded
<1> QED
  BY <1>1, <1>2, <1>5, <1>7 DEF IInv

\* The same for a request that ends.
LEMMA ReturnStep ==
    ASSUME IInv, NEW r \in Requests, UNCHANGED <<phase, received, good, file>>,
           Return(r)
    PROVE  IInv'
<1>1. /\ 0 \in 0 .. Size /\ "idle" \in RequestPcs
      /\ NoArtifact \in Artifacts \cup {NoArtifact} /\ TRUE \in BOOLEAN
  BY SizeAssumption DEF RequestPcs
<1> QED
  BY <1>1, RequestStep DEF Return

LEMMA CreateStep ==
    ASSUME IInv, NEW a \in Artifacts, create(a)
    PROVE  IInv'
<1> USE DEF create, reqVars
<1>1. Types'
  BY DEF IInv, Types
<1>2. FileIsPrefix' /\ ReceivedIsThere'
  BY DEF IInv, FileIsPrefix, ReceivedIsThere, Unit
<1>3. RequestIsBehind'
  BY DEF IInv, RequestIsBehind, IsBehind
<1>4. VerdictIsFounded'
  BY DEF IInv, VerdictIsFounded, Unit
<1>5. RowIsFounded'
  BY DEF IInv, RowIsFounded, Types
<1> QED
  BY <1>1, <1>2, <1>3, <1>4, <1>5 DEF IInv

LEMMA AppendReadStep ==
    ASSUME IInv, NEW r \in Requests, NEW a \in Artifacts, NEW len \in 1 .. Size,
           AppendRead(r, a, len)
    PROVE  IInv'
<1>1. /\ received[a] \in 0 .. Size /\ len \in 0 .. Size /\ 0 \in 0 .. Size
      /\ a \in Artifacts \cup {NoArtifact} /\ TRUE \in BOOLEAN /\ "write" \in RequestPcs
  BY SizeAssumption DEF IInv, Types, RequestPcs
<1>2. /\ received[a] + len <= Size /\ received[a] <= Len(file[a]) /\ 0 < len
      /\ received[a] + 0 = received[a] /\ received[a] <= received[a]
  BY <1>1 DEF AppendRead, IInv, ReceivedIsThere
<1> QED
  BY <1>1, <1>2, RequestStep DEF AppendRead, Start, rowVars

LEMMA FinalizeReadStep ==
    ASSUME IInv, NEW r \in Requests, NEW a \in Artifacts, FinalizeRead(r, a)
    PROVE  IInv'
<1> DEFINE p == IF received[a] < Size THEN "failed" ELSE "hash"
<1>1. /\ received[a] \in 0 .. Size /\ 0 \in 0 .. Size
      /\ a \in Artifacts \cup {NoArtifact} /\ TRUE \in BOOLEAN
  BY SizeAssumption DEF IInv, Types
<1>2. /\ p \in {"failed", "hash"} /\ p \in RequestPcs
      /\ p = "failed" => received[a] < Size
      /\ p = "hash" => received[a] = Size
      /\ received[a] <= received[a]
  BY <1>1, SizeAssumption DEF RequestPcs
<1>3. TRUE <=> \A i \in 1 .. 0 : Unit(a, i) = i
  OBVIOUS
<1>4. Start(r, p, a, 0) /\ UNCHANGED <<phase, received, good, file>>
  BY DEF FinalizeRead, rowVars
<1> HIDE DEF p
<1> QED
  BY <1>1, <1>2, <1>3, <1>4, RequestStep DEF Start

\* A written unit extends the prefix or repeats what is there.
LEMMA WriteUnitStep ==
    ASSUME IInv, NEW r \in Requests, WriteUnit(r)
    PROVE  IInv'
<1> DEFINE a == rart[r]
           i == roff[r] + rpos[r] + 1
           g == write_chunk(file[a], i, Unit(a, i))
<1>1. /\ a \in Artifacts /\ rpos[r] < rlen[r] /\ roff[r] + rlen[r] <= Size
      /\ roff[r] + rpos[r] <= Len(file[a]) /\ roff[r] <= received[a]
  BY DEF WriteUnit, IInv, RequestIsBehind, IsBehind
<1>2. /\ file[a] \in Seq(Nat) /\ Len(file[a]) \in Nat
      /\ roff[r] \in Nat /\ rpos[r] \in Nat /\ rlen[r] \in Nat
  BY <1>1 DEF IInv, Types
<1>3. i \in 1 .. Len(file[a]) + 1 /\ i \in 1 .. Size
  BY <1>1, <1>2, SizeAssumption
<1>4. Unit(a, i) \in Nat
  BY <1>3, UnitProperties
<1>5. /\ g \in Seq(Nat) /\ Len(g) = (IF i > Len(file[a]) THEN i ELSE Len(file[a]))
      /\ \A j \in 1 .. Len(g) : g[j] = IF j = i THEN Unit(a, i) ELSE file[a][j]
  <2> DEFINE f == file[a]
             u == Unit(a, i)
  <2>1. f \in Seq(Nat) /\ i \in 1 .. Len(f) + 1 /\ u \in Nat
    BY <1>2, <1>3, <1>4
  <2> HIDE DEF a, i, f, u
  <2>2. /\ write_chunk(f, i, u) \in Seq(Nat)
        /\ Len(write_chunk(f, i, u)) = IF i > Len(f) THEN i ELSE Len(f)
        /\ \A j \in 1 .. Len(write_chunk(f, i, u)) :
              write_chunk(f, i, u)[j] = IF j = i THEN u ELSE f[j]
    BY <2>1, WriteChunkProperties
  <2> QED
    BY <2>2 DEF f, u
<1>6. /\ file' = [file EXCEPT ![a] = g]
      /\ UNCHANGED <<phase, received, good, faults>>
  BY DEF WriteUnit, rowVars
<1> HIDE DEF g
<1>7. file' \in [Artifacts -> Seq(Nat)] /\ file'[a] = g
      /\ \A b \in Artifacts \ {a} : file'[b] = file[b]
  BY <1>1, <1>5, <1>6 DEF IInv, Types
<1>8. /\ Len(g) \in Nat /\ Len(file[a]) <= Len(g) /\ i <= Len(g) /\ Len(g) <= Size
      /\ \A j \in 1 .. Len(g) : j # i => j \in 1 .. Len(file[a])
  BY <1>1, <1>2, <1>3, <1>5 DEF IInv, FileIsPrefix
<1>9. \A b, j : Unit(b, j)' = Unit(b, j)
  BY <1>6 DEF Unit
<1>10. FileIsPrefix'
  <2>1. \A j \in 1 .. Len(g) : g[j] = Unit(a, j)
    BY <1>1, <1>5, <1>8 DEF IInv, FileIsPrefix
  <2> QED
    BY <2>1, <1>1, <1>7, <1>8, <1>9 DEF IInv, FileIsPrefix
<1>11. \A b \in Artifacts : /\ Len(file[b]) \in Nat /\ Len(file'[b]) \in Nat
                            /\ Len(file[b]) <= Len(file'[b])
  <2>1. \A b \in Artifacts : file[b] \in Seq(Nat) /\ file'[b] \in Seq(Nat)
    BY <1>7 DEF IInv, Types
  <2>2. \A b \in Artifacts : Len(file[b]) \in Nat /\ Len(file'[b]) \in Nat
    BY <2>1
  <2> QED
    BY <2>2, <1>7, <1>8
<1>12. ReceivedIsThere' /\ RowIsFounded'
  BY <1>6, <1>11 DEF IInv, ReceivedIsThere, RowIsFounded, Types
<1>13. ASSUME NEW q \in Requests \ {r},
             rpc'[q] = rpc[q], rart'[q] = rart[q], roff'[q] = roff[q],
             rlen'[q] = rlen[q], rpos'[q] = rpos[q]
      PROVE  IsBehind(q)'
  BY <1>6, <1>11, <1>13 DEF IInv, RequestIsBehind, IsBehind, Types
<1>14. CASE rpos[r] + 1 < rlen[r]
  <2>1. rpos' = [rpos EXCEPT ![r] = rpos[r] + 1] /\ UNCHANGED <<rpc, rart, roff, rlen, rok>>
    BY <1>14 DEF WriteUnit, IInv, Types
  <2>2. Types'
    BY <2>1, <1>1, <1>2, <1>6, <1>7, <1>14, SizeAssumption DEF IInv, Types
  <2>3. IsBehind(r)'
    <3>1. /\ rpc'[r] \in {"write", "orphan"} /\ rart'[r] = a /\ roff'[r] = roff[r]
          /\ rlen'[r] = rlen[r] /\ rpos'[r] = rpos[r] + 1
      BY <2>1 DEF WriteUnit, IInv, Types
    <3>2. roff[r] + (rpos[r] + 1) <= Len(g)
      BY <1>2, <1>8
    <3> HIDE DEF a, i
    <3> QED
      BY <3>1, <3>2, <1>1, <1>6, <1>7, <1>14 DEF IsBehind
  <2>4. RequestIsBehind'
    BY <2>1, <2>3, <1>13 DEF IInv, RequestIsBehind, Types
  <2>5. VerdictIsFounded'
    BY <2>1, <1>6, <1>9 DEF IInv, VerdictIsFounded, Types, WriteUnit
  <2> QED
    BY <2>2, <2>4, <2>5, <1>10, <1>12 DEF IInv
<1>15. CASE ~(rpos[r] + 1 < rlen[r]) /\ rpc[r] = "orphan"
  <2>1. Return(r)
    BY <1>15 DEF WriteUnit
  <2>2. Types'
    BY <2>1, <1>6, <1>7, SizeAssumption DEF IInv, Types, Return, RequestPcs
  <2>3. RequestIsBehind'
    BY <2>1, <1>13 DEF IInv, RequestIsBehind, IsBehind, Types, Return
  <2>4. VerdictIsFounded'
    BY <2>1, <1>6, <1>9 DEF IInv, VerdictIsFounded, Types, Return
  <2> QED
    BY <2>2, <2>3, <2>4, <1>10, <1>12 DEF IInv
<1>16. CASE ~(rpos[r] + 1 < rlen[r]) /\ rpc[r] # "orphan"
  <2>1. Goto(r, "advance")
    BY <1>16 DEF WriteUnit
  <2>2. Types'
    BY <2>1, <1>6, <1>7 DEF IInv, Types, Goto, RequestPcs
  <2>3. roff[r] + rlen[r] <= Len(g)
    BY <1>1, <1>2, <1>8, <1>16
  <2>4. IsBehind(r)'
    BY <2>1, <2>3, <1>1, <1>6, <1>7 DEF IInv, IsBehind, Types, Goto
  <2>5. RequestIsBehind'
    BY <2>1, <2>4, <1>13 DEF IInv, RequestIsBehind, Types, Goto
  <2>6. VerdictIsFounded'
    BY <2>1, <1>6, <1>9 DEF IInv, VerdictIsFounded, Types, Goto
  <2> QED
    BY <2>2, <2>5, <2>6, <1>10, <1>12 DEF IInv
<1> QED
  BY <1>14, <1>15, <1>16

\* The row moves forward only by what is in the file, with a verdict only by
\* what was hashed.
LEMMA RowStep ==
    ASSUME IInv, NEW r \in Requests, NEW n \in Nat,
           NEW s \in {"uploading", "ready", "failed"},
           update_artifact(rart[r], n, s), Return(r), UNCHANGED <<good, file>>,
           rpc[r] # "idle", n <= Len(file[rart[r]]),
           s = "ready" => rart[r] \in good
    PROVE  IInv'
<1> DEFINE a == rart[r]
<1>1. a \in Artifacts
  BY DEF IInv, RequestIsBehind, IsBehind
<1>2. \/ UNCHANGED <<phase, received>>
      \/ /\ phase[a] = "uploading" /\ received[a] <= n /\ n <= Size
         /\ s = "ready" => n = Size
         /\ phase' = [phase EXCEPT ![a] = s]
         /\ received' = [received EXCEPT ![a] = n]
  BY <1>1, UpdateProperties DEF IInv
<1>3. CASE UNCHANGED <<phase, received>>
  BY <1>3, ReturnStep
<1>4. CASE /\ phase[a] = "uploading" /\ received[a] <= n /\ n <= Size
           /\ s = "ready" => n = Size
           /\ phase' = [phase EXCEPT ![a] = s]
           /\ received' = [received EXCEPT ![a] = n]
  <2>1. Types'
    BY <1>1, <1>4, SizeAssumption DEF IInv, Types, Return, RequestPcs
  <2>2. FileIsPrefix'
    BY DEF IInv, FileIsPrefix, Unit
  <2>3. ReceivedIsThere'
    BY <1>1, <1>4 DEF IInv, ReceivedIsThere, Types
  <2>4. RowIsFounded'
    BY <1>1, <1>4 DEF IInv, RowIsFounded, Types
  <2>5. RequestIsBehind'
    <3>1. \A b \in Artifacts : /\ received[b] \in Nat /\ received'[b] \in Nat
                               /\ received[b] <= received'[b]
      BY <1>1, <1>4 DEF IInv, Types
    <3>2. \A q \in Requests : /\ rpc'[q] # "idle" => q # r
                              /\ q # r => /\ rpc'[q] = rpc[q] /\ rart'[q] = rart[q]
                                          /\ roff'[q] = roff[q] /\ rlen'[q] = rlen[q]
                                          /\ rpos'[q] = rpos[q] /\ roff[q] \in Nat
      BY DEF IInv, Types, Return
    <3> QED
      BY <3>1, <3>2 DEF IInv, RequestIsBehind, IsBehind
  <2>6. VerdictIsFounded'
    BY DEF IInv, VerdictIsFounded, Unit, Types, Return
  <2> QED
    BY <2>1, <2>2, <2>3, <2>4, <2>5, <2>6 DEF IInv
<1> QED
  BY <1>2, <1>3, <1>4

LEMMA AdvanceStep ==
    ASSUME IInv, NEW r \in Requests, Advance(r)
    PROVE  IInv'
<1>1. roff[r] + rlen[r] \in Nat
  BY DEF IInv, Types
<1>2. roff[r] + rlen[r] <= Len(file[rart[r]]) /\ rpc[r] # "idle"
  BY DEF Advance, IInv, RequestIsBehind, IsBehind
<1> QED
  BY <1>1, <1>2, RowStep DEF Advance

LEMMA VerdictStep ==
    ASSUME IInv, NEW r \in Requests, Verdict(r)
    PROVE  IInv'
<1>1. roff[r] \in Nat /\ rart[r] \in Artifacts /\ roff[r] <= received[rart[r]]
  BY DEF IInv, Types, Verdict, RequestIsBehind, IsBehind
<1>2. roff[r] <= Len(file[rart[r]])
  BY <1>1 DEF IInv, Types, ReceivedIsThere
<1>3. rpc[r] \in {"uploading", "ready", "failed"} /\ rpc[r] # "idle"
      /\ (rpc[r] = "ready" => rart[r] \in good)
  BY DEF IInv, VerdictIsFounded, Verdict
<1> QED
  BY <1>1, <1>2, <1>3, RowStep DEF Verdict

\* A file that is hashed is complete, so its units are the client's.
LEMMA HashUnitStep ==
    ASSUME IInv, NEW r \in Requests, HashUnit(r)
    PROVE  IInv'
<1> DEFINE a == rart[r]
           f == file[a]
           i == rpos[r] + 1
<1>1. /\ rpc[r] = "hash" /\ a \in Artifacts /\ roff[r] = Size /\ roff[r] <= received[a]
      /\ rok[r] <=> \A j \in 1 .. rpos[r] : Unit(a, j) = j
  BY DEF HashUnit, IInv, RequestIsBehind, IsBehind, VerdictIsFounded
<1>2. /\ f \in Seq(Nat) /\ Len(f) \in Nat /\ roff[r] \in 0 .. Size
      /\ rlen[r] \in 0 .. Size /\ rpos[r] \in 0 .. Size /\ rok[r] \in BOOLEAN
      /\ received[a] \in 0 .. Size
  BY <1>1 DEF IInv, Types
<1>3. Len(f) = Size /\ \A j \in 1 .. Size : f[j] = Unit(a, j)
  BY <1>1, <1>2, SizeAssumption DEF IInv, FileIsPrefix, ReceivedIsThere
<1>4. UNCHANGED <<phase, received, good, file>>
  BY DEF HashUnit, rowVars
<1>5. CASE i <= Len(f)
  <2> DEFINE ok == rok[r] /\ f[i] = i
  <2>1. /\ rpos' = [rpos EXCEPT ![r] = i] /\ rok' = [rok EXCEPT ![r] = ok]
        /\ UNCHANGED <<rpc, rart, roff, rlen>>
    BY <1>5 DEF HashUnit
  <2>2. i \in 0 .. Size /\ i \in 1 .. Size /\ ok \in BOOLEAN
    BY <1>2, <1>3, <1>5
  <2>3. ok <=> \A j \in 1 .. i : Unit(a, j) = j
    <3>1. \A j \in 1 .. i : j \in 1 .. rpos[r] \/ j = i
      BY <1>2
    <3>2. \A j \in 1 .. rpos[r] : j \in 1 .. i
      BY <1>2
    <3>3. f[i] = Unit(a, i) /\ i \in 1 .. i
      BY <1>3, <2>2
    <3> HIDE DEF a, f, i
    <3>4. CASE ok
      BY <3>4, <1>1, <3>1, <3>3
    <3>5. CASE ~ok
      BY <3>5, <1>1, <3>2, <3>3
    <3> QED
      BY <3>4, <3>5
  <2>4. /\ rpc' = [rpc EXCEPT ![r] = "hash"] /\ rart' = [rart EXCEPT ![r] = a]
        /\ roff' = [roff EXCEPT ![r] = Size] /\ rlen' = [rlen EXCEPT ![r] = rlen[r]]
    BY <2>1, <1>1 DEF IInv, Types
  <2>5. /\ "hash" \in RequestPcs /\ a \in Artifacts \cup {NoArtifact}
        /\ Size \in 0 .. Size /\ Size <= received[a]
    BY <1>1, <1>2, SizeAssumption DEF RequestPcs
  <2> HIDE DEF ok, i, a, f
  <2>6. /\ rlen[r] \in 0 .. Size /\ a \in Artifacts
        /\ rpos' = [rpos EXCEPT ![r] = i] /\ rok' = [rok EXCEPT ![r] = ok]
    BY <1>1, <1>2, <2>1
  <2> QED
    BY <1>4, <2>2, <2>3, <2>4, <2>5, <2>6, RequestStep
<1>6. CASE ~(i <= Len(f))
  <2> DEFINE p == IF rok[r] /\ rpos[r] = Size THEN "ready" ELSE "failed"
  <2>1. Goto(r, p)
    BY <1>6 DEF HashUnit
  <2>2. rpos[r] = Size
    BY <1>2, <1>3, <1>6
  <2>3. rok[r] <=> a \in good
    <3>1. Size \in 1 .. Size
      BY SizeAssumption
    <3> QED
      BY <1>1, <2>2, <3>1, UnitProperties
  <2>4. /\ p \in {"ready", "failed"} /\ p \in RequestPcs
        /\ p = "ready" => a \in good
        /\ p = "failed" => a \notin good
    BY <2>2, <2>3 DEF RequestPcs
  <2>5. /\ rpc' = [rpc EXCEPT ![r] = p] /\ rart' = [rart EXCEPT ![r] = a]
        /\ roff' = [roff EXCEPT ![r] = Size] /\ rlen' = [rlen EXCEPT ![r] = rlen[r]]
        /\ rpos' = [rpos EXCEPT ![r] = rpos[r]] /\ rok' = [rok EXCEPT ![r] = rok[r]]
    BY <2>1, <1>1 DEF IInv, Types, Goto
  <2>6. /\ a \in Artifacts \cup {NoArtifact}
        /\ Size \in 0 .. Size /\ Size <= received[a]
    BY <1>1, <1>2, SizeAssumption
  <2> HIDE DEF p, i, a, f
  <2> QED
    BY <1>1, <1>2, <1>4, <2>4, <2>5, <2>6, RequestStep
<1> QED
  BY <1>5, <1>6

LEMMA FaultStep ==
    ASSUME IInv, Crash \/ \E r \in Requests : RequestFails(r)
    PROVE  IInv'
<1>1. ASSUME Crash PROVE IInv'
  <2>1. Types'
    BY <1>1, SizeAssumption DEF IInv, Types, Crash, rowVars, RequestPcs
  <2>2. FileIsPrefix' /\ ReceivedIsThere' /\ RowIsFounded'
    BY <1>1 DEF IInv, FileIsPrefix, ReceivedIsThere, RowIsFounded, Unit, Crash, rowVars
  <2>3. RequestIsBehind' /\ VerdictIsFounded'
    BY <1>1 DEF Crash, RequestIsBehind, IsBehind, VerdictIsFounded
  <2> QED
    BY <2>1, <2>2, <2>3 DEF IInv
<1>2. ASSUME NEW r \in Requests, RequestFails(r), rpc[r] = "write" PROVE IInv'
  <2>1. /\ rpc' = [rpc EXCEPT ![r] = "orphan"] /\ rart' = [rart EXCEPT ![r] = rart[r]]
        /\ roff' = [roff EXCEPT ![r] = roff[r]] /\ rlen' = [rlen EXCEPT ![r] = rlen[r]]
        /\ rpos' = [rpos EXCEPT ![r] = rpos[r]] /\ rok' = [rok EXCEPT ![r] = rok[r]]
        /\ UNCHANGED <<phase, received, good, file>>
    BY <1>2 DEF IInv, Types, RequestFails, Goto, rowVars
  <2>2. /\ "orphan" \in RequestPcs /\ rart[r] \in Artifacts \cup {NoArtifact}
        /\ roff[r] \in 0 .. Size /\ rlen[r] \in 0 .. Size /\ rpos[r] \in 0 .. Size
        /\ rok[r] \in BOOLEAN
    BY <1>2 DEF IInv, Types, RequestPcs
  <2>3. /\ rart[r] \in Artifacts /\ roff[r] <= received[rart[r]]
        /\ rpos[r] < rlen[r] /\ roff[r] + rlen[r] <= Size
        /\ roff[r] + rpos[r] <= Len(file[rart[r]])
    BY <1>2 DEF IInv, RequestIsBehind, IsBehind
  <2> QED
    BY <1>2, <2>1, <2>2, <2>3, RequestStep
<1>3. ASSUME NEW r \in Requests, RequestFails(r), rpc[r] # "write" PROVE IInv'
  BY <1>3, ReturnStep DEF RequestFails, rowVars
<1> QED
  BY <1>1, <1>2, <1>3

LEMMA NextIInv == IInv /\ [Next]_vars => IInv'
<1> SUFFICES ASSUME IInv, [Next]_vars PROVE IInv'
  OBVIOUS
<1>1. CASE Next
  BY <1>1, CreateStep, AppendReadStep, FinalizeReadStep, WriteUnitStep, AdvanceStep,
     HashUnitStep, VerdictStep, FaultStep DEF Next, Step
<1>2. CASE UNCHANGED vars
  BY <1>2 DEF vars, rowVars, reqVars, IInv, Types, FileIsPrefix, ReceivedIsThere,
     RequestIsBehind, IsBehind, VerdictIsFounded, RowIsFounded, Unit
<1> QED
  BY <1>1, <1>2

\* The inductive invariant holds in every reachable state of the store.
THEOREM Inductive == Spec => []IInv
BY InitIInv, NextIInv, PTL DEF Spec

-----------------------------------------------------------------------------
(* What it implies.                                                        *)

\* The resume point is honest, whatever requests overlapped, were cancelled
\* or died between the write and the row (append_chunk).
THEOREM ProgressHolds == Spec => []ProgressIsWritten
<1>1. IInv => ProgressIsWritten
  <2> SUFFICES ASSUME IInv, NEW a \in Artifacts
               PROVE  /\ received[a] <= Len(file[a])
                      /\ \A i \in 1 .. received[a] : file[a][i] = Unit(a, i)
    BY DEF ProgressIsWritten
  <2>1. file[a] \in Seq(Nat) /\ received[a] \in Nat
    BY DEF IInv, Types
  <2>2. Len(file[a]) \in Nat /\ received[a] <= Len(file[a])
    BY <2>1 DEF IInv, ReceivedIsThere
  <2>3. \A i \in 1 .. received[a] : i \in 1 .. Len(file[a])
    BY <2>1, <2>2
  <2> QED
    BY <2>2, <2>3 DEF IInv, FileIsPrefix
<1> QED
  BY <1>1, Inductive, PTL

\* A ready artifact's file has the declared bytes, also while overtaken
\* requests still write to it (finalize).
THEOREM ReadyHolds == Spec => []ReadyMatchesDigest
<1>1. IInv => ReadyMatchesDigest
  <2> SUFFICES ASSUME IInv, NEW a \in Artifacts, phase[a] = "ready"
               PROVE  file[a] = [i \in 1 .. Size |-> i]
    BY DEF ReadyMatchesDigest
  <2>1. file[a] \in Seq(Nat) /\ received[a] = Size /\ a \in good
    BY DEF IInv, Types, RowIsFounded
  <2>2. Len(file[a]) \in Nat
    BY <2>1
  <2>3. Len(file[a]) = Size
    BY <2>1, <2>2, SizeAssumption DEF IInv, ReceivedIsThere, FileIsPrefix
  <2>4. \A i \in 1 .. Size : file[a][i] = i
    BY <2>1, <2>3, UnitProperties DEF IInv, FileIsPrefix
  <2>5. DOMAIN file[a] = 1 .. Size /\ file[a] = [i \in DOMAIN file[a] |-> file[a][i]]
    BY <2>1, <2>3
  <2> QED
    BY <2>4, <2>5
<1> QED
  BY <1>1, Inductive, PTL

-----------------------------------------------------------------------------
(* The refinement.                                                         *)

Complete == {a \in Artifacts : received[a] = Size}

LEMMA ContractInitHolds == Init => Contract!Init
BY SizeAssumption DEF Init, Contract!Init

\* A step that leaves the rows alone is invisible in the contract.
LEMMA ContractStutter ==
    ASSUME UNCHANGED <<phase, received, good>>
    PROVE  UNCHANGED Contract!artifactVars
BY DEF Contract!artifactVars

\* The row's own steps: a last piece completes it, and a verdict is given
\* on the count that was read only if the row still has it.
LEMMA ContractAdvance ==
    ASSUME IInv, NEW r \in Requests, Advance(r)
    PROVE  Contract!Next \/ UNCHANGED Contract!artifactVars
<1> DEFINE a == rart[r]
           n == roff[r] + rlen[r]
<1>1. a \in Artifacts /\ n \in Nat /\ "uploading" \in {"uploading", "ready", "failed"}
  BY DEF Advance, IInv, Types, RequestIsBehind, IsBehind
<1>2. update_artifact(a, n, "uploading") /\ UNCHANGED good
  BY DEF Advance
<1> HIDE DEF a, n
<1>3. \/ UNCHANGED <<phase, received>>
      \/ /\ phase[a] = "uploading" /\ received[a] <= n /\ n <= Size
         /\ phase' = [phase EXCEPT ![a] = "uploading"]
         /\ received' = [received EXCEPT ![a] = n]
  BY <1>1, <1>2, UpdateProperties DEF IInv
<1>4. CASE UNCHANGED <<phase, received>>
  BY <1>2, <1>4, ContractStutter
<1>5. CASE /\ phase[a] = "uploading" /\ received[a] <= n /\ n <= Size
           /\ phase' = [phase EXCEPT ![a] = "uploading"]
           /\ received' = [received EXCEPT ![a] = n]
  <2>1. phase' = phase
    BY <1>5 DEF IInv, Types
  <2>2. \A b \in Artifacts : received'[b] = IF b = a THEN n ELSE received[b]
    BY <1>1, <1>5 DEF IInv, Types
  <2>3. received[a] \in 0 .. Size
    BY <1>1 DEF IInv, Types
  <2>4. CASE n = Size /\ received[a] # Size
    <3>1. Complete' = Complete \cup {a} /\ a \notin Complete
      BY <1>1, <2>2, <2>4 DEF Complete
    <3> QED
      BY <1>1, <1>2, <1>5, <2>1, <3>1 DEF Contract!Next, Contract!Complete, Complete
  <2>5. CASE ~(n = Size /\ received[a] # Size)
    <3>1. n = Size <=> received[a] = Size
      BY <1>1, <1>5, <2>3, <2>5, SizeAssumption
    <3>2. Complete' = Complete
      BY <2>2, <3>1 DEF Complete
    <3> QED
      BY <1>2, <2>1, <3>2 DEF Contract!artifactVars, Complete
  <2> QED
    BY <2>4, <2>5
<1> QED
  BY <1>3, <1>4, <1>5

LEMMA ContractVerdict ==
    ASSUME IInv, NEW r \in Requests, Verdict(r)
    PROVE  Contract!Next \/ UNCHANGED Contract!artifactVars
<1> DEFINE a == rart[r]
           n == roff[r]
           v == rpc[r]
<1>1. /\ a \in Artifacts /\ n \in Nat /\ n <= received[a] /\ received[a] \in 0 .. Size
      /\ v \in {"ready", "failed"} /\ v \in {"uploading", "ready", "failed"}
      /\ v = "ready" => a \in good
      /\ v = "failed" => n < Size \/ a \notin good
  BY DEF Verdict, IInv, Types, RequestIsBehind, IsBehind, VerdictIsFounded
<1>2. update_artifact(a, n, v) /\ UNCHANGED good
  BY DEF Verdict
<1> HIDE DEF a, n, v
<1>3. \/ UNCHANGED <<phase, received>>
      \/ /\ phase[a] = "uploading" /\ received[a] <= n /\ n <= Size
         /\ v = "ready" => n = Size
         /\ phase' = [phase EXCEPT ![a] = v]
         /\ received' = [received EXCEPT ![a] = n]
  BY <1>1, <1>2, UpdateProperties DEF IInv
<1>4. CASE UNCHANGED <<phase, received>>
  BY <1>2, <1>4, ContractStutter
<1>5. CASE /\ phase[a] = "uploading" /\ received[a] <= n /\ n <= Size
           /\ v = "ready" => n = Size
           /\ phase' = [phase EXCEPT ![a] = v]
           /\ received' = [received EXCEPT ![a] = n]
  <2>1. received[a] = n
    BY <1>1, <1>5
  <2>2. received' = received
    BY <2>1, <1>5 DEF IInv, Types
  <2>3. CASE v = "ready"
    BY <1>1, <1>2, <1>5, <2>1, <2>2, <2>3 DEF Contract!Next, Contract!MarkReady
  <2>4. CASE v = "failed"
    <3>1. received[a] # Size \/ a \notin good
      BY <1>1, <2>1, <2>4, SizeAssumption
    <3>2. a \notin {b \in Artifacts : received[b] = Size} \cap good
      BY <3>1
    <3>3. Contract!MarkFailed(a)
      BY <1>2, <1>5, <2>2, <2>4, <3>2 DEF Contract!MarkFailed
    <3> QED
      BY <1>1, <3>3 DEF Contract!Next
  <2> QED
    BY <1>1, <2>3, <2>4
<1> QED
  BY <1>3, <1>4, <1>5

\* Every step of the store is a step of the contract or leaves it alone.
LEMMA ContractStep ==
    ASSUME IInv, Next
    PROVE  Contract!Next \/ UNCHANGED Contract!artifactVars
<1>1. ASSUME NEW a \in Artifacts, create(a) PROVE Contract!Next
  BY <1>1 DEF create, Contract!Next, Contract!Declare
<1>2. ASSUME NEW r \in Requests, NEW a \in Artifacts, NEW len \in 1 .. Size,
             AppendRead(r, a, len)
      PROVE  UNCHANGED Contract!artifactVars
  BY <1>2, ContractStutter DEF AppendRead, rowVars
<1>3. ASSUME NEW r \in Requests, NEW a \in Artifacts, FinalizeRead(r, a)
      PROVE  UNCHANGED Contract!artifactVars
  BY <1>3, ContractStutter DEF FinalizeRead, rowVars
<1>4. ASSUME NEW r \in Requests, WriteUnit(r) \/ HashUnit(r) \/ RequestFails(r)
      PROVE  UNCHANGED Contract!artifactVars
  BY <1>4, ContractStutter DEF WriteUnit, HashUnit, RequestFails, rowVars
<1>5. ASSUME Crash PROVE UNCHANGED Contract!artifactVars
  BY <1>5, ContractStutter DEF Crash, rowVars
<1> QED
  BY <1>1, <1>2, <1>3, <1>4, <1>5, ContractAdvance, ContractVerdict DEF Next, Step

\* The store implements ArtifactContract: one verdict that is never revised,
\* Ready only for the declared bytes, and a complete upload of them never
\* fails.
THEOREM ContractIsKept == Spec => ImplementsContract
<1>1. IInv /\ [Next]_vars => [Contract!Next]_(Contract!artifactVars)
  <2> SUFFICES ASSUME IInv, [Next]_vars
               PROVE  Contract!Next \/ UNCHANGED Contract!artifactVars
    OBVIOUS
  <2>1. CASE UNCHANGED vars
    BY <2>1, ContractStutter DEF vars, rowVars
  <2> QED
    BY <2>1, ContractStep
<1> QED
  BY <1>1, ContractInitHolds, Inductive, PTL DEF Spec, ImplementsContract,
     Contract!Spec
=============================================================================
