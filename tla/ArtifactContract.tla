--------------------------- MODULE ArtifactContract ---------------------------
(***************************************************************************)
(* What the artifact store promises: an upload can be resumed until it is  *)
(* complete, and ends in one verdict that is never revised.  Ready means   *)
(* the declared bytes are there; a complete upload of them never fails.    *)
(***************************************************************************)
CONSTANT Artifacts

VARIABLES
    phase,          \* ArtifactState, or "none" before the declaration
    good,           \* the artifacts whose client sends the declared bytes
    complete        \* the artifacts of which every byte was received

artifactVars == <<phase, good, complete>>

Terminal == {"ready", "failed"}
Phases == {"none", "uploading"} \cup Terminal

Init ==
    /\ phase = [a \in Artifacts |-> "none"]
    /\ good \in SUBSET Artifacts
    /\ complete = {}

\* ArtifactStore::create
Declare(a) ==
    /\ phase[a] = "none"
    /\ phase' = [phase EXCEPT ![a] = "uploading"]
    /\ UNCHANGED <<good, complete>>

Complete(a) ==
    /\ phase[a] = "uploading" /\ a \notin complete
    /\ complete' = complete \cup {a}
    /\ UNCHANGED <<phase, good>>

MarkReady(a) ==
    /\ phase[a] = "uploading" /\ a \in complete \cap good
    /\ phase' = [phase EXCEPT ![a] = "ready"]
    /\ UNCHANGED <<good, complete>>

MarkFailed(a) ==
    /\ phase[a] = "uploading" /\ a \notin complete \cap good
    /\ phase' = [phase EXCEPT ![a] = "failed"]
    /\ UNCHANGED <<good, complete>>

Next == \E a \in Artifacts : Declare(a) \/ Complete(a) \/ MarkReady(a) \/ MarkFailed(a)

Spec == Init /\ [][Next]_artifactVars
=============================================================================
