-------------------------- MODULE OperationContract --------------------------
(***************************************************************************)
(* What the operation subsystem promises for each operation, whatever      *)
(* threads, Tasks, failed calls and restarts happen underneath: the        *)
(* persisted state moves along the domain's transition matrix one legal    *)
(* event at a time, and the write is issued at most once, after Running    *)
(* was persisted and before any verdict (design sections 13.2 and 13.5).   *)
(***************************************************************************)
EXTENDS Operation

VARIABLES state, sent

contractVars == <<state, sent>>

ContractInit ==
    /\ state = [o \in Ops |-> "Absent"]
    /\ sent = [o \in Ops |-> 0]

Accept(o) ==
    /\ state[o] = "Absent"
    /\ state' = [state EXCEPT ![o] = "Queued"]
    /\ UNCHANGED sent

Advance(o) ==
    /\ \E to \in OperationStates :
          LegalStep(state[o], to) /\ state' = [state EXCEPT ![o] = to]
    /\ UNCHANGED sent

Issue(o) ==
    /\ state[o] = "Running"
    /\ sent[o] = 0
    /\ sent' = [sent EXCEPT ![o] = 1]
    /\ UNCHANGED state

ContractNext == \E o \in Ops : Accept(o) \/ Advance(o) \/ Issue(o)

ContractSpec == ContractInit /\ [][ContractNext]_contractVars
==============================================================================
